-------------------------------- MODULE Guards ------------------------------
(***************************************************************************)
(* The rules of the hook that judges every Bash command before it runs     *)
(* (hooks/scripts/bash-guard.mjs, harness-guard.mjs), what it decides of   *)
(* the commands written for the tool, and what the shell would make of     *)
(* them: each simple command comes with what its program does, and the     *)
(* shell follows the directory, the locks taken and the scripts.           *)
(*                                                                         *)
(* A command arrives as the tokenizer leaves it: a sequence of simple      *)
(* commands, each its words, the simple commands of the script it gives to *)
(* a shell, which the word SCRIPT stands for, and whether its output is    *)
(* hidden.  A word that is a path to a program stands for its base name.   *)
(* The hook is a guard rail against mistakes, not a boundary: what a       *)
(* command computes is not guessed.                                        *)
(***************************************************************************)
EXTENDS Naturals, Sequences, FiniteSets, SequencesExt, FiniteSetsExt

CONSTANTS
  Processes,  \* what /proc says: pid -> [parent, group, name]
  Packages, Linked, \* directories with a package.json; with a node_modules that is a link
  ProjectAt,  \* directory -> the project of its supabase/config.toml
  Config,     \* the entries `stacks` of .apv/config.json
  MaxNesting, \* depth of the scripts examined
  Session,    \* the process that runs the hook
  Flocks, LeaseLists, \* the locks of /proc/locks: [file, pid]; what APV_LOCK_HELD may say
  Places,     \* where the session may be
  MaxNested   \* bound: scripts given to a shell by a script

Unknown == <<"?">>
SCRIPT == "<script>"

\* The words of the model, by their form.
Options ==
  {"--", "-9", "-1", "-0", "-7", "-s", "-l", "-f", "-u", "-n", "-y", "-w", "-c", "-lc", "-C",
   "-p", "-X", "-R", "-uf", "-o", "--prefix", "--prefix=/copy", "--dir", "--cwd", "--linked",
   "--local", "--dry-run", "--db-url", "--project-ref", "--workdir", "--force", "--force-with-lease",
   "--json", "--merge", "--prod", "--target", "--follow-tags", "--ttl"}
Assignments ==
  {"A=1", "STACK=a", "STACK=b", "SUPABASE_PROJECT_ID=pb", "APV_ALLOW_MERGE=1", "APV_ALLOW_DEPLOY=1"}
Joined(w) == IF w = "--prefix=/copy" THEN <<"--prefix", "/copy">> ELSE <<>>
Computed(w) == w \in {"$pid", "$(ps)", "$X", "$(ppid)"}
Full == {"-f", "-uf"}              \* -f, alone or among short options

Drop(w, n) == SubSeq(w, n + 1, Len(w))
RECURSIVE SkipOptions(_, _, _)
SkipOptions(w, withValue, stop) ==
  IF w = <<>> \/ w[1] \notin Options \ stop THEN w
  ELSE SkipOptions(Drop(w, IF w[1] \in withValue THEN 2 ELSE 1), withValue, stop)
RECURSIVE Positionals(_, _)
Positionals(w, withValue) ==
  IF w = <<>> THEN <<>>
  ELSE IF w[1] \in withValue THEN Positionals(Drop(w, 2), withValue)
  ELSE (IF w[1] \in Options THEN <<>> ELSE <<w[1]>>) \o Positionals(Tail(w), withValue)
\* The value of the first of these options, "" when there is none.
ValueOf(w, names) ==
  LET given == {k \in DOMAIN w : w[k] \in names \/ (Joined(w[k]) # <<>> /\ Joined(w[k])[1] \in names)}
      k == Min(given)
  IN IF given = {} THEN ""
     ELSE IF Joined(w[k]) # <<>> THEN Joined(w[k])[2]
     ELSE IF k < Len(w) THEN w[k + 1] ELSE ""

(***************************************************************************)
(* The command behind assignments and wrappers.                            *)
(***************************************************************************)
WRAPPERS ==
  [w \in {"sudo", "env", "nohup", "timeout", "xargs"} |->
     CASE w = "sudo" -> {"-u"} [] w = "timeout" -> {"-s"} [] w = "xargs" -> {"-n"} [] OTHER -> {}]
AfterWrapper(wrapper, options) ==
  LET rest == IF options # <<>> /\ options[1] = "--" THEN Tail(options) ELSE options
  IN IF wrapper = "timeout" THEN Drop(rest, 1) ELSE rest        \* timeout DURATION command
RECURSIVE CommandWords(_, _)
CommandWords(w, assignments) ==
  IF w = <<>> THEN [assignments |-> assignments, tool |-> "", args |-> <<>>]
  ELSE IF w[1] \in Assignments THEN CommandWords(Tail(w), assignments \cup {w[1]})
  ELSE IF w[1] \in DOMAIN WRAPPERS
  THEN CommandWords(AfterWrapper(w[1], SkipOptions(Tail(w), WRAPPERS[w[1]], {"--"})), assignments)
  ELSE [assignments |-> assignments, tool |-> w[1], args |-> Tail(w)]
\* A simple command and the call it makes.
Call(words) == CommandWords(words, {})

(***************************************************************************)
(* Process kills.                                                          *)
(***************************************************************************)
\* The parents of the hook, up to the first process of the system.
RECURSIVE ProcessAncestors(_)
ProcessAncestors(pid) ==
  IF pid = "1" \/ pid \notin DOMAIN Processes THEN {}
  ELSE {pid} \cup ProcessAncestors(Processes[pid].parent)
Groups(ancestors) == {Processes[p].group : p \in ancestors}
Names(ancestors) == {Processes[p].name : p \in ancestors}

ReadsPpid(w) == w \in {"ppid=", "$(ppid)"}
TestsOnly(args) ==
  \E k \in DOMAIN args : args[k] = "-0" \/ (args[k] = "-s" /\ k < Len(args) /\ args[k + 1] = "0")

\* What `kill` is asked to signal: a signal comes first, a later -<n> is a group.
RECURSIVE KillTargets(_, _, _, _)
KillTargets(args, ended, signalSeen, found) ==
  IF args = <<>> THEN found
  ELSE LET a == args[1] IN
       CASE a = "--" /\ ~ended -> KillTargets(Tail(args), TRUE, signalSeen, found)
         [] a = "-l" /\ ~ended -> {}
         [] a = "$PPID" -> {"$PPID"}
         [] a = "-s" /\ ~ended /\ ~signalSeen -> KillTargets(Drop(args, 2), ended, TRUE, found)
         [] a \in {"-9", "-1", "-7"} /\ ~ended /\ ~signalSeen /\ found = {} ->
              KillTargets(Tail(args), ended, TRUE, found)
         [] OTHER -> KillTargets(Tail(args), ended, signalSeen, found \cup {a})

NamesAncestor(pattern, ancestors) == pattern # <<>> /\ pattern[1] \in Names(ancestors)
Kill(c) == c.tool = "kill" /\ ~TestsOnly(c.args)
PgrepFull(c) == c.tool = "pgrep" /\ Full \cap ToSet(c.args) # {}
\* The ppid is in the arguments, or in the substitution that follows them.
PpidIn(args, following) ==
  \E a \in ToSet(args) \cup (IF ToSet(args) \subseteq Options THEN ToSet(following) ELSE {}) : ReadsPpid(a)
KillProblem(calls, segments, ancestors) ==
  \/ \E k \in DOMAIN calls :
       \/ calls[k].tool = "killall"
       \/ /\ calls[k].tool = "pkill"
          /\ \/ Full \cap ToSet(calls[k].args) # {}
             \/ NamesAncestor(Positionals(calls[k].args, {"-u", "-s"}), ancestors)
       \/ /\ Kill(calls[k])
          /\ KillTargets(calls[k].args, FALSE, FALSE, {}) \cap
               ({"$PPID", "0", "-1", "1"} \cup ancestors \cup Groups(ancestors)) # {}
  \/ /\ \E k \in DOMAIN calls : Kill(calls[k]) \/ calls[k].tool = "pkill"
     /\ \E k \in DOMAIN calls :
          \/ PgrepFull(calls[k])
          \/ Kill(calls[k]) /\ PpidIn(calls[k].args, IF k < Len(segments) THEN segments[k + 1].words ELSE <<>>)

(***************************************************************************)
(* Installs through a linked node_modules.                                 *)
(***************************************************************************)
INSTALLS ==
  [npm |-> {"ci", "install", "rm"}, pnpm |-> {"install", "add"}, yarn |-> {"install", "add"},
   bun |-> {"install", "add"}]
DirOption ==
  [npm |-> {"--prefix", "-C"}, pnpm |-> {"-C", "--dir"}, yarn |-> {"--cwd"}, bun |-> {"--cwd"}]
Installs(tool, sub) == IF sub = <<>> THEN tool = "yarn" ELSE sub[1] \in INSTALLS[tool]
IsInstall(c) ==
  /\ c.tool \in DOMAIN INSTALLS
  /\ Installs(c.tool, Positionals(c.args, {"--prefix", "-C", "--dir", "--cwd", "-w"}))

Absolute == [w \in {"/main", "/copy", "/copy/src", "~"} |->
               CASE w = "/main" -> <<"main">> [] w = "/copy" -> <<"copy">>
                 [] w = "/copy/src" -> <<"copy", "src">> [] OTHER -> <<"home">>]
Resolve(dir, w) ==
  IF w \in DOMAIN Absolute THEN Absolute[w]
  ELSE IF Computed(w) \/ dir = Unknown THEN Unknown
  ELSE IF w = ".." THEN (IF dir = <<>> THEN dir ELSE Front(dir)) ELSE Append(dir, w)
IsCd(c) == c.tool \in {"cd", "pushd"}
Move(places, dir) ==
  IF places = <<>> THEN Absolute["~"]
  ELSE IF places[1] = "-" THEN Unknown ELSE Resolve(dir, places[1])
CdTarget(c, dir) == Move(SelectSeq(c.args, LAMBDA a : a \notin Options), dir)

\* The nearest directory of a set, from `dir` upwards.
Nearest(dir, set) ==
  LET above == {n \in 0..Len(dir) : SubSeq(dir, 1, n) \in set}
  IN IF above = {} THEN Unknown ELSE SubSeq(dir, 1, Max(above))
LinkedNodeModules(dir) == dir \in Linked \/ Nearest(dir, Packages) \in Linked

Into(option, dir) == IF option = "" THEN dir ELSE Resolve(dir, option)
ThroughLink(where) == where # Unknown /\ LinkedNodeModules(where)
RECURSIVE InstallProblem(_, _)
InstallProblem(calls, dir) ==
  /\ calls # <<>>
  /\ \/ /\ IsInstall(calls[1])
        /\ ThroughLink(Into(ValueOf(calls[1].args, DirOption[calls[1].tool]), dir))
     \/ InstallProblem(Tail(calls), IF IsCd(calls[1]) THEN CdTarget(calls[1], dir) ELSE dir)

(***************************************************************************)
(* Test stacks, and remote databases.                                      *)
(***************************************************************************)
\* readStacks: an entry with neither a lock file nor a resource is skipped.
Stacks == {s \in Config : s.lockFile # "" \/ s.resource # ""}
NamesProject(w, project) ==
  w \in (CASE project = "pa" -> {"pa", "web_pa"} [] project = "pb" -> {"pb", "web_pb"} [] OTHER -> {})

DOCKER_READ == {"ps", "logs", "inspect", "stats", "images"}
OBJECT_READ == {"ls", "inspect", "df"}
COMPOSE_READ == {"ps", "logs", "config"}
MASS == {"stop", "kill", "rm", "restart"}
\* What a call acts on: the stacks it names, or every one.
Targets(action, rest) ==
  LET hits == {s \in Stacks : \E r \in rest : NamesProject(r, s.project)}
      literal == rest \ Options
  IN IF hits # {} THEN hits
     ELSE IF action = "prune" \/ (action \in MASS /\ (literal = {} \/ \E r \in literal : Computed(r)))
     THEN {s \in Stacks : s.project # ""} ELSE {}
Acts(call, reads, named) ==
  IF call = <<>> \/ call[1] \in reads THEN {} ELSE Targets(call[1], ToSet(Tail(call)) \cup named)
ComposeNames(options) == {options[k] : k \in {j \in 2..Len(options) : options[j - 1] \in {"-p", "-f"}}}
Compose(all, call) == Acts(call, COMPOSE_READ, ComposeNames(SubSeq(all, 1, Len(all) - Len(call))))
DockerCall(args) ==
  IF args = <<>> \/ args[1] \in DOCKER_READ THEN {}
  ELSE IF args[1] = "compose" THEN Compose(Tail(args), SkipOptions(Tail(args), {"-p", "-f"}, {}))
  ELSE IF args[1] \in {"container", "volume", "system"} THEN Acts(Tail(args), OBJECT_READ, {})
  ELSE Acts(args, DOCKER_READ, {})
DockerTargets(c) == IF c.tool = "docker" THEN DockerCall(SkipOptions(c.args, {"-c"}, {})) ELSE {}

\* The call of the supabase program, behind the launchers.
NoCall == [args |-> <<>>, verb |-> <<"", "">>]
Verb(p) == IF p = <<>> THEN <<"", "">> ELSE IF Len(p) = 1 THEN <<p[1], "">> ELSE <<p[1], p[2]>>
SupabaseArgs(w) ==
  IF w # <<>> /\ w[1] = "supabase"
  THEN [args |-> Tail(w), verb |-> Verb(Positionals(Tail(w), {"--workdir", "-o"}))] ELSE NoCall
Launched(w) == SupabaseArgs(IF w # <<>> /\ w[1] = "--" THEN Tail(w) ELSE w)
SupabaseInvocation(c) ==
  IF c.tool = "npx" THEN Launched(SkipOptions(c.args, {"-p"}, {"--"}))
  ELSE IF c.tool \in {"pnpm", "npm"} /\ c.args # <<>> /\ c.args[1] \in {"dlx", "exec"}
  THEN Launched(SkipOptions(Tail(c.args), {"-p"}, {"--"}))
  ELSE SupabaseArgs(<<c.tool>> \o c.args)
Has(call, option) == option \in ToSet(call.args)

WritesDatabase(verb) ==
  \/ verb[1] = "seed"
  \/ verb \in {<<"db", "reset">>, <<"db", "push">>, <<"migration", "up">>, <<"migration", "repair">>}
Loopback(url) == url = "url@localhost"
SupabaseWriteTarget(call) ==
  IF ~WritesDatabase(call.verb) THEN "none"
  ELSE IF Has(call, "--linked") \/ Has(call, "--project-ref") THEN "remote"
  ELSE IF Has(call, "--db-url")
  THEN IF Loopback(ValueOf(call.args, {"--db-url"})) THEN "local" ELSE "remote"
  ELSE IF ~Has(call, "--local") /\ call.verb \in {<<"db", "push">>, <<"migration", "repair">>}
  THEN "remote" ELSE "local"
RemoteWriteProblem(call) == SupabaseWriteTarget(call) = "remote" /\ ~Has(call, "--dry-run")

SupabaseChanges(call) ==
  \/ call.verb[1] \in {"start", "stop"} \/ call.verb = <<"test", "db">>
  \/ SupabaseWriteTarget(call) = "local"
  \/ call.verb = <<"db", "diff">> /\ {"--linked", "--db-url", "--project-ref"} \cap ToSet(call.args) = {}
ProjectFrom(config) == IF config = Unknown THEN "" ELSE ProjectAt[config]
SupabaseProject(assignments, workdir, dir) ==
  IF "SUPABASE_PROJECT_ID=pb" \in assignments THEN "pb"
  ELSE ProjectFrom(Nearest(Into(workdir, dir), DOMAIN ProjectAt))

\* The locks a wrapper takes, and the words it runs.
Wrapped(held, words) == [held |-> held, words |-> words]
FlockWrapper(rest) == Wrapped(IF rest = <<>> THEN {} ELSE {<<"file", rest[1]>>}, Drop(rest, 1))
ApvLockRun(w) ==           \* the words from `lock` on
  LET dash == {k \in DOMAIN w : w[k] = "--"}
  IN Wrapped({<<"resource", w[3]>>}, IF dash = {} THEN <<>> ELSE Drop(w, Min(dash)))
IsLockRun(w) == Len(w) >= 3 /\ w[1] = "lock" /\ w[2] = "run"
LockWrapper(c, words, stacks) ==
  LET bundled == Drop(c.args, Min({k \in DOMAIN c.args : c.args[k] = "cli.js"} \cup {Len(c.args)}))
      wrapping == {s \in stacks : s.lockCommand = c.tool}
  IN IF c.tool = "flock" THEN FlockWrapper(SkipOptions(c.args, {"-w"}, {}))
     ELSE IF c.tool = "apv" /\ IsLockRun(c.args) THEN ApvLockRun(c.args)
     ELSE IF IsLockRun(bundled) THEN ApvLockRun(bundled)
     ELSE IF wrapping = {} THEN Wrapped({}, words)
     ELSE Wrapped({<<"stack", s.id>> : s \in {t \in wrapping : t.env \subseteq c.assignments}}, c.args)

\* `around`: what an ancestor holds, in /proc/locks, and the leases of APV_LOCK_HELD.
HoldsStack(s, held, around) ==
  \/ <<"stack", s.id>> \in held
  \/ s.lockFile # "" /\ <<"file", s.lockFile>> \in held \cup around
  \/ s.resource # "" /\ <<"resource", s.resource>> \in held \cup around
Unheld(stacks, held, around) == \E s \in stacks : ~HoldsStack(s, held, around)
StackProblem(c, supabase, held, around, dir) ==
  Unheld(DockerTargets(c) \cup
           (IF ~SupabaseChanges(supabase) THEN {}
            ELSE {s \in Stacks : s.project = SupabaseProject(c.assignments, ValueOf(supabase.args, {"--workdir"}), dir)}),
         held, around)

(***************************************************************************)
(* What writes to GitHub, and production.                                  *)
(***************************************************************************)
After(w, program) ==
  LET at == {k \in DOMAIN w : w[k] = program}
  IN IF at = {} THEN <<>> ELSE Drop(w, Min(at))
Forced(call) ==
  /\ call # <<>> /\ call[1] = "push"
  /\ ToSet(Tail(call)) \cap {"--force", "--force-with-lease", "-f", "-uf", "+main"} # {}
IsForcePush(w) == Forced(SkipOptions(After(w, "git"), {"-C", "-c"}, {}))

GithubCall(p, args, method) ==
  IF Len(p) < 2 THEN "none"
  ELSE IF p[1] = "pr" /\ p[2] \in {"create", "edit", "merge", "close"}
  THEN IF p[2] = "merge" THEN "merge" ELSE "write"
  ELSE IF p[1] = "api" /\ "pulls/5/merge" \in args THEN "merge"
  ELSE IF p[1] = "api" /\ (method \notin {"", "GET"} \/ "-f" \in args) THEN "write" ELSE "none"
GithubArgs(args) == GithubCall(Positionals(args, {"-R"}), ToSet(args), ValueOf(args, {"-X"}))

\* apv, or the bundled tool behind a launcher, as the first word after assignments.
LAUNCHERS == {"node", "npx"}
Leading(w) == Min({k \in DOMAIN w : w[k] \notin Assignments \cup {"env"}} \cup {Len(w) + 1})
MergesStack(p, args) ==
  /\ p # <<>> /\ p[1] = "stack"
  /\ "merge" \in ToSet(Tail(p)) \/ (Len(p) > 1 /\ p[2] = "batch" /\ "--merge" \in args)
StackMergeFrom(w, start) ==
  \E k \in start..Len(w) :
    /\ (k = start /\ w[k] = "apv") \/ (k > start /\ w[start] \in LAUNCHERS /\ w[k] \in {"apv", "cli.js"})
    /\ MergesStack(Positionals(Drop(w, k), {}), ToSet(Drop(w, k)))
IsStackMerge(w) == StackMergeFrom(w, Leading(w))
GithubWrite(w) ==
  LET write == GithubArgs(After(w, "gh"))
  IN IF write = "none" /\ IsStackMerge(w) THEN "merge" ELSE write

Deploys(args, p) ==
  \/ p # <<>> /\ p[1] \in {"promote", "rollback"}
  \/ "--prod" \in ToSet(args)
  \/ \E k \in 1..(Len(args) - 1) : args[k] = "--target" /\ args[k + 1] = "production"
IsProductionDeploy(w) == Deploys(After(w, "vercel"), Positionals(After(w, "vercel"), {}))
Authorised(w, variable) == variable \in ToSet(SubSeq(w, 1, Leading(w) - 1))

(***************************************************************************)
(* The decision: the first rule that refuses, or "allow".                  *)
(***************************************************************************)
RunsScript(c) ==
  \E k \in 1..(Len(c.args) - 1) :
    /\ c.args[k + 1] = SCRIPT
    /\ c.args[k] \in (CASE c.tool = "flock" -> {"-c"} [] c.tool \in {"sh", "bash"} -> {"-c", "-lc"} [] OTHER -> {})

\* The text of a command, the scripts included, names a program of the stacks.
OfStacks == {"docker", "supabase"}
RECURSIVE NamesStacks(_)
NamesStacks(segments) ==
  \E k \in DOMAIN segments :
    OfStacks \cap ToSet(segments[k].words) # {} \/ NamesStacks(segments[k].script)
\* The declared stacks, read only for a command that may reach one.
StacksRead(segments) == IF NamesStacks(segments) THEN Stacks ELSE {}

HeldInside(inherited, taken) == taken                          \* mutated form of MergeHeld
MergeHeld(inherited, taken) == inherited \cup taken

RECURSIVE Evaluate(_, _, _, _)
\* One simple command: its words, its call, and the call behind its lock wrapper.
Rule(s, c, inner, supabase, held, context, depth) ==
  LET nested == IF depth < MaxNesting /\ (RunsScript(inner) \/ RunsScript(c))
                THEN Evaluate(s.script, context, depth + 1, held) ELSE "allow"
      write == GithubWrite(s.words)
  IN CASE RemoteWriteProblem(supabase) -> "remote"
       [] StackProblem(inner, supabase, held, context.around, context.cwd) -> "stack"
       [] nested # "allow" -> nested
       [] IsForcePush(s.words) -> "force"
       [] write = "merge" /\ ~Authorised(s.words, "APV_ALLOW_MERGE=1") -> "merge"
       [] IsProductionDeploy(s.words) /\ ~Authorised(s.words, "APV_ALLOW_DEPLOY=1") -> "deploy"
       [] OTHER -> IF write # "none" THEN "writes" ELSE "allow"
Behind(s, c, inner, held, context, depth) ==
  Rule(s, c, inner, SupabaseInvocation(inner), held, context, depth)
Examine(s, c, wrapped, inherited, context, depth) ==
  Behind(s, c, Call(wrapped.words), MergeHeld(inherited, wrapped.held), context, depth)
RuleOf(s, c, stacks, inherited, context, depth) ==
  Examine(s, c, LockWrapper(c, s.words, stacks), inherited, context, depth)
First(rules, hidden) ==
  LET refused == {k \in DOMAIN rules : rules[k] \notin {"allow", "writes"}}
  IN IF refused # {} THEN rules[Min(refused)]
     ELSE IF "writes" \in ToSet(rules) /\ hidden THEN "hidden" ELSE "allow"
Decide(segments, calls, stacks, context, depth, inherited) ==
  IF KillProblem(calls, segments, context.ancestors) THEN "kill"
  ELSE IF InstallProblem(calls, context.cwd) THEN "install"
  ELSE First(FoldLeft(LAMBDA rules, s :
                        Append(rules, RuleOf(s, Call(s.words), stacks, inherited, context, depth)),
                      <<>>, segments),
             \E k \in DOMAIN segments : segments[k].hidden)
Calls(segments) == FoldLeft(LAMBDA calls, s : Append(calls, Call(s.words)), <<>>, segments)
Evaluate(segments, context, depth, inherited) ==
  Decide(segments, Calls(segments), StacksRead(segments), context, depth, inherited)
-----------------------------------------------------------------------------
(***************************************************************************)
(* The hook and the shell.                                                 *)
(***************************************************************************)
GuardAssumption == Session \in DOMAIN Processes /\ MaxNested \in Nat /\ Packages # {}

VARIABLES
  script,   \* the command, a sequence of simple commands
  here,     \* the directory of the session
  around,   \* the locks its ancestors hold: files and resources
  decision  \* of the hook

vars == <<script, here, around, decision>>

Ancestors == ProcessAncestors(Session)
\* A file locked by one of the ancestors, or a lease.
FlockHeldBy(ancestors) == {<<"file", l.file>> : l \in {f \in Flocks : f.pid \in ancestors}}
AroundSets == {{}, FlockHeldBy(Ancestors)} \cup {{<<"resource", r>> : r \in list} : list \in LeaseLists}
-----------------------------------------------------------------------------
(***************************************************************************)
(* Simple commands, and what each does.  `then`: the command of a          *)
(* substitution, which the tokenizer makes a simple command of its own.    *)
(***************************************************************************)
Does(words, effects) == [words |-> words, does |-> effects, then |-> <<>>]
Kills(session) == {<<"kill", IF session THEN "session" ELSE "other">>}

ReachesSession(target) ==
  target \in {"0", "-1", "1", "$PPID", "$(ppid)"} \cup Ancestors \cup Groups(Ancestors)
KillCommands ==
  {Does(<<"kill">> \o signal \o end \o targets,
        IF signal \in {<<"-0">>, <<"-s", "0">>, <<"-l">>} THEN {}
        ELSE Kills(\E t \in ToSet(targets) : ReachesSession(t))) :
     signal \in {<<>>, <<"-9">>, <<"-s", "TERM">>, <<"-0">>, <<"-s", "0">>, <<"-l">>},
     end \in {<<>>, <<"--">>},
     targets \in {<<t>> : t \in {"7", "8", "0", "$PPID", "$(ppid)"}} \cup {<<"8", "-7">>, <<"$pid", "7">>}}
  \cup {Does(<<"kill">> \o before \o <<t>>, Kills(TRUE)) :
          before \in {<<"-9">>, <<"-s", "TERM">>, <<"--">>}, t \in {"-7", "-1"}}
  \cup {Does(<<"kill", "-7">>, {})}                          \* a signal, and no target
  \cup {[words |-> <<"kill">> \o signal, does |-> Kills(TRUE), then |-> source] :
          signal \in {<<>>, <<"-9">>}, source \in {<<"ps", "-o", "ppid=">>, <<"pgrep", "-f", "vite">>}}
  \cup {Does(<<"pkill">> \o option \o <<p>>, Kills(p \in Names(Ancestors))) :
          option \in {<<>>, <<"-9">>, <<"-u", "claude">>}, p \in {"claude", "vite"}}
  \* A pattern of command lines is in the command line of the shell itself.
  \cup {Does(w, Kills(TRUE)) :
          w \in {<<"killall", "vite">>, <<"pkill", "-f", "vite">>, <<"pkill", "-uf", "vite">>}}
Searches == {Does(w, {}) : w \in {<<"pgrep", "-f", "vite">>, <<"pgrep", "vite">>, <<"ps", "-o", "ppid=">>}}

Directories == {"/copy", "/main", "src", "..", "$X"}
InstallCommands ==
  LET calls == {<<"npm", <<"ci">>, TRUE>>, <<"npm", <<"run", "build">>, FALSE>>, <<"yarn", <<>>, TRUE>>,
                <<"pnpm", <<"add", "x">>, TRUE>>, <<"yarn", <<"install">>, TRUE>>, <<"bun", <<"test">>, FALSE>>}
      into(tool) == {<<<<>>, "">>} \cup {<<<<f, d>>, d>> : f \in DirOption[tool], d \in Directories}
                    \cup (IF tool = "npm" THEN {<<<<"--prefix=/copy">>, "/copy">>} ELSE {})
  IN UNION {{Does(<<c[1]>> \o w, IF c[3] THEN {<<"install", i[2]>>} ELSE {}) :
               w \in {i[1] \o c[2], c[2] \o i[1]}} :
              <<c, i>> \in UNION {{c} \X into(c[1]) : c \in calls}}
Cds == {Does(<<"cd">>, {<<"cd", "~">>})} \cup
       {Does(<<"cd", d>>, {<<"cd", d>>}) : d \in Directories \cup {"~", "-"}}
       \cup {Does(<<"pushd", "/copy">>, {<<"cd", "/copy">>})}

Projects(set) == {<<"docker", p>> : p \in set}
DockerCommands ==
  LET all == {s.project : s \in Stacks} \ {""} IN
  {Does(<<"docker">> \o context \o call, Projects(of)) :
     context \in {<<>>, <<"-c", "ctx">>},
     <<call, of>> \in
       {<<<<"stop", "web_pa">>, {"pa"}>>, <<<<"rm", "-f", "web_pa", "web_pb">>, {"pa", "pb"}>>,
        <<<<"exec", "web_pb", "ls">>, {"pb"}>>, <<<<"stop", "other">>, {}>>, <<<<"stop", "$(ps)">>, all>>,
        <<<<"logs", "web_pa">>, {}>>, <<<<"ps">>, {}>>, <<<<"run", "image">>, {}>>,
        <<<<"container", "stop", "web_pa">>, {"pa"}>>, <<<<"container", "inspect", "web_pa">>, {}>>,
        <<<<"volume", "rm", "web_pb">>, {"pb"}>>, <<<<"system", "prune", "-f">>, all>>,
        <<<<"system", "df">>, {}>>, <<<<"compose", "-p", "pa", "stop">>, {"pa"}>>,
        <<<<"compose", "-p", "pa", "logs">>, {}>>, <<<<"compose", "-f", "x", "stop", "pb">>, {"pb"}>>}}
  \cup {[words |-> <<"docker", "rm", "-f">>, does |-> Projects(all), then |-> <<"docker", "ps", "-q">>]}

\* The database a call writes: its own stack, the remote one, or none.
SupabaseCommands ==
  LET at(target, d) == IF target = "local" THEN {<<"local", d>>}
                       ELSE IF target = "remote" THEN {<<"remote", d>>} ELSE {}
      byDefault == [v \in {<<"db", "reset">>, <<"migration", "up">>, <<"seed">>} |-> "local"]
                   @@ [v \in {<<"db", "push">>, <<"migration", "repair">>} |-> "remote"]
      named == {<<<<"--local">>, "local">>, <<<<"--linked">>, "remote">>, <<<<"--project-ref", "x">>, "remote">>,
                <<<<"--db-url", "url@localhost">>, "local">>, <<<<"--db-url", "url@host">>, "remote">>,
                <<<<"--linked", "--dry-run">>, "none">>}
      dirs == {<<<<>>, "">>, <<<<"--workdir", "/copy">>, "/copy">>}
  IN {Does(<<"supabase">> \o v \o w[1], at("local", w[2])) :
        v \in {<<"start">>, <<"stop">>, <<"test", "db">>, <<"db", "diff">>}, w \in dirs}
     \cup {Does(<<"supabase">> \o v, {}) : v \in {<<"status">>, <<"gen", "types">>, <<"db", "diff", "--linked">>}}
     \cup {Does(<<"supabase">> \o v \o n[1] \o w[1], at(n[2], w[2])) :
             v \in DOMAIN byDefault, n \in named, w \in dirs}
     \cup {Does(<<"supabase">> \o w[1] \o v, at(byDefault[v], w[2])) : v \in DOMAIN byDefault, w \in dirs}
     \cup {Does(launch \o <<"supabase", "db", "push">>, at("remote", "")) :
             launch \in {<<"npx">>, <<"npx", "-y">>, <<"npx", "-p", "x">>, <<"pnpm", "dlx">>, <<"npm", "exec", "--">>}}
     \cup {Does(<<"npx", "-y", "supabase", "stop">>, at("local", ""))}
StackCommands == DockerCommands \cup SupabaseCommands

GithubCommands ==
  {Does(<<"git">> \o option \o <<"push">> \o to[1], IF to[2] THEN {<<"force", "">>} ELSE {}) :
     option \in {<<>>, <<"-C", "copy">>, <<"-c", "a=push">>},
     to \in {<<<<"origin", "main">>, FALSE>>, <<<<"-u", "origin">>, FALSE>>, <<<<"--follow-tags">>, FALSE>>,
             <<<<"--force", "origin">>, TRUE>>, <<<<"origin", "main", "-f">>, TRUE>>, <<<<"-uf", "origin">>, TRUE>>,
             <<<<"--force-with-lease">>, TRUE>>, <<<<"origin", "+main">>, TRUE>>}}
  \cup {Does(<<"gh">> \o call[1], call[2]) :
          call \in {<<<<"pr", "view", "5">>, {}>>, <<<<"pr", "edit", "5">>, {<<"write", "">>}>>,
                    <<<<"-R", "pr", "pr", "merge", "5">>, {<<"write", "">>, <<"merge", "">>}>>,
                    <<<<"pr", "merge", "-R", "x", "5">>, {<<"write", "">>, <<"merge", "">>}>>,
                    <<<<"api", "pulls/5/merge", "-X", "PUT">>, {<<"write", "">>, <<"merge", "">>}>>,
                    <<<<"api", "pulls">>, {}>>, <<<<"api", "-X", "GET", "pulls">>, {}>>,
                    <<<<"api", "pulls", "-f", "t=x">>, {<<"write", "">>}>>,
                    <<<<"api", "-X", "PATCH", "pulls">>, {<<"write", "">>}>>, <<<<"issue", "list">>, {}>>}}
  \cup {Does(apv \o call[1], IF call[2] THEN {<<"write", "apv">>, <<"merge", "apv">>} ELSE {}) :
          apv \in {<<"apv">>, <<"npx", "apv">>, <<"node", "cli.js">>},
          call \in {<<<<"stack", "merge", "5">>, TRUE>>, <<<<"stack", "--json", "merge", "5">>, TRUE>>,
                    <<<<"stack", "batch", "5", "--merge">>, TRUE>>, <<<<"stack", "batch", "5">>, FALSE>>,
                    <<<<"stack", "plan", "5">>, FALSE>>}}
  \cup {Does(<<"vercel">> \o call[1], IF call[2] THEN {<<"deploy", "">>} ELSE {}) :
          call \in {<<<<>>, FALSE>>, <<<<"--prod">>, TRUE>>, <<<<"deploy", "--target", "production">>, TRUE>>,
                    <<<<"--target", "preview">>, FALSE>>, <<<<"promote", "x">>, TRUE>>}}

Commands == KillCommands \cup Searches \cup InstallCommands \cup Cds \cup StackCommands \cup GithubCommands
Before == {<<"A=1">>, <<"sudo", "-u", "me">>, <<"env", "A=1", "nohup">>, <<"timeout", "-s", "9", "5">>, <<"xargs", "-n", "1", "--">>}
Permissions == {<<"APV_ALLOW_MERGE=1">>, <<"env", "APV_ALLOW_DEPLOY=1">>, <<"SUPABASE_PROJECT_ID=pb">>}
Wrapping ==
  {[words |-> w, takes |-> {t}] :
     <<w, t>> \in {<<<<"flock", "/locks/a">>, <<"file", "/locks/a">>>>,
                   <<<<"flock", "-w", "10", "/locks/a">>, <<"file", "/locks/a">>>>,
                   <<<<"apv", "lock", "run", "rb", "--">>, <<"resource", "rb">>>>,
                   <<<<"node", "cli.js", "lock", "run", "rb", "--ttl", "5", "--">>, <<"resource", "rb">>>>,
                   <<<<"STACK=a", "lock.sh">>, <<"stack", "a">>>>, <<<<"STACK=b", "lock.sh">>, <<"stack", "b">>>>}}
-----------------------------------------------------------------------------
(***************************************************************************)
(* Commands as they are written, and as the hook reads them.               *)
(***************************************************************************)
NoLock == [words |-> <<>>, takes |-> {}]
Item(c, nested) ==
  [pre |-> <<>>, lock |-> NoLock, words |-> c.words, does |-> c.does, then |-> c.then,
   hidden |-> FALSE, script |-> nested]
Shell(words, nested) == Item(Does(words, {}), nested)

RECURSIVE Segments(_), Depth(_)
Segments(items) ==
  FlattenSeq([k \in DOMAIN items |->
    LET i == items[k]
    IN <<[words |-> i.pre \o i.lock.words \o i.words, hidden |-> i.hidden, script |-> Segments(i.script)]>>
       \o (IF i.then = <<>> THEN <<>> ELSE <<[words |-> i.then, hidden |-> FALSE, script |-> <<>>]>>)])
Depth(items) == IF items = <<>> THEN 0 ELSE Max({Depth(items[k].script) : k \in DOMAIN items}) + 1

Init == script = <<>> /\ here = <<>> /\ around = {} /\ decision = "none"

Edit(new) == script' = new /\ decision = "none" /\ UNCHANGED <<here, around, decision>>
Only == script[1]
\* Bound: scripts in scripts are of these programs.
Deep == {"docker", "vercel"}
RECURSIVE Leaf(_)
Leaf(items) == IF items[1].script = <<>> THEN items[1].words[1] ELSE Leaf(items[1].script)
\* Bound: one lock in a command.
RECURSIVE Locked(_)
Locked(items) == \E k \in DOMAIN items : items[k].lock # NoLock \/ Locked(items[k].script)
Write == script = <<>> /\ \E c \in Commands : Edit(<<Item(c, <<>>)>>)
\* A second command: after a directory change, or with a search of processes.
Kind(tools) == Only.script = <<>> /\ Only.words[1] \in tools
WriteMore ==
  /\ Len(script) = 1 /\ Only.pre = <<>> /\ Only.lock = NoLock /\ Only.script = <<>>
  /\ \E c \in IF Kind({"cd", "pushd"}) THEN Cds \cup InstallCommands \cup SupabaseCommands
              ELSE IF Kind({"pgrep", "ps"}) THEN Searches \cup KillCommands
              ELSE IF Kind({"kill", "pkill"}) THEN Searches ELSE {} :
       Edit(Append(script, Item(c, <<>>)))
\* Bound: one prefix in a command.
RECURSIVE Prefixed(_)
Prefixed(items) == \E k \in DOMAIN items : items[k].pre # <<>> \/ Prefixed(items[k].script)
\* In front of a command, of its lock wrapper or of the shell that runs it.
Prefix ==
  /\ Len(script) = 1 /\ ~Prefixed(script) /\ ~Only.hidden
  /\ \A e \in Only.does : e[1] # "cd"
  /\ Depth(script) = 1 \/ (Depth(script) = 2 /\ Leaf(script) \in {"supabase", "gh", "vercel"})
  /\ \E p \in Before \cup (IF Leaf(script) \in {"gh", "apv", "node", "npx", "vercel", "supabase"} THEN Permissions ELSE {}) :
       Edit(<<[Only EXCEPT !.pre = p]>>)
Lock ==
  /\ Len(script) = 1 /\ Only.pre = <<>> /\ ~Locked(script)
  /\ \/ Depth(script) = 1
     \/ Depth(script) = 2 /\ Len(Only.script) = 1 /\ Leaf(script) \in OfStacks \cup {"gh", "git", "vercel"}
  /\ \A e \in Only.does : e[1] # "cd"
  /\ \E l \in Wrapping :
       /\ Leaf(script) \in OfStacks \/ l.words \in {<<"flock", "/locks/a">>, <<"STACK=a", "lock.sh">>}
       /\ Edit(<<[Only EXCEPT !.lock = l]>>)
Hide ==
  /\ Len(script) = 1 /\ ~Only.hidden /\ Only.lock = NoLock /\ Only.pre = <<>>
  /\ Depth(script) <= 2 /\ Leaf(script) \in {"git", "gh", "apv"}
  /\ Edit(<<[Only EXCEPT !.hidden = TRUE]>>)
\* The command as the script of a shell, alone or after a change of directory.
Nest ==
  /\ script # <<>> /\ script[1].pre \notin Before
  /\ Depth(script) <= (IF Leaf(script) \in Deep THEN MaxNested ELSE 1)
  /\ \E w \in {<<"sh", "-c", SCRIPT>>, <<"bash", "-lc", SCRIPT>>} :
       /\ w[1] = "sh" \/ Leaf(script) \in Deep
       /\ Edit(<<Shell(w, script)>>)
NestUnderFlock ==
  /\ Len(script) = 1 /\ Depth(script) = 1 /\ ~Locked(script)
  /\ Edit(<<[Shell(<<"-c", SCRIPT>>, script) EXCEPT !.lock = [words |-> <<"flock", "/locks/a">>, takes |-> {<<"file", "/locks/a">>}]]>>)

\* Bound: the directory and the locks are chosen for the commands they matter to.
RECURSIVE Touches(_, _)
Touches(items, verbs) ==
  \E k \in DOMAIN items : Touches(items[k].script, verbs) \/ \E e \in items[k].does : e[1] \in verbs
Context == [cwd |-> here', ancestors |-> Ancestors, around |-> around']
\* The hook, where the session is; an ancestor may hold a lock.
PreToolUse ==
  /\ script # <<>> /\ decision = "none" /\ UNCHANGED script
  /\ here' \in IF Touches(script, {"install", "cd", "local"}) THEN Places ELSE {<<"main">>}
  /\ around' \in IF Touches(script, {"docker", "local"}) /\ ~Locked(script) THEN AroundSets ELSE {{}}
  /\ decision' = Evaluate(Segments(script), Context, 0, {})

Next == Write \/ WriteMore \/ Prefix \/ Lock \/ Hide \/ Nest \/ NestUnderFlock \/ PreToolUse
Spec == Init /\ [][Next]_vars
-----------------------------------------------------------------------------
(***************************************************************************)
(* What the shell does: effects, each with its directory, the locks held,  *)
(* the variables set before the command, and whether its output is hidden. *)
(* `apart`: what the rules do not look at.                                 *)
(***************************************************************************)
\* The lock command of a stack, where the hook does not read the stacks.
LockUnread(i) == "lock.sh" \in ToSet(i.lock.words) /\ ~NamesStacks(Segments(<<i>>))
RECURSIVE Run(_, _, _, _, _, _)
Run(items, dir, held, env, hidden, depth) ==
  IF items = <<>> THEN {}
  ELSE LET i == items[1]
           locks == held \cup i.lock.takes
           set == ToSet(i.pre) \cap Assignments
           moves == {e[2] : e \in {d \in i.does : d[1] = "cd"}}
           next == IF moves = {} THEN dir
                   ELSE LET d == CHOOSE m \in moves : TRUE
                        IN IF d = "-" THEN Unknown ELSE Resolve(dir, d)
           Apart(verb, what) ==
             \/ depth > MaxNesting                       \* a script that the hook does not read
             \/ verb \in {"kill", "install"} /\ i.lock # NoLock   \* behind flock, apv lock run
             \/ verb = "local" /\ dir # here             \* judged from where the session is
             \/ verb = "install" /\ depth > 0 /\ dir # here
             \/ verb = "write" /\ hidden                 \* hidden by the command around
             \/ what = "apv" /\ (i.lock # NoLock \/ i.pre \in Before)  \* apv refuses it itself
             \/ /\ verb = "local"                        \* set before the wrapper or the shell
                /\ "SUPABASE_PROJECT_ID=pb" \in env \cup (IF i.lock = NoLock THEN {} ELSE set)
       IN {[verb |-> e[1], object |-> e[2], dir |-> dir, held |-> locks, pre |-> set, env |-> env \cup set,
            hidden |-> i.hidden, apart |-> Apart(e[1], e[2])] : e \in i.does}
          \cup Run(i.script, dir, locks, env \cup set, hidden \/ i.hidden,
                   IF LockUnread(i) THEN MaxNesting + 1 ELSE depth + 1)
          \cup Run(Tail(items), next, held, env, hidden, depth)

Unprotected(project, held) ==
  \E s \in Config : /\ s.lockFile # "" \/ s.resource # ""
                    /\ s.project = project
                    /\ {<<"file", s.lockFile>>, <<"resource", s.resource>>, <<"stack", s.id>>}
                         \cap (held \cup around) = {}
At(e) == IF e.object = "" THEN e.dir ELSE Resolve(e.dir, e.object)
ProjectOf(e) ==
  IF "SUPABASE_PROJECT_ID=pb" \in e.env THEN "pb"
  ELSE IF Nearest(At(e), DOMAIN ProjectAt) = Unknown THEN "" ELSE ProjectAt[Nearest(At(e), DOMAIN ProjectAt)]
\* The rule an effect is against, or "none".
Against(e) ==
  CASE e.verb = "kill" /\ e.object = "session" -> "kill"
    [] e.verb = "install" /\ Nearest(At(e), Packages) \in Linked -> "install"
    [] e.verb = "docker" /\ Unprotected(e.object, e.held) -> "stack"
    [] e.verb = "local" /\ Unprotected(ProjectOf(e), e.held) -> "stack"
    [] e.verb \in {"remote", "force"} -> e.verb
    [] e.verb = "merge" /\ "APV_ALLOW_MERGE=1" \notin e.pre -> "merge"
    [] e.verb = "deploy" /\ "APV_ALLOW_DEPLOY=1" \notin e.pre -> "deploy"
    [] e.verb = "write" /\ e.hidden -> "hidden"
    [] OTHER -> "none"
Effects == Run(script, here, {}, {}, FALSE, 0)

\* A kill and what may feed it in one command, even a kill that signals nothing.
RECURSIVE Feeds(_)
Feeds(items) ==
  \/ \E k, j \in DOMAIN items :
       /\ items[k].words # <<>> /\ items[k].words[1] \in {"kill", "pkill"}
       /\ items[j].words \o items[j].then \in {s.words : s \in Searches} \/ "$(ppid)" \in ToSet(items[k].words)
  \/ \E k \in DOMAIN items : Feeds(items[k].script)

(* The hook refuses a command that would reach the session or its parents, *)
(* install through a link, change a declared stack without its lock, write *)
(* to a remote database, rewrite a pushed branch, merge or deploy without  *)
(* the permission, or hide the output of a write to GitHub, whatever the   *)
(* wrappers, options, scripts and directories it is written with; and it   *)
(* refuses by the rule that one of its effects is against, or because a    *)
(* kill may be fed by a search (evaluateCommand).  Except for what is      *)
(* apart: a script nested too deep, or run by the lock command of a stack  *)
(* when the text names neither docker nor supabase (the stacks are not     *)
(* read); a local database of the project that an assignment before the    *)
(* lock wrapper or before the shell selects (the assignment is lost); a    *)
(* kill or an install behind a lock wrapper; a directory changed before a  *)
(* local change, or around the script of an install; an output hidden by   *)
(* the command around; `apv stack merge` behind a wrapper, which asks for  *)
(* the permission itself.                                                  *)
GuardsJudgeRight ==
  /\ decision = "allow" => \A e \in Effects : e.apart \/ Against(e) = "none"
  /\ decision \notin {"none", "allow"} =>
       \/ \E e \in Effects : e.apart \/ Against(e) = decision
       \/ decision = "kill" /\ Feeds(script)
=============================================================================
