----------------------------- MODULE SuiteQueue ------------------------------
(***************************************************************************)
(* The full suites of several calls of `apv gates run` (gates/suite.ts)    *)
(* and the processes of the machine (execution/procs.ts): the lease of the *)
(* queue, the wait for the load, the ports freed from the orphans of the   *)
(* copy, the servers the gates start, the end of the suite, which stops    *)
(* what carries its mark.  Lists of processes are read once; the signals   *)
(* go out later, to pids that another process may have by then.            *)
(***************************************************************************)
EXTENDS Naturals, FiniteSets

CONSTANTS
  Run,         \* calls of `apv gates run` that are full suites
  Copy,        \* the worktree of each
  Main,        \* the main checkout
  Pid,         \* pids of the machine
  Bystanders,  \* processes there from the start
  Nobody,      \* no run
  MaxMishaps,  \* bound of the leases lapsed and calls killed
  MaxProcesses \* bound of the processes ever started

(* What /proc says of a process: when it started, where it runs, whether   *)
(* it listens on a port of the suite, the mark in its environment, whether *)
(* it is the session or a tool of it; and how it takes a SIGTERM.          *)
Fields == {"start", "cwd", "port", "mark", "shielded", "deaf"}

SuiteQueueAssumption ==
  /\ Nobody \notin Run /\ IsFiniteSet(Pid) /\ IsFiniteSet(Bystanders)
  /\ MaxMishaps \in Nat /\ MaxProcesses \in Nat
  /\ Cardinality(Bystanders) <= Cardinality(Pid)
  /\ \A b \in Bystanders :
       DOMAIN b = Fields /\ b.start \in 1..Cardinality(Bystanders)

VARIABLES
  proc,    \* process of each pid; start 0 is none
  queue,   \* the lease of the queue: its holder, and whether it runs
  pc,      \* where each run is
  targets, \* the processes a run listed and is stopping
  hit,     \* ghost: what was signalled, by whom, in which state was its suite
  started, \* number of processes started
  mishaps

vars == <<proc, queue, pc, targets, hit, started, mishaps>>

(* No process, and a server a gate of r starts.                            *)
Gone == [start |-> 0, cwd |-> Main, port |-> FALSE, mark |-> Nobody, shielded |-> FALSE, deaf |-> FALSE]
Server(r, deaf) == [start |-> started + 1, cwd |-> Copy[r], port |-> TRUE, mark |-> r,
                    shielded |-> FALSE, deaf |-> deaf]

Init ==
  /\ \E place \in [Bystanders -> Pid] :
       /\ \A b, c \in Bystanders : place[b] = place[c] => b = c
       /\ proc = [i \in Pid |-> IF \E b \in Bystanders : place[b] = i
                                THEN CHOOSE b \in Bystanders : place[b] = i ELSE Gone]
  /\ queue = [holder |-> Nobody, live |-> FALSE]
  /\ pc = [r \in Run |-> "off"]
  /\ targets = [r \in Run |-> {}]
  /\ hit = {}
  /\ started = Cardinality(Bystanders)
  /\ mishaps = 0

Alive(i) == proc[i].start # 0

(* sameProcessAlive, on a pair of a pid and the start time that was listed.*)
Same(t) == Alive(t[1]) /\ proc[t[1]].start = t[2]

\* mutated form of Signalled
SignalledByPid(r) == {t \in targets[r] : Alive(t[1])}

(* stopProcesses: a signal goes only to the process that was listed.       *)
Signalled(r) == {t \in targets[r] : Same(t)}

Goto(r, where) == pc' = [pc EXCEPT ![r] = where]
List(r, pids) == targets' = [targets EXCEPT ![r] = {<<i, proc[i].start>> : i \in pids}]

-----------------------------------------------------------------------------
(* holdLease: the queue is taken when its lease is free or stale.          *)
Held == queue.holder # Nobody /\ queue.live /\ pc[queue.holder] # "dead"

Ask(r) ==
  /\ pc[r] = "off" /\ Goto(r, "queued")
  /\ UNCHANGED <<proc, queue, targets, hit, started, mishaps>>

\* mutated form of EnterQueue
EnterQueueUnderLoad(r) ==
  /\ pc[r] = "queued"
  /\ Goto(r, "load")
  /\ queue' = IF Held THEN queue ELSE [holder |-> r, live |-> TRUE]
  /\ UNCHANGED <<proc, targets, hit, started, mishaps>>

EnterQueue(r) ==
  /\ pc[r] = "queued" /\ ~Held
  /\ queue' = [holder |-> r, live |-> TRUE]
  /\ Goto(r, "load")
  /\ UNCHANGED <<proc, targets, hit, started, mishaps>>

(* waitMs elapsed (SUITE_QUEUE), or the call was cancelled: nothing ran.   *)
Refused(r) ==
  /\ pc[r] = "queued"
  /\ Goto(r, "over")
  /\ UNCHANGED <<proc, queue, targets, hit, started, mishaps>>

\* mutated form of Loaded: a suite waits for the load as a measure does
LoadedForEver(r) == pc[r] = "load" /\ FALSE

(* waitForLoad ends, under the threshold or at its limit: the suite starts.*)
Loaded(r) == pc[r] = "load"

(* stopRefusal with the copy: what may be stopped on the ports of a suite. *)
Orphans(r) ==
  {i \in Pid : Alive(i) /\ proc[i].port /\ ~proc[i].shielded
               /\ proc[i].cwd # Main /\ proc[i].cwd = Copy[r]}

(* The declared ports are freed before the first gate...                   *)
ListPorts(r) ==
  /\ Loaded(r)
  /\ List(r, Orphans(r))
  /\ Goto(r, "ports term")
  /\ UNCHANGED <<proc, queue, hit, started, mishaps>>

(* ... or the wait is cancelled and the lease given back.                  *)
Cancelled(r) ==
  /\ pc[r] = "load"
  /\ Goto(r, "release")
  /\ UNCHANGED <<proc, queue, targets, hit, started, mishaps>>

(* A gate starts a server in its copy, in the environment of the suite; it *)
(* leaves the process group of its gate.                                   *)
StartServer(r) ==
  /\ pc[r] = "gates" /\ started < MaxProcesses
  /\ \A i \in Pid : ~(Alive(i) /\ proc[i].port)
  /\ \E i \in Pid, deaf \in BOOLEAN : ~Alive(i) /\ proc' = [proc EXCEPT ![i] = Server(r, deaf)]
  /\ started' = started + 1
  /\ UNCHANGED <<queue, pc, targets, hit, mishaps>>

Marked(r) == {i \in Pid : Alive(i) /\ proc[i].mark = r /\ ~proc[i].shielded}

(* endSuite, whatever the outcome, an interruption included.               *)
EndGates(r) ==
  /\ pc[r] = "gates"
  /\ List(r, Marked(r))
  /\ Goto(r, "marked term")
  /\ UNCHANGED <<proc, queue, hit, started, mishaps>>

ListPortsAgain(r) ==
  /\ pc[r] = "ports again"
  /\ List(r, Orphans(r))
  /\ Goto(r, "end term")
  /\ UNCHANGED <<proc, queue, hit, started, mishaps>>

(* What follows SIGTERM, and what follows SIGKILL.                         *)
AfterTerm(where) ==
  CASE where = "ports term" -> "ports kill" [] where = "marked term" -> "marked kill" [] where = "end term" -> "end kill"
AfterKill(where) ==
  CASE where = "ports kill" -> "gates" [] where = "marked kill" -> "ports again" [] where = "end kill" -> "release"

Hit(r) == hit' = hit \cup {[by |-> r, what |-> proc[t[1]],
                            suite |-> IF proc[t[1]].mark \in Run THEN pc[proc[t[1]].mark] ELSE "none"]
                             : t \in Signalled(r)}
Dies(dead) == proc' = [i \in Pid |-> IF i \in dead THEN Gone ELSE proc[i]]

(* stopProcesses: SIGTERM to all, the grace, SIGKILL to those left.        *)
Term(r) ==
  /\ pc[r] \in {"ports term", "marked term", "end term"}
  /\ Hit(r)
  /\ Dies({t[1] : t \in {u \in Signalled(r) : ~proc[u[1]].deaf}})
  /\ Goto(r, AfterTerm(pc[r]))
  /\ UNCHANGED <<queue, targets, started, mishaps>>

Kill(r) ==
  /\ pc[r] \in {"ports kill", "marked kill", "end kill"}
  /\ Hit(r)
  /\ Dies({t[1] : t \in Signalled(r)})
  /\ targets' = [targets EXCEPT ![r] = {}]
  /\ Goto(r, AfterKill(pc[r]))
  /\ UNCHANGED <<queue, started, mishaps>>

Release(r) ==
  /\ pc[r] = "release"
  /\ queue' = IF queue.holder = r THEN [holder |-> Nobody, live |-> FALSE] ELSE queue
  /\ Goto(r, "over")
  /\ UNCHANGED <<proc, targets, hit, started, mishaps>>

(* The heartbeat of the lease: it starts again if the record is still      *)
(* ours; otherwise a line of log, and the suite goes on.                   *)
Renew(r) ==
  /\ queue.holder = r /\ ~queue.live /\ pc[r] # "dead"
  /\ queue' = [queue EXCEPT !.live = TRUE]
  /\ UNCHANGED <<proc, pc, targets, hit, started, mishaps>>

(* A process ends by itself; another one, of anybody, takes a pid.         *)
Exit(i) ==
  /\ Alive(i) /\ Dies({i})
  /\ UNCHANGED <<queue, pc, targets, hit, started, mishaps>>

Fork(i) ==
  /\ ~Alive(i) /\ started < MaxProcesses
  /\ \E b \in Bystanders : proc' = [proc EXCEPT ![i] = [b EXCEPT !.start = started + 1]]
  /\ started' = started + 1
  /\ UNCHANGED <<queue, pc, targets, hit, mishaps>>

(* The lease runs out under a suspended call; a call is killed.            *)
Mishap ==
  /\ mishaps < MaxMishaps /\ mishaps' = mishaps + 1
  /\ \/ queue.live /\ queue' = [queue EXCEPT !.live = FALSE] /\ UNCHANGED pc
     \/ \E r \in Run : pc[r] \notin {"off", "over", "dead"} /\ Goto(r, "dead") /\ UNCHANGED queue
  /\ UNCHANGED <<proc, targets, hit, started>>

Advance(r) ==
  \/ EnterQueue(r) \/ ListPorts(r) \/ EndGates(r) \/ ListPortsAgain(r)
  \/ Term(r) \/ Kill(r) \/ Release(r) \/ Renew(r)

Next ==
  \/ Mishap
  \/ \E i \in Pid : Exit(i) \/ Fork(i)
  \/ \E r \in Run : Ask(r) \/ Refused(r) \/ Cancelled(r) \/ StartServer(r) \/ Advance(r)

(* The commands of the gates have a time limit, and every wait of a suite  *)
(* has one.                                                                *)
Spec ==
  /\ Init /\ [][Next]_vars
  /\ \A r \in Run : WF_vars(EnterQueue(r) \/ ListPorts(r) \/ EndGates(r) \/ ListPortsAgain(r)
                            \/ Term(r) \/ Kill(r) \/ Release(r))
-----------------------------------------------------------------------------
(* `Ceux d'une autre copie, du checkout principal, hors du depot, les      *)
(* outils proteges et la session ne sont jamais arretes`, `pid reutilise   *)
(* epargne`: what a suite signalled carried its mark, or listened on its   *)
(* ports from its copy, however long before the signal it was listed.      *)
OnlyItsOwnStopped ==
  \A h \in hit : /\ ~h.what.shielded
                 /\ \/ h.what.mark = h.by
                    \/ h.what.port /\ h.what.cwd = Copy[h.by] /\ h.what.cwd # Main

(* The queue protects the servers of a suite from the next one in the same *)
(* copy, which takes what listens there for orphans: one is stopped by     *)
(* another suite while its own goes on only after a lease has lapsed.      *)
LiveSuitesSpared ==
  mishaps = 0 => \A h \in hit : h.what.mark # h.by => h.suite \notin {"gates", "marked term", "marked kill"}

(* A suite that waits, for its turn or for the load, starts or is refused. *)
Queued(r) == pc[r] = "queued"
Ended(r) == pc[r] \in {"over", "dead"}
SuitesGoOn == \A r \in Run : Queued(r) ~> Ended(r)
=============================================================================
