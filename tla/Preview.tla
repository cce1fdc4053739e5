------------------------------- MODULE Preview -------------------------------
(***************************************************************************)
(* `apv preview update` and `apv preview stop` (src/preview/): one port,   *)
(* one lease lock for all the worktrees of a project, one record and one   *)
(* copy per worktree, and the detached servers the calls start.  Everyone  *)
(* else on the machine may take the port.                                  *)
(***************************************************************************)
EXTENDS Naturals, FiniteSets

CONSTANTS
  Call,      \* calls of the command
  Updates,   \* those that are `update`; the others are `stop`
  Repo,      \* the worktree of each
  Commit,    \* commits a branch may point to
  Nobody,    \* no call, no process
  Foreign,   \* a process of somebody else
  MaxMishaps \* bound of the mishaps

PreviewAssumption ==
  /\ Updates \subseteq Call /\ Nobody \notin Call /\ Foreign \notin Call
  /\ Nobody # Foreign /\ MaxMishaps \in Nat

VARIABLES
  lock,    \* lease `preview:<project>`
  record,  \* .apv/state/preview.json of each worktree
  copy,    \* commit in the preview directory of each worktree
  server,  \* process group each update started (named after its call)
  port,    \* who listens
  pc,      \* where each call is
  seen,    \* the record it read when it began
  target,  \* the commit it shows
  shown,   \* ghost: last commit of each worktree that was reported ready
  ready,   \* ghost: who answered the health check of each call
  mishaps,
  lapsed   \* ghost: the lease of a call ran out once

vars == <<lock, record, copy, server, port, pc, seen, target, shown, ready, mishaps, lapsed>>

Worktree == {Repo[c] : c \in Call}
NoRecord == [server |-> Nobody, commit |-> Nobody]

Init ==
  /\ lock = [holder |-> Nobody, live |-> FALSE]
  /\ record = [w \in Worktree |-> NoRecord]
  /\ copy = [w \in Worktree |-> Nobody]
  /\ server = [c \in Call |-> "none"]
  /\ port = Nobody
  /\ pc = [c \in Call |-> "off"]
  /\ seen = [c \in Call |-> NoRecord]
  /\ target = [c \in Call |-> Nobody]
  /\ shown = [w \in Worktree |-> Nobody]
  /\ ready = [c \in Call |-> Nobody]
  /\ mishaps = 0 /\ lapsed = FALSE

Alive(s) == s \in Call /\ server[s] \in {"booting", "up"}

(* ourServer: the recorded pid, with its start time, leads a live group.   *)
OurServer(r) == Alive(r.server)

Stopped(r) == [r EXCEPT !.server = Nobody]
Writes(c, r) == record' = [record EXCEPT ![Repo[c]] = r]
Goto(c, where) == pc' = [pc EXCEPT ![c] = where]

(* The group of s is gone, and its port with it.                           *)
Ends(s) ==
  /\ server' = [server EXCEPT ![s] = "gone"]
  /\ port' = IF port = s THEN Nobody ELSE port

(* fail(): on the record as it is now; a server that still runs stays in it.*)
Fail(c) ==
  /\ Goto(c, "end")
  /\ LET now == record[Repo[c]] IN Writes(c, IF OurServer(now) THEN now ELSE Stopped(now))

-----------------------------------------------------------------------------
(* withPreviewLock.                                                        *)
Held == lock.holder # Nobody /\ lock.live /\ pc[lock.holder] # "dead"

\* mutated form of Begin: `stop` does not take the lock
BeginUpdatesHold(c) ==
  /\ pc[c] = "off"
  /\ \/ ~Held /\ lock' = [holder |-> c, live |-> TRUE] /\ Goto(c, "begin")
     \/ Held /\ Goto(c, IF c \in Updates THEN "over" ELSE "begin") /\ UNCHANGED lock
  /\ UNCHANGED <<record, copy, server, port, seen, target, shown, ready, mishaps, lapsed>>

Begin(c) ==
  /\ pc[c] = "off"
  /\ \/ ~Held /\ lock' = [holder |-> c, live |-> TRUE] /\ Goto(c, "begin")
     \/ Held /\ Goto(c, "over") /\ UNCHANGED lock
  /\ UNCHANGED <<record, copy, server, port, seen, target, shown, ready, mishaps, lapsed>>

(* The heartbeat, whose failures are ignored.                              *)
Renew(c) ==
  /\ lock.holder = c /\ ~lock.live /\ pc[c] # "dead"
  /\ lock' = [lock EXCEPT !.live = TRUE]
  /\ UNCHANGED <<record, copy, server, port, pc, seen, target, shown, ready, mishaps, lapsed>>

Release(c) ==
  /\ pc[c] = "end"
  /\ lock' = IF lock.holder = c THEN [holder |-> Nobody, live |-> FALSE] ELSE lock
  /\ Goto(c, "over")
  /\ UNCHANGED <<record, copy, server, port, seen, target, shown, ready, mishaps, lapsed>>

(* update: unknown branch, directory that is not apv's: refused before     *)
(* anything is stopped.                                                    *)
Update(c) ==
  /\ pc[c] = "begin" /\ c \in Updates
  /\ seen' = [seen EXCEPT ![c] = record[Repo[c]]]
  /\ \/ Fail(c) /\ UNCHANGED target
     \/ /\ \E k \in Commit : target' = [target EXCEPT ![c] = k]
        /\ Goto(c, IF OurServer(record[Repo[c]]) THEN "stopping" ELSE "port")
        /\ UNCHANGED record
  /\ UNCHANGED <<lock, copy, server, port, shown, ready, mishaps, lapsed>>

(* stop: nothing recorded, or a server that is gone.                       *)
Stop(c) ==
  /\ pc[c] = "begin" /\ c \notin Updates
  /\ seen' = [seen EXCEPT ![c] = record[Repo[c]]]
  /\ IF OurServer(record[Repo[c]])
     THEN Goto(c, "stopping") /\ UNCHANGED record
     ELSE Goto(c, "end") /\ Writes(c, Stopped(record[Repo[c]]))
  /\ UNCHANGED <<lock, copy, server, port, target, shown, ready, mishaps, lapsed>>

(* The end of stopGroup: the server is gone, and the record that was read  *)
(* before the wait is written, without it.                                 *)
StopEnds(c) ==
  /\ pc[c] = "stopping"
  /\ Ends(seen[c].server)
  /\ Writes(c, Stopped(seen[c]))
  /\ Goto(c, IF c \in Updates THEN "port" ELSE "end")
  /\ UNCHANGED <<lock, copy, seen, target, shown, ready, mishaps, lapsed>>

(* The group survives SIGKILL: refused, or PREVIEW_STOP.                   *)
StopFails(c) ==
  /\ pc[c] = "stopping" /\ mishaps < MaxMishaps
  /\ mishaps' = mishaps + 1
  /\ IF c \in Updates THEN Fail(c) ELSE Goto(c, "end") /\ UNCHANGED record
  /\ UNCHANGED <<lock, copy, server, port, seen, target, shown, ready, lapsed>>

CheckPort(c) ==
  /\ pc[c] = "port"
  /\ \/ port = Nobody /\ Goto(c, "copy") /\ UNCHANGED record
     \/ port # Nobody /\ Fail(c)
  /\ UNCHANGED <<lock, copy, server, port, seen, target, shown, ready, mishaps, lapsed>>

(* freshDir and archive; on failure the directory holds a part of it.      *)
Copy(c) ==
  /\ pc[c] = "copy"
  /\ \/ /\ copy' = [copy EXCEPT ![Repo[c]] = target[c]]
        /\ Goto(c, "build") /\ UNCHANGED record
     \/ copy' = [copy EXCEPT ![Repo[c]] = Nobody] /\ Fail(c)
  /\ UNCHANGED <<lock, server, port, seen, target, shown, ready, mishaps, lapsed>>

(* install, migrate, build, seed, then startDetached; the record comes     *)
(* after.                                                                  *)
Build(c) ==
  /\ pc[c] = "build"
  /\ \/ server' = [server EXCEPT ![c] = "booting"] /\ Goto(c, "record") /\ UNCHANGED record
     \/ Fail(c) /\ UNCHANGED server
  /\ UNCHANGED <<lock, copy, port, seen, target, shown, ready, mishaps, lapsed>>

Started(c) == [server |-> c, commit |-> target[c]]

Record(c) ==
  /\ pc[c] = "record"
  /\ Writes(c, Started(c))
  /\ Goto(c, "health")
  /\ UNCHANGED <<lock, copy, server, port, seen, target, shown, ready, mishaps, lapsed>>

(* waitHealthy: the group lives, and something answers on the port.        *)
Healthy(c) ==
  /\ pc[c] = "health" /\ Alive(c) /\ port # Nobody
  /\ Writes(c, Started(c))
  /\ ready' = [ready EXCEPT ![c] = port]
  /\ shown' = [shown EXCEPT ![Repo[c]] = target[c]]
  /\ Goto(c, "end")
  /\ UNCHANGED <<lock, copy, server, port, seen, target, mishaps, lapsed>>

(* Dead, aborted or out of time: the group is stopped...                   *)
Unhealthy(c) ==
  /\ pc[c] = "health"
  /\ Goto(c, "unhealthy")
  /\ UNCHANGED <<lock, record, copy, server, port, seen, target, shown, ready, mishaps, lapsed>>

\* mutated form of Restored
RestoredOwn(c) == Stopped(Started(c))

Restored(c) == Stopped(seen[c])

(* ... whether it could be or not, and the record of before comes back.    *)
Restore(c) ==
  /\ pc[c] = "unhealthy"
  /\ \/ Ends(c) /\ UNCHANGED mishaps
     \/ Alive(c) /\ mishaps < MaxMishaps /\ mishaps' = mishaps + 1 /\ UNCHANGED <<server, port>>
  /\ Writes(c, Restored(c))
  /\ Goto(c, "end")
  /\ UNCHANGED <<lock, copy, seen, target, shown, ready, lapsed>>

-----------------------------------------------------------------------------
(* A server opens its port, or ends because it cannot; it ends by itself.  *)
Server(c) ==
  /\ Alive(c)
  /\ \/ server[c] = "booting" /\ port = Nobody
        /\ port' = c /\ server' = [server EXCEPT ![c] = "up"]
     \/ Ends(c)
  /\ UNCHANGED <<lock, record, copy, pc, seen, target, shown, ready, mishaps, lapsed>>

(* Somebody else listens on the port for a while: a mishap when an update  *)
(* had already found it free.                                              *)
Building(c) == pc[c] \in {"copy", "build", "record", "health"}

Others ==
  /\ \/ port = Foreign /\ port' = Nobody /\ UNCHANGED mishaps
     \/ /\ port = Nobody /\ port' = Foreign
        /\ IF \E c \in Call : Building(c)
           THEN mishaps < MaxMishaps /\ mishaps' = mishaps + 1
           ELSE UNCHANGED mishaps
  /\ UNCHANGED <<lock, record, copy, server, pc, seen, target, shown, ready, lapsed>>

(* The lease runs out under a suspended call; a call is killed, or takes a *)
(* Ctrl+C: nothing of its finally runs.                                    *)
Mishap ==
  /\ mishaps < MaxMishaps /\ mishaps' = mishaps + 1
  /\ \/ lock.live /\ lock' = [lock EXCEPT !.live = FALSE] /\ lapsed' = TRUE /\ UNCHANGED pc
     \/ /\ \E c \in Call : pc[c] \notin {"off", "over", "dead"} /\ Goto(c, "dead")
        /\ UNCHANGED <<lock, lapsed>>
  /\ UNCHANGED <<record, copy, server, port, seen, target, shown, ready>>

Next ==
  \/ Others \/ Mishap
  \/ \E c \in Call :
       \/ Begin(c) \/ Renew(c) \/ Release(c) \/ Update(c) \/ Stop(c) \/ StopEnds(c) \/ StopFails(c)
       \/ CheckPort(c) \/ Copy(c) \/ Build(c) \/ Record(c) \/ Healthy(c) \/ Unhealthy(c) \/ Restore(c)
       \/ Server(c)

Spec == Init /\ [][Next]_vars
-----------------------------------------------------------------------------
InHands(s) ==
  \/ pc[s] \in {"record", "health", "unhealthy"}
  \/ \E c \in Call : pc[c] = "stopping" /\ seen[c].server = s

Forgotten == {s \in Call : Alive(s) /\ record[Repo[s]].server # s /\ ~InHands(s)}

(* `A server that never answers is still ours to stop`: a server that runs *)
(* is in the record of its worktree, or in the hands of a call; each one   *)
(* that is in neither has a killed call or a group that survives SIGKILL   *)
(* as its cause.  A lapsed lease lets calls overlap: each one that         *)
(* overlaps another may then lose the server of the other.                 *)
NoServerForgotten == lapsed \/ Cardinality(Forgotten) <= mishaps

(* `branch and commit stay those of the last preview that started (the     *)
(* base of what changed)`: whatever fails, between two calls the record    *)
(* names the last commit that was reported ready; the server it names runs *)
(* from a copy of that commit; and what was reported ready was the server  *)
(* of that call, not somebody else's.                                      *)
RecordIsTruthful ==
  mishaps = 0 =>
    /\ \A w \in Worktree :
         /\ (\A c \in Call : Repo[c] = w => pc[c] \in {"off", "over"}) => record[w].commit = shown[w]
         /\ Alive(record[w].server) => copy[w] = record[w].commit
    /\ \A c \in Call : ready[c] \in {Nobody, c}
=============================================================================
