----------------------------- MODULE RunProcess ------------------------------
(***************************************************************************)
(* runProcess of execution/process.ts: one command in a process group of   *)
(* its own, its time limit, its cancellation, SIGTERM then SIGKILL to the  *)
(* group, and the close event that waits for every pipe, although a        *)
(* descendant that left the group may hold one for ever.                   *)
(***************************************************************************)
VARIABLES
  waitReady, \* the time limit starts at the first byte on descriptor 3
  leader,   \* the command: not started, running, or how it exited
  group,    \* ordinary background children are alive in its group
  daemon,   \* a descendant that left the group is alive
  deaf,     \* the group ignores SIGTERM
  pipes,    \* the controller still reads the pipes
  fired,    \* the AbortSignal has fired
  status,   \* what stopped it, `none` until something does
  hook,     \* the onStart hook threw
  timers,   \* timers that count: limit, hardKill, pipeGrace
  exitSeen, \* the exit event was handled
  result    \* what the promise resolved to

vars == <<waitReady, leader, group, daemon, deaf, pipes, fired, status, hook, timers, exitSeen, result>>

Init ==
  /\ waitReady \in BOOLEAN
  /\ leader = "off" /\ group = FALSE /\ daemon = FALSE /\ deaf \in BOOLEAN
  /\ pipes = TRUE /\ fired \in BOOLEAN
  /\ status = "none" /\ hook = FALSE /\ timers = {} /\ exitSeen = FALSE
  /\ result = "pending"

(* A signal to the group: what it does to the leader and to the others.    *)
Sigterm ==
  /\ leader' = IF leader = "running" /\ ~deaf THEN "signalled" ELSE leader
  /\ group' = (group /\ deaf)

\* mutated form of Sigkill: child.kill() instead of kill(-pid)
SigkillLeader ==
  /\ leader' = IF leader = "running" THEN "signalled" ELSE leader
  /\ group' = group

Sigkill ==
  /\ leader' = IF leader = "running" THEN "signalled" ELSE leader
  /\ group' = FALSE

(* stop(reason): the first reason stays.                                   *)
Stop(reason) ==
  \/ status # "none" /\ UNCHANGED <<status, leader, group, timers>>
  \/ /\ status = "none" /\ status' = reason
     /\ Sigterm
     /\ timers' = timers \cup {"hardKill"}

(* Cancelled before it starts, nothing is started.  The error event, or    *)
(* the spawn event with the hook of the caller, which may throw, or abort, *)
(* comes before any other event.                                           *)
Start ==
  /\ leader = "off" /\ result = "pending"
  /\ \/ fired /\ result' = "cancelled" /\ UNCHANGED <<leader, status, hook, fired, timers>>
     \/ /\ ~fired /\ leader' = "absent" /\ status' = "spawn_error"
        /\ UNCHANGED <<hook, fired, timers, result>>
     \/ /\ ~fired /\ fired' \in BOOLEAN /\ hook' \in BOOLEAN
        /\ leader' = IF hook' THEN "signalled"
                     ELSE IF fired' /\ ~deaf THEN "signalled" ELSE "running"
        /\ status' = IF fired' THEN "cancelled" ELSE "none"
        /\ timers' = (IF waitReady THEN {} ELSE {"limit"}) \cup (IF fired' THEN {"hardKill"} ELSE {})
        /\ UNCHANGED result
  /\ UNCHANGED <<group, daemon, deaf, pipes, exitSeen>>

Ready ==
  /\ waitReady /\ leader = "running" /\ "limit" \notin timers
  /\ timers' = timers \cup {"limit"}
  /\ UNCHANGED <<leader, group, daemon, deaf, pipes, fired, status, hook, exitSeen, result>>

Abort ==
  /\ ~fired /\ leader # "off" /\ result = "pending"
  /\ fired' = TRUE
  /\ Stop("cancelled")
  /\ UNCHANGED <<daemon, deaf, pipes, hook, exitSeen, result>>

Limit ==
  /\ "limit" \in timers /\ result = "pending"
  /\ Stop("timed_out")
  /\ UNCHANGED <<daemon, deaf, pipes, fired, hook, exitSeen, result>>

HardKill ==
  /\ "hardKill" \in timers /\ result = "pending"
  /\ Sigkill /\ timers' = timers \ {"hardKill"}
  /\ UNCHANGED <<daemon, deaf, pipes, fired, status, hook, exitSeen, result>>

(* What the command may do: start children, one of which leaves the group, *)
(* and exit, or not.                                                       *)
Fork ==
  /\ leader = "running" /\ ~group /\ ~daemon
  /\ group' = TRUE /\ daemon' \in BOOLEAN
  /\ UNCHANGED <<leader, deaf, pipes, fired, status, hook, timers, exitSeen, result>>

Exit ==
  /\ leader = "running" /\ leader' \in {"zero", "nonzero"}
  /\ UNCHANGED <<group, daemon, deaf, pipes, fired, status, hook, timers, exitSeen, result>>

Exited == leader \in {"zero", "nonzero", "signalled"}

(* The exit event: what is left of the group dies, the pipes have a grace. *)
OnExit ==
  /\ Exited /\ ~exitSeen
  /\ exitSeen' = TRUE
  /\ Sigkill /\ timers' = timers \cup {"pipeGrace"}
  /\ UNCHANGED <<daemon, deaf, pipes, fired, status, hook, result>>

\* mutated form of PipeGrace
PipeGraceWithoutDaemon ==
  /\ "pipeGrace" \in timers /\ pipes /\ ~daemon
  /\ pipes' = FALSE
  /\ UNCHANGED <<leader, group, daemon, deaf, fired, status, hook, timers, exitSeen, result>>

PipeGrace ==
  /\ "pipeGrace" \in timers /\ pipes
  /\ pipes' = FALSE
  /\ UNCHANGED <<leader, group, daemon, deaf, fired, status, hook, timers, exitSeen, result>>

\* mutated form of Verdict
VerdictByCode ==
  IF leader = "zero" THEN "passed" ELSE IF status # "none" THEN status ELSE "failed"

Verdict ==
  IF hook THEN "rejected"
  ELSE IF status # "none" THEN status
  ELSE IF leader = "zero" THEN "passed" ELSE "failed"

(* The close event: every pipe is closed, by its holders or by us; the     *)
(* onFinish hook may throw.                                                *)
Close ==
  /\ result = "pending"
  /\ \/ leader = "absent"
     \/ exitSeen /\ (~pipes \/ (~group /\ ~daemon))
  /\ \/ result' = Verdict
     \/ leader # "absent" /\ result' = "rejected"
  /\ timers' = {}
  /\ Sigkill
  /\ UNCHANGED <<daemon, deaf, pipes, fired, status, hook, exitSeen>>

Next ==
  /\ \/ Start \/ Ready \/ Abort \/ Limit \/ HardKill
     \/ Fork \/ Exit \/ OnExit \/ PipeGrace \/ Close
  /\ UNCHANGED waitReady

(* Timers fire and events are delivered; the command may run for ever.     *)
Spec ==
  /\ Init /\ [][Next]_vars
  /\ WF_vars(Start) /\ WF_vars(Limit) /\ WF_vars(HardKill)
  /\ WF_vars(OnExit) /\ WF_vars(PipeGrace) /\ WF_vars(Close)
-----------------------------------------------------------------------------
(* `Ordinary background children cannot outlive the task`; and a task is   *)
(* reported passed only if its command ended by itself with code 0, before *)
(* any cancellation or time limit, and no hook failed.                     *)
TaskEndsClean ==
  /\ result # "pending" => ~group /\ leader # "running"
  /\ result = "passed" => leader = "zero" /\ status = "none" /\ ~hook /\ ~fired

(* A command that is cancelled, that reached its time limit or that exited *)
(* gives a result, even with a daemon that holds its pipes for ever.       *)
MustEnd == status # "none" \/ Exited
Resolved == result # "pending"
TaskEnds == MustEnd ~> Resolved
=============================================================================
