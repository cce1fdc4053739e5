----------------------------- MODULE IdleStacks ------------------------------
(***************************************************************************)
(* `apv stacks idle-stop` and `start` (src/stacks/idle.ts), and the gates  *)
(* that use a test stack under its lock and note their use: the record of  *)
(* the stack is read, and written later, by all of them without a lock.    *)
(* Times are in units of the clock; 0 is `null`.                           *)
(***************************************************************************)
EXTENDS Naturals

CONSTANTS
  Watcher, \* processes that run `apv stacks idle-stop`
  Starter, \* those that run `apv stacks start` as well
  User,    \* what uses the stack under its lock
  Nobody,  \* neither
  After,   \* idle delay before a stop
  MaxGap,  \* longest gap between two observations of a series
  MaxTime  \* bound of the clock

IdleStacksAssumption ==
  /\ Nobody \notin Watcher \cup User /\ Watcher \cap User = {} /\ Starter \subseteq Watcher
  /\ After \in Nat \ {0} /\ MaxGap \in Nat \ {0} /\ MaxTime \in Nat

VARIABLES
  now,
  record,  \* the record of the stack
  lock,    \* who holds the lock of the stack (flock or lease) and the queue
  pc,      \* where each watcher and user is
  seen,    \* the record a process read
  since,   \* when the use or the pass of a process began
  noteAgo, \* ghost: time since a use that notes itself, up to After
  longAgo, \* ghost: time since a use was longer than MaxGap, up to After
  stop     \* ghost: of the last stop, who held the lock, and the idle times

vars == <<now, record, lock, pc, seen, since, noteAgo, longAgo, stop>>

Process == Watcher \cup User
NoRecord == [observed |-> 0, used |-> 0, free |-> 0, stopped |-> 0, started |-> 0]

NoStop == [under |-> Nobody, noted |-> After, long |-> After]

Init ==
  /\ now = 1 /\ record = NoRecord /\ lock = Nobody
  /\ pc = [p \in Process |-> "idle"]
  /\ seen = [p \in Process |-> NoRecord]
  /\ since = [p \in Process |-> 0]
  /\ noteAgo = After /\ longAgo = After /\ stop = NoStop

Greater(a, b) == IF a > b THEN a ELSE b
Lesser(a, b) == IF a < b THEN a ELSE b
Goto(p, where) == pc' = [pc EXCEPT ![p] = where]
Reads(p) == seen' = [seen EXCEPT ![p] = record] /\ since' = [since EXCEPT ![p] = now]
Forgets(p) == seen' = [seen EXCEPT ![p] = NoRecord] /\ since' = [since EXCEPT ![p] = 0]

(* What is done without waiting takes less than a unit of time; uses,      *)
(* commands, and what is between two passes, last as long as they like.    *)
Tick ==
  /\ \A p \in Process : pc[p] \in {"idle", "using", "stopping", "starting"}
  /\ now < MaxTime /\ now' = now + 1
  /\ longAgo' = IF lock \in User /\ now' - since[lock] > MaxGap THEN 0 ELSE Lesser(longAgo + 1, After)
  /\ noteAgo' = Lesser(noteAgo + 1, After)
  /\ UNCHANGED <<record, lock, pc, seen, since, stop>>

-----------------------------------------------------------------------------
(* A gate of `apv gates run`, or any command under the lock of the stack.  *)
Use(u) ==
  /\ pc[u] = "idle" /\ lock = Nobody
  /\ lock' = u /\ Goto(u, "using")
  /\ since' = [since EXCEPT ![u] = now]
  /\ UNCHANGED <<now, record, seen, noteAgo, longAgo, stop>>

(* The lock is released; a gate then notes its use.                        *)
EndUse(u) ==
  /\ pc[u] = "using"
  /\ lock' = Nobody
  /\ \/ Goto(u, "mark") /\ noteAgo' = 0
     \/ Goto(u, "idle") /\ UNCHANGED noteAgo
  /\ since' = [since EXCEPT ![u] = 0]
  /\ UNCHANGED <<now, record, seen, longAgo, stop>>

(* markStacksUsed reads the record...                                      *)
MarkReads(u) ==
  /\ pc[u] = "mark"
  /\ Reads(u) /\ Goto(u, "mark write")
  /\ UNCHANGED <<now, record, lock, noteAgo, longAgo, stop>>

(* ... and writes it.                                                      *)
MarkWrites(u) ==
  /\ pc[u] = "mark write"
  /\ record' = [seen[u] EXCEPT !.used = now, !.free = 0]
  /\ Goto(u, "idle") /\ Forgets(u)
  /\ UNCHANGED <<now, lock, noteAgo, longAgo, stop>>

-----------------------------------------------------------------------------
(* A pass of idle-stop: the record is read...                              *)
Pass(w) ==
  /\ pc[w] = "idle"
  /\ Reads(w) /\ Goto(w, "observe")
  /\ UNCHANGED <<now, record, lock, noteAgo, longAgo, stop>>

\* mutated form of Continuous
ContinuousEver(w) == seen[w].observed # 0

Continuous(w) == seen[w].observed # 0 /\ since[w] - seen[w].observed <= MaxGap

FreeSince(w) ==
  IF seen[w].free = 0 \/ ~Continuous(w) THEN since[w]
  ELSE IF seen[w].used > seen[w].free THEN Lesser(seen[w].used, since[w])
  ELSE seen[w].free

(* Not already stopped since its last use or start, and idle long enough.  *)
MayStop(r, idle) ==
  /\ ~(r.stopped # 0 /\ r.stopped >= Greater(r.used, r.started))
  /\ idle >= After

(* ... the locks and ports are probed, the record is written, from what    *)
(* was read; and the decision is taken from what was written.              *)
Observe(w) ==
  /\ pc[w] = "observe"
  /\ LET busy == lock # Nobody
         next == IF busy THEN [seen[w] EXCEPT !.observed = since[w], !.used = since[w], !.free = 0]
                 ELSE [seen[w] EXCEPT !.observed = since[w], !.free = FreeSince(w)]
     IN /\ record' = next
        /\ Goto(w, IF ~busy /\ MayStop(next, since[w] - next.free) THEN "stop" ELSE "idle")
  /\ Forgets(w)
  /\ UNCHANGED <<now, lock, noteAgo, longAgo, stop>>

(* underStackLock, without waiting: in use after all, it is noted so...    *)
InUse(w) ==
  /\ pc[w] \in {"stop", "start"} /\ lock # Nobody
  /\ record' = IF pc[w] = "stop" THEN [record EXCEPT !.used = now, !.free = 0] ELSE record
  /\ Goto(w, "idle")
  /\ UNCHANGED <<now, lock, seen, since, noteAgo, longAgo, stop>>

\* mutated form of Available: the lock is not taken again for the command
AvailableAsObserved == TRUE

Available == lock = Nobody

(* ... or the command runs under the lock.                                 *)
RunCommand(w) ==
  /\ pc[w] \in {"stop", "start"} /\ Available
  /\ lock' = w
  /\ Goto(w, IF pc[w] = "stop" THEN "stopping" ELSE "starting")
  /\ stop' = IF pc[w] = "start" THEN stop
             ELSE [under |-> lock, noted |-> noteAgo, long |-> longAgo]
  /\ UNCHANGED <<now, record, seen, since, noteAgo, longAgo>>

(* The lock is released, the outcome is recorded.                          *)
CommandEnds(w) ==
  /\ pc[w] \in {"stopping", "starting"}
  /\ lock' = Nobody
  /\ \/ Goto(w, IF pc[w] = "stopping" THEN "stopped" ELSE "started")
     \/ Goto(w, "idle")
  /\ UNCHANGED <<now, record, seen, since, noteAgo, longAgo, stop>>

Recorded(w) ==
  /\ \/ pc[w] = "stopped" /\ record' = [record EXCEPT !.stopped = now, !.free = 0]
     \/ pc[w] = "started" /\ record' = [record EXCEPT !.started = now, !.used = now, !.free = 0]
  /\ Goto(w, "idle")
  /\ UNCHANGED <<now, lock, seen, since, noteAgo, longAgo, stop>>

(* `apv stacks start`.                                                     *)
Start(w) ==
  /\ w \in Starter /\ pc[w] = "idle" /\ Goto(w, "start")
  /\ UNCHANGED <<now, record, lock, seen, since, noteAgo, longAgo, stop>>

Next ==
  \/ Tick
  \/ \E u \in User : Use(u) \/ EndUse(u) \/ MarkReads(u) \/ MarkWrites(u)
  \/ \E w \in Watcher : Pass(w) \/ Observe(w) \/ InUse(w) \/ RunCommand(w)
                        \/ CommandEnds(w) \/ Recorded(w) \/ Start(w)

Spec == Init /\ [][Next]_vars
-----------------------------------------------------------------------------
(* `A stack is stopped only on the evidence of a continuous series`:       *)
(* whatever notes are lost or late and whichever watchers overlap, a stop  *)
(* never runs under a user, and never less than the idle delay after a use *)
(* that lasted more than the gap allowed between two observations.         *)
LongUsesRespected == stop.under = Nobody /\ stop.long >= After

(* `A missing note only delays an idle stop`: a stack is never stopped     *)
(* less than the idle delay after a gate that notes its use.               *)
NoteLossOnlyDelays == stop.noted >= After
=============================================================================
