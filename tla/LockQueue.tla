------------------------------ MODULE LockQueue ------------------------------
(***************************************************************************)
(* LockStore.acquire of src/lock/store.ts: the FIFO queue of tickets in    *)
(* front of tryAcquire, for one resource.  The lock itself is abstracted   *)
(* to what LeaseLock establishes: one record, which may become stale, and  *)
(* a tryAcquire that is atomic.  Time is abstracted to what it decides: a  *)
(* process that stopped polling for waiterStaleMs is `asleep`, a lease     *)
(* that nobody renews may lapse at any moment.                             *)
(***************************************************************************)
EXTENDS Naturals

CONSTANTS
  Proc,     \* processes that call `apv lock`
  Owner,    \* Owner[p]: the (pid, host, label) it puts in its record and ticket
  NoPid,    \* processes whose owner has pid null
  Nobody,   \* the owner of no record
  MaxNaps   \* bound of the number of suspensions

LockQueueAssumption ==
  /\ NoPid \subseteq Proc /\ Nobody \notin Proc
  /\ DOMAIN Owner = Proc /\ MaxNaps \in Nat

VARIABLES
  lock,    \* by: who created the record (Nobody: no lock); stale
  queue,   \* queue[p]: whose tickets are older than that of p; DOMAIN: who has one
  pc,      \* out, waiting, try (its ticket was first), taken, working, gone
  asleep,  \* suspended for longer than waiterStaleMs
  naps     \* number of suspensions so far

vars == <<lock, queue, pc, asleep, naps>>

Free == [by |-> Nobody, stale |-> FALSE]

Init ==
  /\ lock = Free /\ queue = [p \in {} |-> {}]
  /\ pc = [p \in Proc |-> "out"]
  /\ asleep = {} /\ naps = 0

At(p, where) == pc[p] = where /\ p \notin asleep
Goto(p, where) == pc' = [pc EXCEPT ![p] = where]
AtTail(q, p) == [r \in DOMAIN q \cup {p} |-> IF r = p THEN DOMAIN q ELSE q[r]]
Without(q, S) == [r \in DOMAIN q \ S |-> q[r] \ S]

(* The tickets `waiters` removes: of a dead process of this machine, or    *)
(* not refreshed.  A dead process without a pid is only noticed that way.  *)
Lapsed == {p \in Proc : pc[p] = "gone" \/ p \in asleep}

\* mutated form of HolderTickets
NoHolderTickets == {}

(* The tickets it does not list: those of the owner of the lock record,    *)
(* whether or not that record is stale.                                    *)
HolderTickets ==
  {p \in Proc : lock.by # Nobody /\ Owner[p] = Owner[lock.by]}

(* enqueue                                                                 *)
Arrive(p) ==
  /\ At(p, "out")
  /\ queue' = AtTail(queue, p)
  /\ Goto(p, "waiting")
  /\ UNCHANGED <<lock, asleep, naps>>

\* mutated form of RequeueAtTail
RequeueAtHead(p) ==
  IF p \in DOMAIN queue THEN queue
  ELSE [r \in DOMAIN queue \cup {p} |-> IF r = p THEN {} ELSE queue[r] \cup {p}]

(* A ticket that was pruned is taken again, after the others.              *)
RequeueAtTail(p) == IF p \in DOMAIN queue THEN queue ELSE AtTail(queue, p)

(* One turn of the loop: touch the ticket, or take a new one at the tail   *)
(* when it was pruned; list the waiters, which prunes; try when first.     *)
Look(p) ==
  /\ At(p, "waiting")
  /\ queue' = Without(RequeueAtTail(p), Lapsed)
  /\ IF p \notin HolderTickets /\ queue'[p] \subseteq HolderTickets
     THEN Goto(p, "try") ELSE UNCHANGED pc
  /\ UNCHANGED <<lock, asleep, naps>>

\* mutated form of Takeable
TakeableWhenFree == lock.by = Nobody

(* tryAcquire: free, or stale and taken over.                              *)
Takeable == lock.by = Nobody \/ lock.stale

Try(p) ==
  /\ At(p, "try")
  /\ IF Takeable
     THEN lock' = [by |-> p, stale |-> FALSE] /\ Goto(p, "taken")
     ELSE Goto(p, "waiting") /\ UNCHANGED lock
  /\ UNCHANGED <<queue, asleep, naps>>

(* finally { dequeue }: after an acquisition, a timeout or an abort.       *)
Dequeue(p) ==
  /\ At(p, "taken")
  /\ queue' = Without(queue, {p})
  /\ Goto(p, "working")
  /\ UNCHANGED <<lock, asleep, naps>>

Timeout(p) ==
  /\ At(p, "waiting")
  /\ queue' = Without(queue, {p})
  /\ Goto(p, "out")
  /\ UNCHANGED <<lock, asleep, naps>>

(* The command ends: the lock is released if it is still ours.             *)
Release(p) ==
  /\ At(p, "working")
  /\ lock' = IF lock.by = p THEN Free ELSE lock
  /\ Goto(p, "out")
  /\ UNCHANGED <<queue, asleep, naps>>

(* A caller of `apv lock acquire` that ends and never releases.            *)
Forget(p) ==
  /\ At(p, "working") /\ p \in NoPid
  /\ Goto(p, "gone")
  /\ UNCHANGED <<lock, queue, asleep, naps>>

(* The lease of an owner that does not renew it runs out; `apv lock        *)
(* acquire` never renews.                                                  *)
Renewing(p) == p \notin NoPid /\ pc[p] \in {"taken", "working"} /\ p \notin asleep
Expire ==
  /\ lock.by # Nobody /\ ~lock.stale /\ ~Renewing(lock.by)
  /\ lock' = [lock EXCEPT !.stale = TRUE]
  /\ UNCHANGED <<queue, pc, asleep, naps>>

(* kill -9, or the machine suspended: a dead pid makes its lock stale at   *)
(* once, a null pid does not.                                              *)
Crash(p) ==
  /\ pc[p] \notin {"gone", "out"}
  /\ Goto(p, "gone")
  /\ asleep' = asleep \ {p}
  /\ lock' = IF lock.by = p /\ p \notin NoPid THEN [lock EXCEPT !.stale = TRUE] ELSE lock
  /\ UNCHANGED <<queue, naps>>

Suspend(p) ==
  /\ naps < MaxNaps /\ pc[p] \notin {"gone", "out"} /\ p \notin asleep
  /\ asleep' = asleep \cup {p} /\ naps' = naps + 1
  /\ UNCHANGED <<lock, queue, pc>>

Resume(p) ==
  /\ p \in asleep
  /\ asleep' = asleep \ {p}
  /\ UNCHANGED <<lock, queue, pc, naps>>

Next ==
  \/ Expire
  \/ \E p \in Proc :
       \/ Arrive(p) \/ Look(p) \/ Try(p) \/ Dequeue(p) \/ Timeout(p)
       \/ Release(p) \/ Forget(p) \/ Crash(p) \/ Suspend(p) \/ Resume(p)

(* A waiter polls as long as it lives; suspended machines wake up; a lease *)
(* that is not renewed ends; and commands end (that last one is the        *)
(* caller's: `run` imposes no limit).                                      *)
Fairness ==
  /\ WF_vars(Expire)
  /\ \A p \in Proc :
       /\ WF_vars(Look(p)) /\ WF_vars(Try(p)) /\ WF_vars(Dequeue(p))
       /\ WF_vars(Release(p) \/ Forget(p)) /\ WF_vars(Resume(p))

Spec == Init /\ [][Next]_vars /\ Fairness
-----------------------------------------------------------------------------
(* The values every variable may take; a process has at most one ticket.   *)
TypeOK ==
  /\ lock \in [by : Proc \cup {Nobody}, stale : BOOLEAN]
  /\ DOMAIN queue \subseteq Proc
  /\ \A p \in DOMAIN queue : queue[p] \subseteq DOMAIN queue \ {p}
  /\ pc \in [Proc -> {"out", "waiting", "try", "taken", "working", "gone"}]
  /\ asleep \subseteq Proc /\ naps \in 0..MaxNaps

Ahead(q, p) == p \in DOMAIN queue /\ q \in queue[p]

(* `Seul le premier ticket vivant tente de prendre le verrou`: whoever     *)
(* takes the lock overtakes nobody who is waiting, alive and polling (the   *)
(* ticket of a holder that has not dequeued itself yet may be ahead).      *)
InTurn ==
  \A p, q \in Proc :
    pc[p] = "try" /\ pc'[p] = "taken" /\ Ahead(q, p)
      => q \in Lapsed \/ pc[q] = "taken"
NoOvertaking == [][InTurn]_vars

(* Nobody waits for ever: a waiter that stays alive gets the lock, unless  *)
(* it gives up.  Crashed and forgotten locks are taken over on the way.    *)
Waits(p) == pc[p] = "waiting"
Served(p) == pc[p] \in {"taken", "working", "out", "gone"}
EveryWaiterServed == \A p \in Proc : Waits(p) ~> Served(p)

(* `Un verrou perime est repris par le prochain demandeur`: nobody waits   *)
(* for ever behind a stale lock.                                           *)
StaleLockTakenOver ==
  \A p \in Proc : []<>(~lock.stale \/ pc[p] \notin {"waiting", "try"})
=============================================================================
