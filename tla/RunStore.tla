------------------------------- MODULE RunStore -------------------------------
(***************************************************************************)
(* Concurrent `apv run start|set|pause|resume|save` and `apv gates run     *)
(* --reason` on one state file: each command takes the lease `run:<id>`    *)
(* (withRunLock), reads the file, applies its change to the copy, renames  *)
(* the new file over the old one and releases the lease; `set delivery     *)
(* running` then commits the file to git, outside of the lease.  The       *)
(* changes are those of RunState.  The lease is what LeaseLock and         *)
(* LockQueue establish: taken atomically when free or stale, for 120 s,    *)
(* never renewed; it may end under its holder at any time, and the write   *)
(* does not ask whether it did.                                            *)
(***************************************************************************)
EXTENDS Naturals, Sequences

CONSTANTS
  Task, Deps, Steps, Review, Commit, NoCommit,   \* as in RunState
  Agent,     \* processes that run a command
  Nobody,    \* the holder of a free lease
  Calls,     \* the calls of `apv run set` that are made: a target and options
  MaxWrites  \* bound of the number of writes

VARIABLES
  file,       \* the state file: present, its content, the writes it went through
              \* (its journal tells two states apart; their number stands for it)
  head,       \* the commits in the ancestry of the integration head
  lease,      \* the agent that holds `run:<id>`, or Nobody
  expired,    \* its 120 s are over
  pc,         \* per agent: idle, holding, read, leaving, delivering,
              \* committing, gone
  copy,       \* the content it read; then, of what it wrote, the number of writes
  committed,  \* the writes in the last commit of the state
  late        \* history: somebody wrote after its lease was taken over

vars == <<file, head, lease, expired, pc, copy, committed, late>>

RS == INSTANCE RunState WITH run <- file.run

ASSUME StoreAssumption ==
  /\ RS!RunAssumption
  /\ Nobody \notin Agent /\ MaxWrites \in Nat
  /\ Calls \subseteq RS!Target \X RS!Options

Blank(n) == [present |-> FALSE, run |-> RS!Fresh, writes |-> n]
Missing == Blank(0)

Init ==
  /\ file = Missing /\ head = {}
  /\ lease = Nobody /\ expired = FALSE
  /\ pc = [p \in Agent |-> "idle"]
  /\ copy = [p \in Agent |-> Missing]
  /\ committed = 0 /\ late = FALSE

Goto(p, where) == pc' = [pc EXCEPT ![p] = where]
Forget(p) == copy' = [copy EXCEPT ![p] = Missing]

(* Taken over when its holder is dead or when it expired.                  *)
Takeable == expired \/ lease \notin {p \in Agent : pc[p] # "gone"}

Acquire(p) ==
  /\ pc[p] = "idle" /\ Takeable
  /\ lease' = p /\ expired' = FALSE
  /\ Goto(p, "holding")
  /\ UNCHANGED <<file, head, copy, committed, late>>

\* mutated form of Read
ReadBeforeTheLease(p) ==
  /\ \/ pc[p] = "holding" /\ Goto(p, "read") /\ UNCHANGED copy
     \/ pc[p] = "idle" /\ copy' = [copy EXCEPT ![p] = file] /\ UNCHANGED pc
  /\ UNCHANGED <<file, head, lease, expired, committed, late>>

(* readRunState                                                            *)
Read(p) ==
  /\ pc[p] = "holding"
  /\ copy' = [copy EXCEPT ![p] = file]
  /\ Goto(p, "read")
  /\ UNCHANGED <<file, head, lease, expired, committed, late>>

(* The contents a command may make of the content `r` it read.             *)
Sets(r, h, calls) ==
  {RS!AfterSet(r, h, x[1], x[2]) : x \in {y \in calls : RS!Accepts(r, h, y[1], y[2])}}

Changes(r, h) ==
  Sets(r, h, Calls)
  \cup (IF RS!CurrentStep(r) # "none" THEN {[r EXCEPT !.paused = TRUE]} ELSE {})
  \cup (IF r.paused THEN {[r EXCEPT !.paused = FALSE]} ELSE {})
  \cup {r}   \* applyFullSuiteOverride adds an event only

Deliveries(r, h) ==
  Sets(r, h, {x \in Calls : x[1] = "delivery" /\ x[2].to = "running"})

(* writeRunState, whoever holds the lease by then.                         *)
Replace(p, new) ==
  /\ copy[p].writes < MaxWrites
  /\ file' = [present |-> TRUE, run |-> new, writes |-> copy[p].writes + 1]
  /\ copy' = [copy EXCEPT ![p] = Blank(file'.writes)]
  /\ late' = (late \/ lease # p)
  /\ UNCHANGED <<head, lease, expired, committed>>

\* mutated form of Start
StartAnyway(p) ==
  /\ pc[p] = "read"
  /\ Replace(p, RS!Fresh)
  /\ Goto(p, "leaving")

(* `start` writes a fresh state if it found none; the others need one.     *)
Start(p) ==
  /\ pc[p] = "read" /\ ~copy[p].present
  /\ Replace(p, RS!Fresh)
  /\ Goto(p, "leaving")

Change(p) ==
  /\ pc[p] = "read" /\ copy[p].present
  /\ \E new \in Changes(copy[p].run, head) : Replace(p, new)
  /\ Goto(p, "leaving")

(* `set delivery running`, without --no-commit-state.                      *)
Deliver(p) ==
  /\ pc[p] = "read" /\ copy[p].present
  /\ \E new \in Deliveries(copy[p].run, head) : Replace(p, new)
  /\ Goto(p, "delivering")

(* A refused transition, an execution that exists, or that does not.       *)
Refuse(p) ==
  /\ pc[p] = "read"
  /\ Forget(p)
  /\ Goto(p, "leaving")
  /\ UNCHANGED <<file, head, lease, expired, committed, late>>

(* The token is checked: a lease that was taken over is left alone.        *)
LetGo(p) ==
  /\ lease' = IF lease = p THEN Nobody ELSE lease
  /\ expired' = IF lease = p THEN FALSE ELSE expired

Release(p) ==
  /\ \/ pc[p] = "leaving" /\ Goto(p, "idle") /\ Forget(p)
     \/ pc[p] = "delivering" /\ Goto(p, "committing") /\ UNCHANGED copy
  /\ LetGo(p)
  /\ UNCHANGED <<file, head, committed, late>>

\* mutated form of CommitState
CommitStateAsWritten(p) ==
  /\ pc[p] = "committing"
  /\ committed' \in {copy[p].writes, committed}
  /\ Goto(p, "idle") /\ Forget(p)
  /\ UNCHANGED <<file, head, lease, expired, late>>

(* commitRunState, of the file as it is by then, unless git refuses.       *)
CommitState(p) ==
  /\ pc[p] = "committing"
  /\ committed' \in {file.writes, committed}
  /\ Goto(p, "idle") /\ Forget(p)
  /\ UNCHANGED <<file, head, lease, expired, late>>

(* `apv run save`: the same commit, at any time and without the lease.     *)
Save(p) ==
  /\ pc[p] = "idle" /\ file.present
  /\ committed' = file.writes
  /\ UNCHANGED <<file, head, lease, expired, pc, copy, late>>

(* kill -9; a half-written temporary file is never renamed.                *)
Crash(p) ==
  /\ pc[p] \notin {"idle", "gone"}
  /\ Goto(p, "gone") /\ Forget(p)
  /\ UNCHANGED <<file, head, lease, expired, committed, late>>

(* The 120 s end under a slow or suspended holder.                         *)
Expire ==
  /\ lease # Nobody /\ ~expired /\ pc[lease] # "gone"
  /\ expired' = TRUE
  /\ UNCHANGED <<file, head, lease, pc, copy, committed, late>>

Integrate(c) ==
  /\ head' = head \cup {c}
  /\ UNCHANGED <<file, lease, expired, pc, copy, committed, late>>

Next ==
  \/ \E p \in Agent :
       \/ Acquire(p) \/ Read(p) \/ Start(p) \/ Change(p) \/ Deliver(p)
       \/ Refuse(p) \/ Release(p) \/ CommitState(p) \/ Save(p) \/ Crash(p)
  \/ Expire
  \/ \E c \in Commit : Integrate(c)

Spec == Init /\ [][Next]_vars
-----------------------------------------------------------------------------
(* The values every variable may take.                                     *)
Content == [present : BOOLEAN, run : RS!RunType, writes : 0..MaxWrites]

TypeOK ==
  /\ file \in Content /\ copy \in [Agent -> Content]
  /\ head \subseteq Commit
  /\ lease \in Agent \cup {Nobody} /\ expired \in BOOLEAN
  /\ pc \in [Agent -> {"idle", "holding", "read", "leaving", "delivering",
                   "committing", "gone"}]
  /\ committed \in 0..MaxWrites /\ late \in BOOLEAN

(* Whoever writes had read the very file it replaces, journal included, as *)
(* long as every write came before its lease was taken over.               *)
NoLostUpdate ==
  [][\A p \in Agent :
       pc[p] = "read" /\ file' # file /\ pc'[p] # "read" => copy[p] = file \/ late']_vars

(* What the delivery commits holds the transition it follows, whatever     *)
(* other commands wrote between the release and the commit; and a commit   *)
(* never goes back.  The same exception.                                   *)
CommitsMoveForward ==
  [][/\ committed' >= committed \/ late
     /\ \A p \in Agent : pc[p] = "committing" /\ committed' # committed /\ pc'[p] = "idle"
          => committed' >= copy[p].writes \/ late]_vars

(* Concurrent commands amount to one command after the other, up to the    *)
(* first write that comes after its lease was taken over.                  *)
ImplementsRunState == RS!Init /\ [][~late' /\ RS!vars' # RS!vars => RS!Next]_RS!vars

(* `deux agents ne perdent jamais la mise a jour de l'autre`, docs/CLI.md: *)
(* no write takes away one that came after its reading.                    *)
NeverLosesAnUpdate ==
  [][\A p \in Agent : pc[p] = "read" /\ file' # file /\ pc'[p] # "read" => copy[p] = file]_vars
=============================================================================
