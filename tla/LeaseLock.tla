------------------------------ MODULE LeaseLock ------------------------------
(***************************************************************************)
(* LockStore of src/lock/store.ts for one resource: a lock file created    *)
(* exclusively, carrying a lease; a mutex directory for whoever removes or *)
(* rewrites an existing lock file; processes that crash, stall, lose their *)
(* lease and are taken over.  One action is one system call (or several of *)
(* the same process between which no other process can see a difference).  *)
(*                                                                         *)
(* This module is tryAcquire, renew and release as `run` and `acquire` use *)
(* them; the FIFO queue in front of tryAcquire is LockQueue.               *)
(***************************************************************************)
EXTENDS Naturals, FiniteSets

CONSTANTS
  Proc,        \* client processes
  NoPid,       \* those whose record has pid null (`apv lock acquire` without --pid)
  NoOwner,     \* the owner of no file
  Ttl,         \* lease, in ticks
  Grace,       \* initGraceMs
  MutexStale,  \* MUTEX_STALE_MS
  Stalls,      \* a process may be suspended past MutexStale in the critical section
  CrashPoints, \* steps at which a process may die
  LoneCrashPoints, \* those at which it may die while at most one other is alive
  MaxNow,      \* bound of the clock
  MaxToken     \* bound of the number of acquisitions

ASSUME LeaseLockAssumption ==
  /\ NoPid \subseteq Proc /\ NoOwner \notin Proc
  /\ Ttl \in Nat \ {0} /\ Grace \in Nat /\ MutexStale \in Nat
  /\ Stalls \in BOOLEAN /\ IsFiniteSet(Proc)
  /\ MaxNow \in Nat /\ MaxToken \in Nat

(* What the properties count on, and what docs/LOCKS.md names as a limit: no *)
(* live process stays in the critical section for longer than MutexStale,   *)
(* and none dies there while two others live.  Everywhere else a process    *)
(* may be suspended for any time, and die.                                  *)
Punctual ==
  /\ ~Stalls
  /\ CrashPoints \cap {"inside", "act", "leave"} = {}

VARIABLES
  now,      \* wall clock
  lock,     \* the lock file; token 0 is the absent file
  mutex,    \* the mutex directory
  at,       \* where each process is
  op,       \* why it wants, or is in, the critical section
  seen,     \* the file it judged stale
  token,    \* token of the lock it created
  expires,  \* end of the lease it believes it holds
  dead,     \* processes that have died
  forced,   \* history: tokens of the locks removed by a forced release
  cleared,  \* history: and by a takeover that had judged an empty file corrupt
  issued    \* number of tokens generated

locals == <<op, seen, token, expires>>
lockVars == <<now, lock, mutex, at, locals, dead, forced, cleared, issued>>

NoFile == [token |-> 0, owner |-> NoOwner, written |-> FALSE, expires |-> 0, mtime |-> 0]
Exists == lock.token # 0

(* What readFile returns: an empty string between creation and write.      *)
Raw(f) == IF f.written THEN <<f.token, f.expires>> ELSE <<>>

LockInit ==
  /\ now = 0 /\ issued = 0
  /\ lock = NoFile
  /\ mutex = [there |-> FALSE, mtime |-> 0]
  /\ at = [p \in Proc |-> "idle"]
  /\ op = [p \in Proc |-> "none"]
  /\ seen = [p \in Proc |-> NoFile]
  /\ token = [p \in Proc |-> 0]
  /\ expires = [p \in Proc |-> 0]
  /\ dead = {} /\ forced = {} /\ cleared = {}

Alive(p) == p \notin dead

(* staleness: `corrupt`, `expired` or `owner_dead`.                        *)
Corrupt == ~lock.written /\ now - lock.mtime > Grace
Expired == lock.written /\ lock.expires <= now
OwnerDead == lock.written /\ lock.owner \notin NoPid /\ lock.owner \in dead

\* mutated form of Stale
StaleWithoutGrace == Exists /\ (~lock.written \/ Expired \/ OwnerDead)

Stale == Exists /\ (Corrupt \/ Expired \/ OwnerDead)

At(p, where) == Alive(p) /\ at[p] = where
Move(p, where) == at' = [at EXCEPT ![p] = where]

(* The operation of p is over and its local variables are gone.            *)
Return(p) ==
  /\ Move(p, "idle")
  /\ op' = [op EXCEPT ![p] = "none"]
  /\ seen' = [seen EXCEPT ![p] = NoFile]
  /\ token' = [token EXCEPT ![p] = 0]
  /\ expires' = [expires EXCEPT ![p] = 0]

Enter(p, why) ==
  /\ Move(p, "want")
  /\ op' = [op EXCEPT ![p] = why]

-----------------------------------------------------------------------------
(* tryAcquire, first read: nothing there, or a stale file to take over.  A *)
(* live file ends the attempt and changes nothing.                         *)
Judge(p) ==
  /\ At(p, "idle")
  /\ \/ ~Exists /\ Move(p, "create") /\ UNCHANGED <<op, seen>>
     \/ Stale /\ Enter(p, "takeover") /\ seen' = [seen EXCEPT ![p] = lock]
  /\ UNCHANGED <<now, lock, mutex, token, expires, dead, forced, cleared, issued>>

\* mutated form of EnterMutex
EnterMutexUnconditionally(p) ==
  /\ At(p, "want")
  /\ mutex' = [there |-> TRUE, mtime |-> now]
  /\ Move(p, "inside")
  /\ UNCHANGED <<now, lock, locals, dead, forced, cleared, issued>>

(* withMutex: mkdir; on EEXIST, a directory older than MutexStale is       *)
(* removed (stat and rmdir are two calls, whatever directory is there at   *)
(* the second), otherwise the process sleeps and tries again.              *)
EnterMutex(p) ==
  /\ At(p, "want") /\ ~mutex.there
  /\ mutex' = [there |-> TRUE, mtime |-> now]
  /\ Move(p, "inside")
  /\ UNCHANGED <<now, lock, locals, dead, forced, cleared, issued>>

JudgeMutex(p) ==
  /\ At(p, "want") /\ mutex.there /\ now - mutex.mtime > MutexStale
  /\ Move(p, "break")
  /\ UNCHANGED <<now, lock, mutex, locals, dead, forced, cleared, issued>>

BreakMutex(p) ==
  /\ At(p, "break")
  /\ mutex' = [there |-> FALSE, mtime |-> 0]
  /\ Move(p, "want")
  /\ UNCHANGED <<now, lock, locals, dead, forced, cleared, issued>>

(* MUTEX_WAIT_MS: the operation throws.  The heartbeat keeps the lock and  *)
(* reports it, the other operations end.                                   *)
GiveUp(p) ==
  /\ At(p, "want") /\ mutex.there
  /\ IF op[p] = "renew"
     THEN Move(p, "hold") /\ op' = [op EXCEPT ![p] = "none"] /\ UNCHANGED <<seen, token, expires>>
     ELSE Return(p)
  /\ UNCHANGED <<now, lock, mutex, dead, forced, cleared, issued>>

\* mutated forms of MayRemove, MayRenew and MayRelease
MayRemoveWhateverIsThere(p) == Exists
MayRenewAnything(p) == Exists
MayReleaseAnything(p) == Exists

(* The critical section reads the file again before it touches it.         *)
MayRemove(p) == Exists /\ Raw(lock) = Raw(seen[p])
MayRenew(p) == lock.written /\ lock.token = token[p]

(* By the token, or by the pid of the owner (`acquire` and `release` are   *)
(* two commands of the same parent process).                               *)
MayRelease(p) ==
  lock.written /\ (lock.token = token[p] \/ (p \notin NoPid /\ lock.owner = p))

Recheck(p) ==
  /\ At(p, "inside")
  /\ LET go == \/ op[p] = "takeover" /\ MayRemove(p)
               \/ op[p] = "renew" /\ MayRenew(p)
               \/ op[p] = "release" /\ MayRelease(p)
               \/ op[p] = "force" /\ Exists
     IN /\ Move(p, IF go THEN "act" ELSE "leave")
        /\ op' = IF ~go /\ op[p] = "renew" THEN [op EXCEPT ![p] = "lost"] ELSE op
  /\ UNCHANGED <<now, lock, mutex, seen, token, expires, dead, forced, cleared, issued>>

(* A takeover for a file that had stayed empty for longer than Grace.  Any *)
(* empty file has the content it judged, also one created since.           *)
Clears(p) == op[p] = "takeover" /\ ~seen[p].written /\ now - seen[p].mtime > Grace

(* unlink, or rename of the renewed record over the lock file.             *)
Act(p) ==
  /\ At(p, "act")
  /\ IF op[p] = "renew"
     THEN /\ lock' = [token |-> token[p], owner |-> p, written |-> TRUE,
                      expires |-> now + Ttl, mtime |-> now]
          /\ expires' = [expires EXCEPT ![p] = now + Ttl]
     ELSE lock' = NoFile /\ UNCHANGED expires
  /\ forced' = IF op[p] = "force" THEN forced \cup {lock.token} ELSE forced
  /\ cleared' = IF Clears(p) THEN cleared \cup {lock.token} ELSE cleared
  /\ Move(p, "leave")
  /\ UNCHANGED <<now, mutex, op, seen, token, dead, issued>>

(* finally: rmdir, even of a directory another process has made since.  A  *)
(* takeover goes on to create its file whether or not it removed one.      *)
Leave(p) ==
  /\ At(p, "leave")
  /\ mutex' = [there |-> FALSE, mtime |-> 0]
  /\ \/ /\ op[p] \in {"takeover", "renew"}
        /\ Move(p, IF op[p] = "takeover" THEN "create" ELSE "hold")
        /\ op' = [op EXCEPT ![p] = "none"]
        /\ seen' = [seen EXCEPT ![p] = NoFile]
        /\ UNCHANGED <<token, expires>>
     \/ op[p] \in {"lost", "release", "force"} /\ Return(p)
  /\ UNCHANGED <<now, lock, dead, forced, cleared, issued>>

\* mutated form of NewFile: seconds taken for milliseconds
NewFileForEver(p) == [token |-> issued + 1, owner |-> p, written |-> FALSE,
                      expires |-> now + 1000 * Ttl, mtime |-> now]

NewFile(p) == [token |-> issued + 1, owner |-> p, written |-> FALSE,
               expires |-> now + Ttl, mtime |-> now]

(* open with wx: one process creates the file, the others are refused.     *)
Create(p) ==
  /\ At(p, "create")
  /\ \/ Exists /\ Return(p) /\ UNCHANGED <<lock, issued>>
     \/ /\ ~Exists /\ issued < MaxToken
        /\ lock' = NewFile(p)
        /\ issued' = issued + 1
        /\ token' = [token EXCEPT ![p] = lock'.token]
        /\ expires' = [expires EXCEPT ![p] = lock'.expires]
        /\ Move(p, "write")
        /\ UNCHANGED <<op, seen>>
  /\ UNCHANGED <<now, mutex, dead, forced, cleared>>

(* The record goes to the file descriptor: to nowhere visible when the     *)
(* file has been unlinked meanwhile.  Nothing is read back.                *)
Write(p) ==
  /\ At(p, "write")
  /\ lock' = IF lock.token = token[p] THEN [lock EXCEPT !.written = TRUE, !.mtime = now]
             ELSE lock
  /\ Move(p, "hold")
  /\ UNCHANGED <<now, mutex, locals, dead, forced, cleared, issued>>

(* The heartbeat of `run` and of the gate leases, the end of the command,  *)
(* and `apv lock release --force` by anybody.                              *)
StartRenew(p) ==
  /\ At(p, "hold") /\ p \notin NoPid
  /\ Enter(p, "renew")
  /\ UNCHANGED <<now, lock, mutex, seen, token, expires, dead, forced, cleared, issued>>

StartRelease(p) ==
  /\ At(p, "hold")
  /\ Enter(p, "release")
  /\ UNCHANGED <<now, lock, mutex, seen, token, expires, dead, forced, cleared, issued>>

StartForce(p) ==
  /\ At(p, "idle") /\ Exists
  /\ Enter(p, "force")
  /\ UNCHANGED <<now, lock, mutex, seen, token, expires, dead, forced, cleared, issued>>

(* kill -9.  Two survivors that both judge the mutex of a dead process old *)
(* may both break it: the limit that docs/LOCKS.md states, and the bound    *)
(* of LoneCrashPoints.                                                     *)
Dies(p) ==
  /\ Alive(p)
  /\ \/ at[p] \in CrashPoints
     \/ at[p] \in LoneCrashPoints /\ Cardinality(Proc \ dead) <= 2
  /\ dead' = dead \cup {p}
  /\ Return(p)
  /\ UNCHANGED <<now, lock, mutex, forced, cleared, issued>>

InSection(p) == Alive(p) /\ at[p] \in {"inside", "act", "leave"}

(* Without Stalls a live process is in the critical section for at most    *)
(* MutexStale; nothing bounds how long it takes elsewhere.                 *)
Tick ==
  /\ now < MaxNow
  /\ Stalls \/ \A p \in Proc : InSection(p) => now - mutex.mtime < MutexStale
  /\ now' = now + 1
  /\ UNCHANGED <<lock, mutex, at, locals, dead, forced, cleared, issued>>

Step(p) ==
  \/ Judge(p) \/ EnterMutex(p) \/ JudgeMutex(p) \/ BreakMutex(p) \/ GiveUp(p)
  \/ Recheck(p) \/ Act(p) \/ Leave(p) \/ Create(p) \/ Write(p)
  \/ StartRenew(p) \/ StartRelease(p) \/ StartForce(p) \/ Dies(p)

LockNext == Tick \/ \E p \in Proc : Step(p)

LockSpec == LockInit /\ [][LockNext]_lockVars
-----------------------------------------------------------------------------
LockFile == [token : 0..MaxToken, owner : Proc \cup {NoOwner}, written : BOOLEAN,
             expires : 0..(MaxNow + Ttl), mtime : 0..MaxNow]

(* The values every variable may take.                                     *)
LockTypeOK ==
  /\ now \in 0..MaxNow /\ issued \in 0..MaxToken
  /\ lock \in LockFile
  /\ mutex \in [there : BOOLEAN, mtime : 0..MaxNow]
  /\ at \in [Proc -> {"idle", "want", "break", "inside", "act", "leave", "create",
                      "write", "hold"}]
  /\ op \in [Proc -> {"none", "takeover", "renew", "lost", "release", "force"}]
  /\ token \in [Proc -> 0..MaxToken] /\ seen \in [Proc -> LockFile]
  /\ expires \in [Proc -> 0..(MaxNow + Ttl)]
  /\ dead \subseteq Proc /\ forced \subseteq 0..MaxToken /\ cleared \subseteq 0..MaxToken

(* The process works under a lease that has not run out, of a lock that    *)
(* nobody removed by force or for the emptiness of its file: its command   *)
(* is running, protected.                                                  *)
Holds(p) ==
  /\ Alive(p) /\ now < expires[p] /\ token[p] \notin forced \cup cleared
  /\ at[p] = "hold" \/ op[p] = "renew"

(* Two commands never run under the same lock.  A holder is warned only    *)
(* when it renews, so exclusion rests on the clock and on nobody removing  *)
(* a live lock.                                                            *)
MutualExclusion ==
  \A p, q \in Proc : Holds(p) /\ Holds(q) => p = q

(* What makes it so: the lock file is the holder's, completely written,    *)
(* for as long as the lease the holder counts on.                          *)
HolderOwnsFile ==
  \A p \in Proc : Holds(p) =>
    lock.token = token[p] /\ lock.written /\ lock.expires >= expires[p]

(* What a process is about to unlink or overwrite is still the file it     *)
(* judged, or its own; a takeover for an empty file removes whatever it    *)
(* found empty again, or what its creator has written since.               *)
ActsOnWhatItJudged ==
  \A p \in Proc : At(p, "act") =>
    CASE op[p] = "takeover" -> lock.token = seen[p].token \/ (Clears(p) /\ Exists)
      [] op[p] = "renew" -> lock.token = token[p]
      [] OTHER -> Exists

(* The same without that exception: `Un verrou tout juste cree ne peut pas *)
(* etre supprime par un processus qui avait juge perime son predecesseur`. *)
FreshLocksRespected ==
  \A p \in Proc : At(p, "act") /\ op[p] = "takeover" => lock.token = seen[p].token

(* One process at a time is in the critical section.                       *)
SectionExclusion ==
  \A p, q \in Proc : InSection(p) /\ InSection(q) => p = q

(* A lock that is not stale leaves its place only because its owner        *)
(* released it, somebody forced it, or its file, or the one before, had    *)
(* stayed empty too long: never by the takeover of a written record,       *)
(* however long ago it was judged.                                         *)
NoTheft ==
  [][Exists /\ lock.written /\ ~Stale /\ lock'.token # lock.token =>
       \E p \in Proc : /\ At(p, "act")
                       /\ \/ op[p] = "force" \/ Clears(p)
                          \/ op[p] = "release" /\ lock.owner = p]_lockVars
=============================================================================
