--------------------------- MODULE LeaseLockProofs ---------------------------
(***************************************************************************)
(* Theorems about LeaseLock for every set of processes, every lease, grace *)
(* period and age of the mutex, under the hypothesis Punctual.             *)
(*                                                                         *)
(* The inductive invariant has one part per mechanism of the store: the    *)
(* mutex directory (Sections), the tokens (Tokens), what a judgement of    *)
(* staleness is worth later (Judgements), what the critical section        *)
(* established before it acts (Rechecked), and the lease itself (Kept).    *)
(***************************************************************************)
EXTENDS LeaseLock, FiniteSetTheorems, TLAPS

(* At most one process is left alive: whatever a death in the critical     *)
(* section left behind, nobody can be disturbed by its recovery.           *)
Lone == \A p, q \in Proc \ dead : p = q

Waits == {"want", "break", "inside", "act"}

(* op says what the process is in the critical section for, and token what *)
(* it created and has not given back.                                      *)
Shape ==
  \A p \in Proc :
    /\ at[p] \in {"idle", "create", "write", "hold"} => op[p] = "none"
    /\ at[p] \in Waits => op[p] \in {"takeover", "renew", "release", "force"}
    /\ at[p] = "leave" => op[p] # "none"
    /\ token[p] # 0 <=> \/ at[p] \in {"write", "hold"}
                        \/ op[p] \in {"renew", "release", "lost"}
    /\ p \in dead => at[p] = "idle"

(* The directory is there for as long as a process is in the section, and  *)
(* is judged old only once its maker has died.                             *)
Sections ==
  /\ SectionExclusion
  /\ \A p \in Proc : InSection(p) => mutex.there /\ now - mutex.mtime <= MutexStale
  /\ mutex.there => Lone \/ \E p \in Proc : InSection(p)
  /\ \A p \in Proc : At(p, "break") => Lone

(* The lock file is the last created, and every token has been issued.     *)
Tokens ==
  /\ lock.token \in {0, issued}
  /\ ~Exists => ~lock.written
  /\ \A p \in Proc : token[p] <= issued
  /\ \A t \in forced \cup cleared : t <= issued

(* A token is one process's, and says whose the file is and until when.    *)
Owned ==
  /\ \A p, q \in Proc : token[p] = token[q] /\ token[p] # 0 => p = q
  /\ \A p \in Proc : token[p] # 0 /\ lock.token = token[p] =>
       /\ lock.owner = p /\ lock.expires = expires[p]
       /\ at[p] = "write" => ~lock.written

(* What was judged stale stays so: its lease is over, its owner is dead, or *)
(* it stayed empty for longer than Grace.                                  *)
Judgements ==
  \A p \in Proc : op[p] = "takeover" =>
    /\ seen[p].token # 0 /\ seen[p].token <= issued
    /\ seen[p].token = lock.token => seen[p].owner = lock.owner
    /\ seen[p].written => \/ seen[p].expires <= now
                          \/ seen[p].owner \notin NoPid /\ seen[p].owner \in dead
    /\ ~seen[p].written => now - seen[p].mtime > Grace

(* What the second read established still holds when the process acts: of  *)
(* an empty file, that one is there, for it may have been written since.   *)
Rechecked ==
  \A p \in Proc : At(p, "act") =>
    /\ Exists
    /\ op[p] = "takeover" => MayRemove(p) \/ ~seen[p].written
    /\ op[p] = "renew" => MayRenew(p)
    /\ op[p] = "release" => MayRelease(p)

(* A lease that has not run out, of a lock that was not removed by force or *)
(* as empty, is that of the lock file.                                     *)
Leased(p) ==
  /\ Alive(p) /\ now < expires[p] /\ token[p] \notin forced \cup cleared
  /\ at[p] \in {"write", "hold"} \/ op[p] = "renew"

Kept ==
  \A p \in Proc :
    /\ Leased(p) => lock.token = token[p] /\ (lock.written \/ at[p] = "write")
    /\ At(p, "write") => token[p] \in forced \cup cleared \/ lock.token = token[p]

IInv ==
  /\ LockTypeOK /\ Shape /\ Sections /\ Tokens /\ Owned
  /\ Judgements /\ Rechecked /\ Kept

-----------------------------------------------------------------------------
(* What each action does, process by process.                              *)
Same(q) ==
  /\ at'[q] = at[q] /\ op'[q] = op[q] /\ seen'[q] = seen[q]
  /\ token'[q] = token[q] /\ expires'[q] = expires[q]

Becomes(p, where, why, what, tok, until) ==
  /\ at'[p] = where /\ op'[p] = why /\ seen'[p] = what
  /\ token'[p] = tok /\ expires'[p] = until
  /\ \A q \in Proc : q # p => Same(q)

Returned(p) == Becomes(p, "idle", "none", NoFile, 0, 0)
Moves(p, where, why) == Becomes(p, where, why, seen[p], token[p], expires[p])
FileKept == UNCHANGED <<lock, dead, forced, cleared, issued>>

(* The end of an operation clears what the process knew.                   *)
LEMMA ReturnEffect ==
  ASSUME LockTypeOK, NEW p \in Proc, Return(p)
  PROVE  Returned(p)
BY DEF LockTypeOK, Return, Move, Returned, Becomes, Same

(* A process that goes for the critical section says why.                  *)
LEMMA EnterEffect ==
  ASSUME LockTypeOK, NEW p \in Proc, NEW why, Enter(p, why),
         UNCHANGED <<seen, token, expires>>
  PROVE  Moves(p, "want", why)
BY DEF LockTypeOK, Enter, Move, Moves, Becomes, Same

(* A step that only moves the program counter.                             *)
LEMMA GotoEffect ==
  ASSUME LockTypeOK, NEW p \in Proc, NEW where, Move(p, where), UNCHANGED locals
  PROVE  Moves(p, where, op[p])
BY DEF LockTypeOK, Move, locals, Moves, Becomes, Same

(* The first read: to create, or to take over the file it judged stale.    *)
LEMMA JudgeEffect ==
  ASSUME LockTypeOK, NEW p \in Proc, Judge(p)
  PROVE  /\ At(p, "idle") /\ FileKept /\ UNCHANGED <<now, mutex>>
         /\ \/ ~Exists /\ Moves(p, "create", op[p])
            \/ Stale /\ Becomes(p, "want", "takeover", lock, token[p], expires[p])
BY DEF LockTypeOK, Judge, Enter, Move, FileKept, Moves, Becomes, Same

(* mkdir succeeds only when no directory is there.                         *)
LEMMA EnterMutexEffect ==
  ASSUME LockTypeOK, NEW p \in Proc, EnterMutex(p)
  PROVE  /\ At(p, "want") /\ FileKept /\ now' = now /\ ~mutex.there
         /\ mutex'.there /\ mutex'.mtime = now
         /\ Moves(p, "inside", op[p])
BY GotoEffect DEF EnterMutex, FileKept

(* The directory that is judged old was there, and was old.                *)
LEMMA JudgeMutexEffect ==
  ASSUME LockTypeOK, NEW p \in Proc, JudgeMutex(p)
  PROVE  /\ At(p, "want") /\ FileKept /\ UNCHANGED <<now, mutex>>
         /\ mutex.there /\ now - mutex.mtime > MutexStale
         /\ Moves(p, "break", op[p])
BY GotoEffect DEF JudgeMutex, FileKept

(* rmdir, and the process asks for the section again.                      *)
LEMMA BreakMutexEffect ==
  ASSUME LockTypeOK, NEW p \in Proc, BreakMutex(p)
  PROVE  /\ At(p, "break") /\ FileKept /\ now' = now /\ ~mutex'.there
         /\ Moves(p, "want", op[p])
BY GotoEffect DEF BreakMutex, FileKept

(* The wait for the mutex is over: a renewal keeps its lock.               *)
LEMMA GiveUpEffect ==
  ASSUME LockTypeOK, NEW p \in Proc, GiveUp(p)
  PROVE  /\ At(p, "want") /\ FileKept /\ UNCHANGED <<now, mutex>>
         /\ \/ op[p] = "renew" /\ Moves(p, "hold", "none")
            \/ op[p] # "renew" /\ Returned(p)
<1>1. CASE op[p] = "renew"
  BY <1>1 DEF LockTypeOK, GiveUp, Move, FileKept, Moves, Becomes, Same
<1>2. CASE op[p] # "renew"
  BY <1>2, ReturnEffect DEF GiveUp, FileKept
<1> QED
  BY <1>1, <1>2

(* The condition Recheck reads the file for.                               *)
Finds(p) ==
  \/ op[p] = "takeover" /\ MayRemove(p)
  \/ op[p] = "renew" /\ MayRenew(p)
  \/ op[p] = "release" /\ MayRelease(p)
  \/ op[p] = "force" /\ Exists

(* The second read decides between acting and leaving.                     *)
LEMMA RecheckEffect ==
  ASSUME LockTypeOK, NEW p \in Proc, Recheck(p)
  PROVE  /\ At(p, "inside") /\ FileKept /\ UNCHANGED <<now, mutex>>
         /\ \/ Finds(p) /\ Moves(p, "act", op[p])
            \/ op[p] # "renew" /\ Moves(p, "leave", op[p])
            \/ op[p] = "renew" /\ Moves(p, "leave", "lost")
<1>1. CASE Finds(p)
  BY <1>1 DEF LockTypeOK, Recheck, Finds, Move, FileKept, Moves, Becomes, Same
<1>2. CASE ~Finds(p) /\ op[p] = "renew"
  BY <1>2 DEF LockTypeOK, Recheck, Finds, Move, FileKept, Moves, Becomes, Same
<1>3. CASE ~Finds(p) /\ op[p] # "renew"
  BY <1>3 DEF LockTypeOK, Recheck, Finds, Move, FileKept, Moves, Becomes, Same
<1> QED
  BY <1>1, <1>2, <1>3

(* A renewal rewrites the file, every other operation removes it.          *)
LEMMA ActEffect ==
  ASSUME LockTypeOK, NEW p \in Proc, Act(p)
  PROVE  /\ At(p, "act") /\ UNCHANGED <<now, mutex, dead, issued>>
         /\ cleared' = IF Clears(p) THEN cleared \cup {lock.token} ELSE cleared
         /\ \/ /\ op[p] = "renew" /\ forced' = forced
               /\ Becomes(p, "leave", op[p], seen[p], token[p], now + Ttl)
               /\ lock'.token = token[p] /\ lock'.owner = p /\ lock'.written
               /\ lock'.expires = now + Ttl
            \/ /\ op[p] # "renew" /\ lock' = NoFile /\ Moves(p, "leave", op[p])
               /\ forced' = IF op[p] = "force" THEN forced \cup {lock.token} ELSE forced
<1>1. CASE op[p] = "renew"
  BY <1>1 DEF LockTypeOK, Act, Move, Becomes, Same
<1>2. CASE op[p] # "renew"
  BY <1>2 DEF LockTypeOK, Act, Move, Moves, Becomes, Same
<1> QED
  BY <1>1, <1>2

(* A takeover goes on to create, a renewal to hold.                        *)
LEMMA LeaveEffect ==
  ASSUME LockTypeOK, NEW p \in Proc, Leave(p)
  PROVE  /\ At(p, "leave") /\ FileKept /\ now' = now /\ ~mutex'.there
         /\ \/ /\ op[p] = "takeover"
               /\ Becomes(p, "create", "none", NoFile, token[p], expires[p])
            \/ /\ op[p] = "renew"
               /\ Becomes(p, "hold", "none", NoFile, token[p], expires[p])
            \/ op[p] \in {"lost", "release", "force"} /\ Returned(p)
<1>1. CASE op[p] \in {"takeover", "renew"}
  BY <1>1 DEF LockTypeOK, Leave, Move, FileKept, Becomes, Same
<1>2. CASE op[p] \notin {"takeover", "renew"}
  BY <1>2, ReturnEffect DEF Leave, FileKept
<1> QED
  BY <1>1, <1>2

(* A file is created only when there is none, with a token of its own.     *)
LEMMA CreateEffect ==
  ASSUME LockTypeOK, NEW p \in Proc, Create(p)
  PROVE  /\ At(p, "create") /\ UNCHANGED <<now, mutex, dead, forced, cleared>>
         /\ \/ lock' = lock /\ issued' = issued /\ Returned(p)
            \/ /\ ~Exists /\ issued' = issued + 1
               /\ lock'.token = issued + 1 /\ lock'.owner = p /\ ~lock'.written
               /\ lock'.expires = now + Ttl /\ lock'.mtime = now
               /\ Becomes(p, "write", op[p], seen[p], issued + 1, now + Ttl)
<1>1. CASE Exists
  BY <1>1, ReturnEffect DEF Create
<1>2. CASE ~Exists
  BY <1>2 DEF LockTypeOK, Create, Move, NewFile, Becomes, Same
<1> QED
  BY <1>1, <1>2

(* The record is written to the file that was created, if it is there.     *)
LEMMA WriteEffect ==
  ASSUME LockTypeOK, NEW p \in Proc, Write(p)
  PROVE  /\ At(p, "write") /\ UNCHANGED <<now, mutex, dead, forced, cleared, issued>>
         /\ Moves(p, "hold", op[p])
         /\ lock'.token = lock.token /\ lock'.owner = lock.owner
         /\ lock'.expires = lock.expires
         /\ \/ lock.token = token[p] /\ lock'.written
            \/ lock.token # token[p] /\ lock' = lock
<1>1. Moves(p, "hold", op[p])
  BY GotoEffect DEF Write
<1>2. CASE lock.token = token[p]
  BY <1>1, <1>2 DEF LockTypeOK, LockFile, Write
<1>3. CASE lock.token # token[p]
  BY <1>1, <1>3 DEF Write
<1> QED
  BY <1>1, <1>2, <1>3

(* The three operations that start from outside the section.               *)
LEMMA StartEffect ==
  ASSUME LockTypeOK, NEW p \in Proc, StartRenew(p) \/ StartRelease(p) \/ StartForce(p)
  PROVE  /\ FileKept /\ UNCHANGED <<now, mutex>>
         /\ \/ At(p, "hold") /\ Moves(p, "want", "renew")
            \/ At(p, "hold") /\ Moves(p, "want", "release")
            \/ At(p, "idle") /\ Moves(p, "want", "force")
BY EnterEffect DEF StartRenew, StartRelease, StartForce, FileKept

(* A death changes no file.                                                *)
LEMMA CrashEffect ==
  ASSUME LockTypeOK, NEW p \in Proc, Dies(p)
  PROVE  /\ Alive(p) /\ dead' = dead \cup {p} /\ Returned(p)
         /\ UNCHANGED <<now, lock, mutex, forced, cleared, issued>>
BY ReturnEffect DEF Dies

-----------------------------------------------------------------------------
(* The death that leaves one process is the last that can disturb another. *)
LEMMA LoneAfterCrash ==
  ASSUME NEW p \in Proc, Alive(p), Cardinality(Proc \ dead) <= 2, dead' = dead \cup {p}
  PROVE  Lone'
<1> DEFINE A == Proc \ dead
<1> DEFINE B == A \ {p}
<1>1. IsFiniteSet(A) /\ p \in A
  BY LeaseLockAssumption, FS_Subset DEF LeaseLockAssumption, Alive
<1>2. IsFiniteSet(B) /\ Cardinality(B) = Cardinality(A) - 1
  BY <1>1, FS_RemoveElement
<1>3. Cardinality(A) \in Nat /\ Cardinality(B) \in Nat /\ Cardinality(A) <= 2
  BY <1>1, <1>2, FS_CardinalityType
<1>4. ASSUME NEW q \in B, NEW r \in B, q # r PROVE FALSE
  <2> DEFINE C == B \ {q}
  <2>1. IsFiniteSet(C) /\ Cardinality(C) = Cardinality(B) - 1
    BY <1>2, FS_RemoveElement
  <2>2. r \in C
    BY <1>4
  <2>3. Cardinality(C) # 0 /\ Cardinality(C) \in Nat
    BY <2>1, <2>2, FS_EmptySet, FS_CardinalityType
  <2> QED
    BY <1>2, <1>3, <2>1, <2>3
<1> QED
  BY <1>4 DEF Lone

(* The dead stay dead.                                                     *)
LEMMA LoneStays == Lone /\ dead \subseteq dead' => Lone'
BY DEF Lone

(* Punctual: a death in the section leaves one alive.                      *)
LEMMA CrashLeaves ==
  ASSUME LockTypeOK, Punctual, NEW p \in Proc, Dies(p)
  PROVE  Lone' \/ at[p] \notin {"inside", "act", "leave"}
BY LoneAfterCrash DEF Dies, Punctual

(* The parts of LeaseLockAssumption the proofs cite.                       *)
LEMMA Bounds ==
  /\ Ttl \in Nat \ {0} /\ Grace \in Nat /\ MutexStale \in Nat
  /\ MaxNow \in Nat /\ MaxToken \in Nat /\ NoOwner \notin Proc
BY LeaseLockAssumption DEF LeaseLockAssumption

(* What TypeOK says of the numbers.                                        *)
LEMMA Numbers ==
  ASSUME LockTypeOK
  PROVE  /\ now \in Nat /\ issued \in Nat /\ mutex.mtime \in Nat
         /\ lock.token \in Nat /\ lock.expires \in Nat /\ lock.mtime \in Nat
         /\ \A p \in Proc : /\ token[p] \in Nat /\ expires[p] \in Nat
                             /\ seen[p].token \in Nat /\ seen[p].expires \in Nat
                             /\ seen[p].mtime \in Nat
         /\ \A t \in forced \cup cleared : t \in Nat
BY Bounds DEF LockTypeOK, LockFile

(* What the second read compares: nothing of an empty file.                *)
LEMMA RawFacts ==
  ASSUME LockTypeOK, NEW p \in Proc, MayRemove(p)
  PROVE  /\ lock.written = seen[p].written
         /\ lock.written => lock.token = seen[p].token /\ lock.expires = seen[p].expires
<1>1. lock.written \in BOOLEAN /\ seen[p].written \in BOOLEAN
  BY DEF LockTypeOK, LockFile
<1>2. Raw(lock) = Raw(seen[p])
  BY DEF MayRemove
<1>3. CASE lock.written
  BY <1>1, <1>2, <1>3 DEF Raw
<1>4. CASE ~lock.written
  BY <1>1, <1>2, <1>4 DEF Raw
<1> QED
  BY <1>1, <1>3, <1>4

(* The absent file is a value of the type of files.                        *)
LEMMA NoFileType == NoFile \in LockFile
BY Bounds DEF NoFile, LockFile

(* The absent file has no token and no text.                               *)
LEMMA NoFileFields == NoFile.token = 0 /\ ~NoFile.written
BY DEF NoFile

(* The end of an operation keeps the types.                                *)
LEMMA ReturnType ==
  ASSUME LockTypeOK, NEW p \in Proc, Return(p), UNCHANGED <<now, dead, forced, cleared>>,
         mutex' \in [there : BOOLEAN, mtime : 0..MaxNow], lock' \in LockFile,
         issued' \in 0..MaxToken
  PROVE  LockTypeOK'
BY NoFileType, Bounds DEF LockTypeOK, Return, Move

(* Each system call keeps the variables in their domains.                  *)
LEMMA TypeStep == LockTypeOK /\ [LockNext]_lockVars => LockTypeOK'
<1> SUFFICES ASSUME LockTypeOK, [LockNext]_lockVars PROVE LockTypeOK'
  OBVIOUS
<1> USE Bounds
<1>1. ASSUME NEW p \in Proc, Judge(p) PROVE LockTypeOK'
  BY <1>1 DEF LockTypeOK, Judge, Move, Enter
<1>2. ASSUME NEW p \in Proc, EnterMutex(p) PROVE LockTypeOK'
  BY <1>2 DEF LockTypeOK, EnterMutex, Move, locals
<1>3. ASSUME NEW p \in Proc, JudgeMutex(p) PROVE LockTypeOK'
  BY <1>3 DEF LockTypeOK, JudgeMutex, Move, locals
<1>4. ASSUME NEW p \in Proc, BreakMutex(p) PROVE LockTypeOK'
  BY <1>4 DEF LockTypeOK, BreakMutex, Move, locals
<1>5. ASSUME NEW p \in Proc, GiveUp(p) PROVE LockTypeOK'
  <2>1. CASE op[p] = "renew"
    BY <1>5, <2>1 DEF LockTypeOK, GiveUp, Move
  <2>2. CASE op[p] # "renew"
    BY <1>5, <2>2, ReturnType DEF LockTypeOK, GiveUp
  <2> QED
    BY <2>1, <2>2
<1>6. ASSUME NEW p \in Proc, Recheck(p) PROVE LockTypeOK'
  BY <1>6 DEF LockTypeOK, Recheck, Move
<1>7. ASSUME NEW p \in Proc, Act(p) PROVE LockTypeOK'
  <2>1. CASE op[p] = "renew"
    <3>1. now + Ttl \in 0..(MaxNow + Ttl) /\ now \in 0..MaxNow
      BY DEF LockTypeOK
    <3>2. lock' \in LockFile
      <4>1. lock' = [token |-> token[p], owner |-> p, written |-> TRUE,
                     expires |-> now + Ttl, mtime |-> now]
        BY <1>7, <2>1 DEF Act
      <4>2. token[p] \in 0..MaxToken
        BY DEF LockTypeOK
      <4> QED
        BY <3>1, <4>1, <4>2 DEF LockFile
    <3> QED
      BY <1>7, <2>1, <3>1, <3>2 DEF LockTypeOK, Act, Move, Clears
  <2>2. CASE op[p] # "renew"
    <3>1. forced' \subseteq 0..MaxToken /\ cleared' \subseteq 0..MaxToken
      BY <1>7 DEF LockTypeOK, LockFile, Act
    <3> QED
      BY <1>7, <2>2, <3>1, NoFileType DEF LockTypeOK, Act, Move
  <2> QED
    BY <2>1, <2>2
<1>8. ASSUME NEW p \in Proc, Leave(p) PROVE LockTypeOK'
  <2>1. CASE op[p] \in {"takeover", "renew"}
    BY <1>8, <2>1, NoFileType DEF LockTypeOK, Leave, Move
  <2>2. CASE op[p] \notin {"takeover", "renew"}
    BY <1>8, <2>2, ReturnType DEF LockTypeOK, Leave
  <2> QED
    BY <2>1, <2>2
<1>9. ASSUME NEW p \in Proc, Create(p) PROVE LockTypeOK'
  <2>1. CASE Exists
    BY <1>9, <2>1, ReturnType DEF LockTypeOK, Create
  <2>2. CASE ~Exists
    <3>1. lock' \in LockFile /\ lock'.token = issued + 1 /\ lock'.expires = now + Ttl
      <4>1. /\ now + Ttl \in 0..(MaxNow + Ttl) /\ now \in 0..MaxNow
            /\ issued < MaxToken /\ issued + 1 \in 0..MaxToken
        BY <1>9, <2>2 DEF LockTypeOK, Create
      <4>2. lock' = NewFile(p)
        BY <1>9, <2>2 DEF Create
      <4> QED
        BY <4>1, <4>2 DEF LockFile, NewFile
    <3> QED
      BY <1>9, <2>2, <3>1 DEF LockTypeOK, Create, Move
  <2> QED
    BY <2>1, <2>2
<1>10. ASSUME NEW p \in Proc, Write(p) PROVE LockTypeOK'
  BY <1>10 DEF LockTypeOK, LockFile, Write, Move, locals
<1>11. ASSUME NEW p \in Proc, StartRenew(p) \/ StartRelease(p) \/ StartForce(p)
       PROVE LockTypeOK'
  BY <1>11 DEF LockTypeOK, StartRenew, StartRelease, StartForce, Enter, Move
<1>12. ASSUME NEW p \in Proc, Dies(p) PROVE LockTypeOK'
  BY <1>12, NoFileType DEF LockTypeOK, Dies, Return, Move
<1>13. CASE Tick
  BY <1>13 DEF LockTypeOK, Tick, locals
<1>14. CASE UNCHANGED lockVars
  BY <1>14 DEF LockTypeOK, lockVars, locals
<1> QED
  BY <1>1, <1>2, <1>3, <1>4, <1>5, <1>6, <1>7, <1>8, <1>9, <1>10, <1>11, <1>12,
     <1>13, <1>14 DEF LockNext, Step

(* Each step keeps the program counter, op and token in agreement.         *)
LEMMA ShapeStep ==
  ASSUME Punctual, IInv, [LockNext]_lockVars
  PROVE  Shape'
<1> USE DEF IInv, LockTypeOK, Shape, Waits, NoFile, Finds, Becomes, Same, Moves,
            Returned, FileKept, At, Alive
<1>1. ASSUME NEW p \in Proc, Judge(p) PROVE Shape'
  BY <1>1, JudgeEffect
<1>2. ASSUME NEW p \in Proc, EnterMutex(p) PROVE Shape'
  BY <1>2, EnterMutexEffect
<1>3. ASSUME NEW p \in Proc, JudgeMutex(p) PROVE Shape'
  BY <1>3, JudgeMutexEffect
<1>4. ASSUME NEW p \in Proc, BreakMutex(p) PROVE Shape'
  BY <1>4, BreakMutexEffect
<1>5. ASSUME NEW p \in Proc, GiveUp(p) PROVE Shape'
  BY <1>5, GiveUpEffect
<1>6. ASSUME NEW p \in Proc, Recheck(p) PROVE Shape'
  BY <1>6, RecheckEffect
<1>7. ASSUME NEW p \in Proc, Act(p) PROVE Shape'
  BY <1>7, ActEffect
<1>8. ASSUME NEW p \in Proc, Leave(p) PROVE Shape'
  BY <1>8, LeaveEffect
<1>9. ASSUME NEW p \in Proc, Create(p) PROVE Shape'
  BY <1>9, CreateEffect
<1>10. ASSUME NEW p \in Proc, Write(p) PROVE Shape'
  BY <1>10, WriteEffect
<1>11. ASSUME NEW p \in Proc, StartRenew(p) \/ StartRelease(p) \/ StartForce(p)
       PROVE Shape'
  BY <1>11, StartEffect
<1>12. ASSUME NEW p \in Proc, Dies(p) PROVE Shape'
  BY <1>12, CrashEffect
<1>13. CASE Tick
  BY <1>13 DEF Tick, locals
<1>14. CASE UNCHANGED lockVars
  BY <1>14 DEF lockVars, locals
<1> QED
  BY <1>1, <1>2, <1>3, <1>4, <1>5, <1>6, <1>7, <1>8, <1>9, <1>10, <1>11, <1>12,
     <1>13, <1>14 DEF LockNext, Step

(* EnterMutex excludes; Leave and BreakMutex disturb nobody inside.        *)
LEMMA SectionsStep ==
  ASSUME Punctual, IInv, [LockNext]_lockVars
  PROVE  Sections'
<1> USE Bounds, LoneStays
        DEF IInv, LockTypeOK, Shape, Sections, SectionExclusion, InSection, Becomes,
            Same, Moves, Returned, FileKept, At, Alive
<1>1. ASSUME NEW p \in Proc, Judge(p) PROVE Sections'
  BY <1>1, JudgeEffect
<1>2. ASSUME NEW p \in Proc, EnterMutex(p) PROVE Sections'
  BY <1>2, EnterMutexEffect
<1>3. ASSUME NEW p \in Proc, JudgeMutex(p) PROVE Sections'
  BY <1>3, JudgeMutexEffect
<1>4. ASSUME NEW p \in Proc, BreakMutex(p) PROVE Sections'
  <2>1. ~InSection(p) /\ \A q \in Proc : Alive(q) => q = p
    BY <1>4, BreakMutexEffect DEF Lone
  <2> QED
    BY <1>4, <2>1, BreakMutexEffect
<1>5. ASSUME NEW p \in Proc, GiveUp(p) PROVE Sections'
  BY <1>5, GiveUpEffect
<1>6. ASSUME NEW p \in Proc, Recheck(p) PROVE Sections'
  BY <1>6, RecheckEffect
<1>7. ASSUME NEW p \in Proc, Act(p) PROVE Sections'
  BY <1>7, ActEffect
<1>8. ASSUME NEW p \in Proc, Leave(p) PROVE Sections'
  BY <1>8, LeaveEffect
<1>9. ASSUME NEW p \in Proc, Create(p) PROVE Sections'
  BY <1>9, CreateEffect
<1>10. ASSUME NEW p \in Proc, Write(p) PROVE Sections'
  BY <1>10, WriteEffect
<1>11. ASSUME NEW p \in Proc, StartRenew(p) \/ StartRelease(p) \/ StartForce(p)
       PROVE Sections'
  BY <1>11, StartEffect
<1>12. ASSUME NEW p \in Proc, Dies(p) PROVE Sections'
  BY <1>12, CrashEffect, CrashLeaves
<1>13. CASE Tick
  BY <1>13 DEF Tick, locals, Punctual, Lone
<1>14. CASE UNCHANGED lockVars
  BY <1>14 DEF lockVars, locals
<1> QED
  BY <1>1, <1>2, <1>3, <1>4, <1>5, <1>6, <1>7, <1>8, <1>9, <1>10, <1>11, <1>12,
     <1>13, <1>14 DEF LockNext, Step

(* Create alone issues a token, and only when no file is there.            *)
LEMMA TokensStep ==
  ASSUME Punctual, IInv, [LockNext]_lockVars
  PROVE  Tokens'
<1> USE Bounds, Numbers, NoFileFields
        DEF IInv, Exists, Shape, Tokens, Becomes, Same, Moves, Returned,
            FileKept, At, Alive
<1>1. ASSUME NEW p \in Proc, Judge(p) PROVE Tokens'
  BY <1>1, JudgeEffect
<1>2. ASSUME NEW p \in Proc, EnterMutex(p) PROVE Tokens'
  BY <1>2, EnterMutexEffect
<1>3. ASSUME NEW p \in Proc, JudgeMutex(p) PROVE Tokens'
  BY <1>3, JudgeMutexEffect
<1>4. ASSUME NEW p \in Proc, BreakMutex(p) PROVE Tokens'
  BY <1>4, BreakMutexEffect
<1>5. ASSUME NEW p \in Proc, GiveUp(p) PROVE Tokens'
  BY <1>5, GiveUpEffect
<1>6. ASSUME NEW p \in Proc, Recheck(p) PROVE Tokens'
  BY <1>6, RecheckEffect
<1>7. ASSUME NEW p \in Proc, Act(p) PROVE Tokens'
  BY <1>7, ActEffect DEF Rechecked, MayRenew
<1>8. ASSUME NEW p \in Proc, Leave(p) PROVE Tokens'
  BY <1>8, LeaveEffect
<1>9. ASSUME NEW p \in Proc, Create(p) PROVE Tokens'
  BY <1>9, CreateEffect
<1>10. ASSUME NEW p \in Proc, Write(p) PROVE Tokens'
  BY <1>10, WriteEffect
<1>11. ASSUME NEW p \in Proc, StartRenew(p) \/ StartRelease(p) \/ StartForce(p)
       PROVE Tokens'
  BY <1>11, StartEffect
<1>12. ASSUME NEW p \in Proc, Dies(p) PROVE Tokens'
  BY <1>12, CrashEffect
<1>13. CASE Tick
  BY <1>13 DEF Tick, locals
<1>14. CASE UNCHANGED lockVars
  BY <1>14 DEF lockVars, locals
<1> QED
  BY <1>1, <1>2, <1>3, <1>4, <1>5, <1>6, <1>7, <1>8, <1>9, <1>10, <1>11, <1>12,
     <1>13, <1>14 DEF LockNext, Step

(* A renewal writes the token and the lease of its own lock.               *)
LEMMA OwnedStep ==
  ASSUME Punctual, IInv, [LockNext]_lockVars
  PROVE  Owned'
<1> USE Bounds, Numbers
        DEF IInv, NoFile, Exists, Shape, Tokens, Owned, Becomes, Same, Moves,
            Returned, FileKept, At, Alive
<1>1. ASSUME NEW p \in Proc, Judge(p) PROVE Owned'
  BY <1>1, JudgeEffect
<1>2. ASSUME NEW p \in Proc, EnterMutex(p) PROVE Owned'
  BY <1>2, EnterMutexEffect
<1>3. ASSUME NEW p \in Proc, JudgeMutex(p) PROVE Owned'
  BY <1>3, JudgeMutexEffect
<1>4. ASSUME NEW p \in Proc, BreakMutex(p) PROVE Owned'
  BY <1>4, BreakMutexEffect
<1>5. ASSUME NEW p \in Proc, GiveUp(p) PROVE Owned'
  BY <1>5, GiveUpEffect
<1>6. ASSUME NEW p \in Proc, Recheck(p) PROVE Owned'
  BY <1>6, RecheckEffect
<1>7. ASSUME NEW p \in Proc, Act(p) PROVE Owned'
  BY <1>7, ActEffect
<1>8. ASSUME NEW p \in Proc, Leave(p) PROVE Owned'
  BY <1>8, LeaveEffect
<1>9. ASSUME NEW p \in Proc, Create(p) PROVE Owned'
  BY <1>9, CreateEffect
<1>10. ASSUME NEW p \in Proc, Write(p) PROVE Owned'
  BY <1>10, WriteEffect
<1>11. ASSUME NEW p \in Proc, StartRenew(p) \/ StartRelease(p) \/ StartForce(p)
       PROVE Owned'
  BY <1>11, StartEffect
<1>12. ASSUME NEW p \in Proc, Dies(p) PROVE Owned'
  BY <1>12, CrashEffect
<1>13. CASE Tick
  BY <1>13 DEF Tick, locals
<1>14. CASE UNCHANGED lockVars
  BY <1>14 DEF lockVars, locals
<1> QED
  BY <1>1, <1>2, <1>3, <1>4, <1>5, <1>6, <1>7, <1>8, <1>9, <1>10, <1>11, <1>12,
     <1>13, <1>14 DEF LockNext, Step

(* A renewal gives the file another lease than the one judged over.        *)
LEMMA JudgementsStep ==
  ASSUME Punctual, IInv, [LockNext]_lockVars
  PROVE  Judgements'
<1> USE Bounds, Numbers, NoFileFields
        DEF IInv, Exists, Shape, Waits, Tokens, Judgements, Becomes, Same,
            Moves, Returned, FileKept, At, Alive
<1>1. ASSUME NEW p \in Proc, Judge(p) PROVE Judgements'
  BY <1>1, JudgeEffect DEF Stale, Corrupt, Expired, OwnerDead
<1>2. ASSUME NEW p \in Proc, EnterMutex(p) PROVE Judgements'
  BY <1>2, EnterMutexEffect
<1>3. ASSUME NEW p \in Proc, JudgeMutex(p) PROVE Judgements'
  BY <1>3, JudgeMutexEffect
<1>4. ASSUME NEW p \in Proc, BreakMutex(p) PROVE Judgements'
  BY <1>4, BreakMutexEffect
<1>5. ASSUME NEW p \in Proc, GiveUp(p) PROVE Judgements'
  BY <1>5, GiveUpEffect
<1>6. ASSUME NEW p \in Proc, Recheck(p) PROVE Judgements'
  BY <1>6, RecheckEffect
<1>7. ASSUME NEW p \in Proc, Act(p) PROVE Judgements'
  BY <1>7, ActEffect DEF Rechecked, MayRenew, Owned
<1>8. ASSUME NEW p \in Proc, Leave(p) PROVE Judgements'
  BY <1>8, LeaveEffect
<1>9. ASSUME NEW p \in Proc, Create(p) PROVE Judgements'
  BY <1>9, CreateEffect
<1>10. ASSUME NEW p \in Proc, Write(p) PROVE Judgements'
  BY <1>10, WriteEffect
<1>11. ASSUME NEW p \in Proc, StartRenew(p) \/ StartRelease(p) \/ StartForce(p)
       PROVE Judgements'
  BY <1>11, StartEffect
<1>12. ASSUME NEW p \in Proc, Dies(p) PROVE Judgements'
  BY <1>12, CrashEffect
<1>13. CASE Tick
  BY <1>13 DEF Tick, locals
<1>14. CASE UNCHANGED lockVars
  BY <1>14 DEF lockVars, locals
<1> QED
  BY <1>1, <1>2, <1>3, <1>4, <1>5, <1>6, <1>7, <1>8, <1>9, <1>10, <1>11, <1>12,
     <1>13, <1>14 DEF LockNext, Step

(* Between the second read and the act, nobody else changes the file.      *)
LEMMA RecheckedStep ==
  ASSUME Punctual, IInv, [LockNext]_lockVars
  PROVE  Rechecked'
<1> USE Bounds, Numbers
        DEF IInv, Exists, Shape, Waits, Rechecked, Finds, MayRemove, MayRenew,
            MayRelease, Becomes, Same, Moves, Returned, FileKept, At, Alive
<1>1. ASSUME NEW p \in Proc, Judge(p) PROVE Rechecked'
  BY <1>1, JudgeEffect
<1>2. ASSUME NEW p \in Proc, EnterMutex(p) PROVE Rechecked'
  BY <1>2, EnterMutexEffect
<1>3. ASSUME NEW p \in Proc, JudgeMutex(p) PROVE Rechecked'
  BY <1>3, JudgeMutexEffect
<1>4. ASSUME NEW p \in Proc, BreakMutex(p) PROVE Rechecked'
  BY <1>4, BreakMutexEffect
<1>5. ASSUME NEW p \in Proc, GiveUp(p) PROVE Rechecked'
  BY <1>5, GiveUpEffect
<1>6. ASSUME NEW p \in Proc, Recheck(p) PROVE Rechecked'
  <2> SUFFICES ASSUME NEW q \in Proc, At(q, "act")'
               PROVE  /\ Exists'
                      /\ op'[q] = "takeover" => MayRemove(q)' \/ ~seen'[q].written
                      /\ op'[q] = "renew" => MayRenew(q)'
                      /\ op'[q] = "release" => MayRelease(q)'
    OBVIOUS
  <2>1. /\ lock' = lock /\ op'[q] = op[q] /\ seen'[q] = seen[q] /\ token'[q] = token[q]
        /\ Finds(q) \/ At(q, "act")
    BY <1>6, RecheckEffect
  <2>0. Tokens
    OBVIOUS
  <2>2. /\ Exists
        /\ op[q] = "takeover" => MayRemove(q) \/ ~seen[q].written
        /\ op[q] = "renew" => MayRenew(q)
        /\ op[q] = "release" => MayRelease(q)
    <3>1. CASE Finds(q)
      BY ONLY <2>0, <3>1 DEF Tokens, Finds, MayRemove, MayRenew, MayRelease, Exists
    <3>2. CASE At(q, "act")
      BY <3>2
    <3> QED
      BY ONLY <2>1, <3>1, <3>2
  <2> QED
    BY <2>1, <2>2
<1>7. ASSUME NEW p \in Proc, Act(p) PROVE Rechecked'
  BY <1>7, ActEffect DEF Sections, SectionExclusion, InSection
<1>8. ASSUME NEW p \in Proc, Leave(p) PROVE Rechecked'
  BY <1>8, LeaveEffect
<1>9. ASSUME NEW p \in Proc, Create(p) PROVE Rechecked'
  BY <1>9, CreateEffect
<1>10. ASSUME NEW p \in Proc, Write(p) PROVE Rechecked'
  BY <1>10, WriteEffect, RawFacts
  DEF Sections, SectionExclusion, InSection, Owned
<1>11. ASSUME NEW p \in Proc, StartRenew(p) \/ StartRelease(p) \/ StartForce(p)
       PROVE Rechecked'
  BY <1>11, StartEffect
<1>12. ASSUME NEW p \in Proc, Dies(p) PROVE Rechecked'
  BY <1>12, CrashEffect
<1>13. CASE Tick
  BY <1>13 DEF Tick, locals
<1>14. CASE UNCHANGED lockVars
  BY <1>14 DEF lockVars, locals
<1> QED
  BY <1>1, <1>2, <1>3, <1>4, <1>5, <1>6, <1>7, <1>8, <1>9, <1>10, <1>11, <1>12,
     <1>13, <1>14 DEF LockNext, Step

(* No act removes the file of a lease that has not run out, but by force.  *)
LEMMA KeptStep ==
  ASSUME Punctual, IInv, [LockNext]_lockVars
  PROVE  Kept'
<1> USE Bounds, Numbers, NoFileFields
        DEF IInv, Exists, Shape, Waits, Tokens, Owned, Kept, Leased, Becomes,
            Same, Moves, Returned, FileKept, At, Alive
<1>1. ASSUME NEW p \in Proc, Judge(p) PROVE Kept'
  BY <1>1, JudgeEffect
<1>2. ASSUME NEW p \in Proc, EnterMutex(p) PROVE Kept'
  BY <1>2, EnterMutexEffect
<1>3. ASSUME NEW p \in Proc, JudgeMutex(p) PROVE Kept'
  BY <1>3, JudgeMutexEffect
<1>4. ASSUME NEW p \in Proc, BreakMutex(p) PROVE Kept'
  BY <1>4, BreakMutexEffect
<1>5. ASSUME NEW p \in Proc, GiveUp(p) PROVE Kept'
  BY <1>5, GiveUpEffect
<1>6. ASSUME NEW p \in Proc, Recheck(p) PROVE Kept'
  BY <1>6, RecheckEffect
<1>7. ASSUME NEW p \in Proc, Act(p) PROVE Kept'
  BY <1>7, ActEffect, RawFacts DEF Rechecked, MayRenew, MayRelease, Judgements, Clears
<1>8. ASSUME NEW p \in Proc, Leave(p) PROVE Kept'
  BY <1>8, LeaveEffect
<1>9. ASSUME NEW p \in Proc, Create(p) PROVE Kept'
  BY <1>9, CreateEffect
<1>10. ASSUME NEW p \in Proc, Write(p) PROVE Kept'
  BY <1>10, WriteEffect
<1>11. ASSUME NEW p \in Proc, StartRenew(p) \/ StartRelease(p) \/ StartForce(p)
       PROVE Kept'
  BY <1>11, StartEffect
<1>12. ASSUME NEW p \in Proc, Dies(p) PROVE Kept'
  BY <1>12, CrashEffect
<1>13. CASE Tick
  BY <1>13 DEF Tick, locals
<1>14. CASE UNCHANGED lockVars
  BY <1>14 DEF lockVars, locals
<1> QED
  BY <1>1, <1>2, <1>3, <1>4, <1>5, <1>6, <1>7, <1>8, <1>9, <1>10, <1>11, <1>12,
     <1>13, <1>14 DEF LockNext, Step

(* Every step of every process, and of the clock, keeps the invariant.     *)
LEMMA Inductive == Punctual /\ IInv /\ [LockNext]_lockVars => IInv'
BY TypeStep, ShapeStep, SectionsStep, TokensStep, OwnedStep,
   JudgementsStep,
   RecheckedStep, KeptStep DEF IInv

LEMMA Initially == LockInit => IInv
<1> SUFFICES ASSUME LockInit PROVE IInv
  OBVIOUS
<1>1. LockTypeOK
  BY Bounds, NoFileType DEF LockInit, LockTypeOK
<1>2. Shape /\ Owned /\ Kept /\ Rechecked /\ Judgements
  BY <1>1
  DEF LockInit, Shape, Waits, Owned, Kept, Leased, Rechecked, Judgements, At,
      Exists, Alive
<1>3. Sections /\ Tokens
  BY <1>1, NoFileFields
  DEF LockInit, Sections, SectionExclusion, InSection, Tokens, At, Exists, Alive
<1> QED
  BY <1>1, <1>2, <1>3 DEF IInv

(* The type invariant of the lock file, the mutex and the processes that   *)
(* compete for them: it needs no hypothesis on how they are suspended.     *)
THEOREM TypeCorrect == LockSpec => []LockTypeOK
<1>1. LockInit => LockTypeOK
  BY Initially DEF IInv
<1> QED
  BY <1>1, TypeStep, PTL DEF LockSpec

(* tryAcquire, renew and release keep the inductive invariant.             *)
THEOREM InvariantHolds ==
  ASSUME Punctual
  PROVE  LockSpec => []IInv
<1>1. IInv /\ [LockNext]_lockVars => IInv'
  BY Inductive
<1> QED
  BY <1>1, Initially, PTL DEF LockSpec

(* withMutex lets one process at a time into the critical section, however *)
(* often a mutex directory is judged old and broken.                       *)
THEOREM OneInSection ==
  ASSUME Punctual
  PROVE  LockSpec => []SectionExclusion
<1>1. IInv => SectionExclusion
  BY DEF IInv, Sections
<1> QED
  BY <1>1, InvariantHolds, PTL

(* What a process unlinks or overwrites in the critical section is the     *)
(* file it judged stale, or its own; only the takeover of a file that had  *)
(* stayed empty for longer than Grace may meet another one.                *)
THEOREM ActsAsJudged ==
  ASSUME Punctual
  PROVE  LockSpec => []ActsOnWhatItJudged
<1>1. IInv => ActsOnWhatItJudged
  <2> SUFFICES ASSUME IInv, NEW p \in Proc, At(p, "act")
               PROVE  CASE op[p] = "takeover" ->
                             lock.token = seen[p].token \/ (Clears(p) /\ Exists)
                        [] op[p] = "renew" -> lock.token = token[p]
                        [] OTHER -> Exists
    BY DEF ActsOnWhatItJudged
  <2>1. CASE op[p] = "takeover"
    <3>1. lock.token = seen[p].token \/ (Clears(p) /\ Exists)
      <4>1. Exists /\ LockTypeOK /\ (MayRemove(p) \/ ~seen[p].written)
        BY <2>1 DEF IInv, Rechecked
      <4>2. CASE seen[p].written
        BY <4>1, <4>2, RawFacts
      <4>3. CASE ~seen[p].written
        BY <2>1, <4>1, <4>3 DEF IInv, Judgements, Clears
      <4> QED
        BY <4>2, <4>3
    <3> QED
      BY <2>1, <3>1
  <2>2. CASE op[p] = "renew"
    BY <2>2 DEF IInv, Rechecked, MayRenew
  <2>3. CASE op[p] \notin {"takeover", "renew"}
    BY <2>3 DEF IInv, Rechecked
  <2> QED
    BY <2>1, <2>2, <2>3
<1> QED
  BY <1>1, InvariantHolds, PTL

(* While a command runs under a lease that has not run out, the lock file  *)
(* is its own, whole, and stays until that lease is over at least.         *)
THEOREM HolderOwns ==
  ASSUME Punctual
  PROVE  LockSpec => []HolderOwnsFile
<1>1. IInv => HolderOwnsFile
  <2> SUFFICES ASSUME IInv, NEW p \in Proc, Holds(p)
               PROVE  lock.token = token[p] /\ lock.written /\ lock.expires >= expires[p]
    BY DEF HolderOwnsFile
  <2>1. Leased(p) /\ at[p] # "write"
    BY DEF IInv, Shape, Holds, Leased
  <2>2. lock.token = token[p] /\ lock.written
    BY <2>1 DEF IInv, Kept
  <2>3. token[p] # 0
    BY DEF IInv, Shape, Holds
  <2> QED
    BY <2>2, <2>3, Numbers DEF IInv, Owned
<1> QED
  BY <1>1, InvariantHolds, PTL

(* Two commands never run under the same lock: both would own the file.    *)
THEOREM CommandsExclude ==
  ASSUME Punctual
  PROVE  LockSpec => []MutualExclusion
<1>1. IInv /\ HolderOwnsFile => MutualExclusion
  BY DEF IInv, Shape, Owned, Holds, HolderOwnsFile, MutualExclusion
<1> QED
  BY <1>1, InvariantHolds, HolderOwns, PTL

(* No takeover of a written record, however late, removes a lock that is   *)
(* not stale: such a lock goes only when its owner releases it, somebody   *)
(* forces it, or a file had stayed empty for longer than Grace.            *)
THEOREM NeverStolen ==
  ASSUME Punctual
  PROVE  LockSpec => NoTheft
<1> DEFINE Spared == Exists /\ lock.written /\ ~Stale /\ lock'.token # lock.token =>
                       \E p \in Proc : /\ At(p, "act")
                                       /\ \/ op[p] = "force" \/ Clears(p)
                                          \/ op[p] = "release" /\ lock.owner = p
<1>1. IInv /\ [LockNext]_lockVars => [Spared]_lockVars
  <2> SUFFICES ASSUME IInv, [LockNext]_lockVars, Exists, lock.written, ~Stale,
                      lock'.token # lock.token
               PROVE  \E p \in Proc : /\ At(p, "act")
                                      /\ \/ op[p] = "force" \/ Clears(p)
                                         \/ op[p] = "release" /\ lock.owner = p
    OBVIOUS
  <2>1. PICK p \in Proc : Step(p)
    BY DEF LockNext, Tick, lockVars
  <2>2. Act(p)
    BY <2>1, JudgeEffect, EnterMutexEffect, JudgeMutexEffect, BreakMutexEffect,
       GiveUpEffect, RecheckEffect, LeaveEffect, CreateEffect, WriteEffect, StartEffect,
       CrashEffect DEF Step, IInv, FileKept
  <2>3. At(p, "act") /\ op[p] # "renew" /\ op[p] \in {"takeover", "release", "force"}
    BY <2>2, ActEffect DEF IInv, Rechecked, MayRenew, Shape, Waits, At
  <2>4. op[p] # "takeover" \/ Clears(p)
    <3> SUFFICES ASSUME op[p] = "takeover", ~Clears(p) PROVE FALSE
      OBVIOUS
    <3>1. MayRemove(p) /\ seen[p].written
      BY <2>3 DEF IInv, Rechecked, Judgements, Clears
    <3>2. seen[p].written /\ lock.token = seen[p].token /\ lock.expires = seen[p].expires
      BY <3>1, RawFacts DEF IInv
    <3>3. lock.expires <= now \/ (lock.owner \notin NoPid /\ lock.owner \in dead)
      BY <3>2 DEF IInv, Judgements
    <3> QED
      BY <3>3 DEF Stale, Expired, OwnerDead
  <2>5. op[p] = "release" => lock.owner = p
    BY <2>3 DEF IInv, Rechecked, MayRelease, Owned, Exists
  <2> QED
    BY <2>3, <2>4, <2>5
<1>2. NoTheft <=> [][Spared]_lockVars
  BY DEF NoTheft
<1> QED
  BY <1>1, <1>2, InvariantHolds, PTL DEF LockSpec
=============================================================================
