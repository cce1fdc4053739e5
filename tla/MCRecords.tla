------------------------------ MODULE MCRecords -------------------------------
(***************************************************************************)
(* A lease lock and a record kept under one, side by side: LeaseLock with  *)
(* three clients, one of which took its lock without a pid, and RunStore   *)
(* with two agents on an execution of one task and two steps (they start   *)
(* the task, finish it with a commit, reopen it, start the delivery and    *)
(* finish it).  A behaviour is one of the part chosen at the start; the    *)
(* other stays where it begins.                                            *)
(***************************************************************************)
EXTENDS LeaseLock, RunStore, TLC

CONSTANTS a, b, c, t, k1, p1, p2

(* The hypothesis of the theorems of LeaseLockProofs.                      *)
ASSUME Punctual

MCProc == {a, b, c}
MCNoPid == {c}

\* Outside of the critical section, the deaths that leave something behind: before
\* the record of the lock file is written, and with the lock held.
MCQuietCrash == {"write", "hold"}
MCLoneCrash == {"inside", "act", "leave"}

MCTask == {t}
MCDeps == [x \in MCTask |-> {}]
MCSteps == <<"integration", "delivery">>
MCAgent == {p1, p2}
MCCall(x, to, note, commit) ==
  <<x, [to |-> to, note |-> note, commit |-> commit, rating |-> FALSE, force |-> FALSE]>>
MCCalls ==
  {MCCall(t, "running", FALSE, NoCommit), MCCall(t, "done", FALSE, k1),
   MCCall(t, "pending", TRUE, NoCommit), MCCall("delivery", "running", FALSE, NoCommit),
   MCCall("delivery", "done", FALSE, NoCommit)}

MCSymmetry == Permutations({a, b})
-----------------------------------------------------------------------------
VARIABLE part

TheLock == part = "lock" /\ LockNext /\ UNCHANGED <<part, vars>>
TheStore == part = "store" /\ Next /\ UNCHANGED <<part, lockVars>>

RecordsInit == part \in {"lock", "store"} /\ LockInit /\ Init
RecordsSpec == RecordsInit /\ [][TheLock \/ TheStore]_<<part, lockVars, vars>>

(* One of them, alone.                                                     *)
LockAloneSpec == part = "lock" /\ RecordsSpec
StoreAloneSpec == part = "store" /\ RecordsSpec
=============================================================================
