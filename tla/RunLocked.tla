------------------------------ MODULE RunLocked ------------------------------
(***************************************************************************)
(* `apv lock run` (src/lock/run.ts, src/commands/lock.ts): take the lock,  *)
(* start the command, renew the lease while it runs, forward the signals,  *)
(* kill after a grace, give an exit code, release.  The lock itself is one *)
(* record here: its file, mutex and queue are LeaseLock and LockQueue.     *)
(*                                                                         *)
(* The command of a caller may itself be an `apv lock run` of the same     *)
(* resource: it inherits APV_LOCK_HELD.                                    *)
(***************************************************************************)
EXTENDS Naturals, FiniteSets

CONSTANTS
  Caller,      \* processes that run `apv lock run`
  Nobody,      \* no caller
  Parent,      \* the caller whose command this one is, or Nobody
  Bounded,     \* those called with timeoutMs (`apv dast run`)
  MaxSignals,  \* bound of the signals sent from outside
  MaxMishaps   \* bound of the leases lapsed, locks forced and callers killed

RunLockedAssumption ==
  /\ IsFiniteSet(Caller) /\ Nobody \notin Caller
  /\ Parent \in [Caller -> Caller \cup {Nobody}]
  /\ \A c, d \in Caller : Parent[c] = Parent[d] /\ Parent[c] # Nobody => c = d
  /\ \A c \in Caller : Parent[c] # c
  /\ Bounded \subseteq Caller /\ MaxSignals \in Nat /\ MaxMishaps \in Nat

VARIABLES
  lock,      \* holder of the lock file, and whether its lease runs
  pc,        \* where each caller is
  command,   \* the process it started
  unhandled, \* callers with a signal not handled yet
  received,  \* callers whose handler ran
  timedOut,  \* callers whose timeoutMs elapsed
  killTimer, \* callers whose grace before SIGKILL is counting
  lost,      \* callers that warned that the lock is no longer theirs
  code,      \* what each call returned
  signals, mishaps

flags == <<unhandled, received, timedOut, killTimer, lost>>
vars == <<lock, pc, command, flags, code, signals, mishaps>>

Free == [holder |-> Nobody, live |-> FALSE]

Init ==
  /\ lock = Free
  /\ pc = [c \in Caller |-> "off"]
  /\ command = [c \in Caller |-> "none"]
  /\ unhandled = {} /\ received = {} /\ timedOut = {} /\ killTimer = {} /\ lost = {}
  /\ code = [c \in Caller |-> "none"]
  /\ signals = 0 /\ mishaps = 0

Inner(c) == {n \in Caller : Parent[n] = c}
Leaf(c) == Inner(c) = {}

(* Held and not stale: the lease runs and the process of the holder lives. *)
Held == lock.holder # Nobody /\ lock.live /\ pc[lock.holder] # "over"

(* The process of c ends; what it started goes on without it.              *)
Over(c, result) ==
  /\ pc' = [pc EXCEPT ![c] = "over"]
  /\ code' = [code EXCEPT ![c] = result]
  /\ unhandled' = unhandled \ {c}

(* spawn: the command, or the nested `apv lock run` that it is.            *)
Starts(c, where) ==
  /\ pc' = [d \in Caller |-> IF d = c THEN where ELSE IF d \in Inner(c) THEN "start" ELSE pc[d]]
  /\ command' = [command EXCEPT ![c] = "running"]

-----------------------------------------------------------------------------
Call(c) ==
  /\ pc[c] = "off" /\ Parent[c] = Nobody
  /\ pc' = [pc EXCEPT ![c] = "waiting"]
  /\ UNCHANGED <<lock, command, flags, code, signals, mishaps>>

(* runCommand, APV_LOCK_HELD: the lock is held, by whomever, and the       *)
(* command starts without it (runUnlocked), or cannot; otherwise the lock  *)
(* is taken again.                                                         *)
Nested(c) ==
  /\ pc[c] = "start"
  /\ \/ Held /\ Starts(c, "bare") /\ UNCHANGED <<code, unhandled>>
     \/ Held /\ Over(c, "no command") /\ UNCHANGED command
     \/ ~Held /\ pc' = [pc EXCEPT ![c] = "waiting"] /\ UNCHANGED <<command, code, unhandled>>
  /\ UNCHANGED <<lock, received, timedOut, killTimer, lost, signals, mishaps>>

(* The acquisition succeeds.  A signal handled while it was under way      *)
(* leaves at once; otherwise the command starts, or cannot (spawn error).  *)
(* No event of the process comes between the two.                          *)
Take(c) ==
  /\ pc[c] = "waiting" /\ ~Held
  /\ lock' = [holder |-> c, live |-> TRUE]
  /\ \/ c \in received /\ pc' = [pc EXCEPT ![c] = "end"]
        /\ code' = [code EXCEPT ![c] = "signal"] /\ UNCHANGED command
     \/ c \notin received /\ Starts(c, "run") /\ UNCHANGED code
     \/ c \notin received /\ pc' = [pc EXCEPT ![c] = "end"]
        /\ code' = [code EXCEPT ![c] = "no command"] /\ UNCHANGED command
  /\ UNCHANGED <<flags, signals, mishaps>>

(* --wait elapsed (75) behind the holder or another waiter, or aborted by  *)
(* a signal.                                                               *)
NotTaken(c) ==
  /\ pc[c] = "waiting"
  /\ \/ /\ Held \/ \E d \in Caller \ {c} : pc[d] = "waiting"
        /\ Over(c, "not held")
     \/ c \in received /\ Over(c, "signal")
  /\ UNCHANGED <<lock, command, received, timedOut, killTimer, lost, signals, mishaps>>

(* From a terminal, a supervisor, or the caller above.                     *)
Signal(c) ==
  /\ pc[c] \notin {"off", "over"} /\ c \notin unhandled /\ signals < MaxSignals
  /\ unhandled' = unhandled \cup {c}
  /\ signals' = signals + 1
  /\ UNCHANGED <<lock, pc, command, received, timedOut, killTimer, lost, code, mishaps>>

(* The handlers of runLocked are there until its finally.                  *)
Handles(c) == pc[c] \in {"waiting", "run"}

\* mutated form of Handle
HandleAndLeave(c) ==
  /\ c \in unhandled /\ pc[c] # "over"
  /\ received' = received \cup {c}
  /\ pc' = [pc EXCEPT ![c] = "end"]
  /\ code' = [code EXCEPT ![c] = "signal"]
  /\ unhandled' = unhandled \ {c}
  /\ UNCHANGED <<lock, command, timedOut, killTimer, lost, signals, mishaps>>

(* onSignal: forwarded to the command if it runs, with a grace.  Without a *)
(* handler (start of the process, runUnlocked, end of runLocked) the       *)
(* process dies of the signal and forwards nothing.                        *)
Handle(c) ==
  /\ c \in unhandled
  /\ \/ /\ Handles(c)
        /\ received' = received \cup {c}
        /\ IF command[c] = "running"
           THEN /\ killTimer' = killTimer \cup {c}
                /\ unhandled' = (unhandled \ {c}) \cup {n \in Inner(c) : pc[n] # "over"}
           ELSE unhandled' = unhandled \ {c} /\ UNCHANGED killTimer
        /\ UNCHANGED <<pc, code>>
     \/ ~Handles(c) /\ Over(c, "signal") /\ UNCHANGED <<received, killTimer>>
  /\ UNCHANGED <<lock, command, timedOut, lost, signals, mishaps>>

Timeout(c) ==
  /\ c \in Bounded \ timedOut /\ pc[c] = "run" /\ command[c] = "running"
  /\ timedOut' = timedOut \cup {c}
  /\ killTimer' = killTimer \cup {c}
  /\ unhandled' = unhandled \cup {n \in Inner(c) : pc[n] # "over"}
  /\ UNCHANGED <<lock, pc, command, received, lost, code, signals, mishaps>>

(* End of the grace: SIGKILL to the process that was started, to it alone. *)
Kill(c) ==
  /\ c \in killTimer /\ pc[c] = "run" /\ command[c] = "running"
  /\ command' = [command EXCEPT ![c] = "killed"]
  /\ pc' = [d \in Caller |-> IF d \in Inner(c) THEN "over" ELSE pc[d]]
  /\ unhandled' = unhandled \ Inner(c)
  /\ UNCHANGED <<lock, received, timedOut, killTimer, lost, code, signals, mishaps>>

(* The command ends by itself, or by the signal forwarded to it; a nested  *)
(* `apv lock run` with its exit code.                                      *)
CommandEnds(c) ==
  /\ command[c] = "running"
  /\ \E how \in {"ok", "failed"} :
       /\ \A n \in Inner(c) : pc[n] = "over" /\ (how = "ok") = (code[n] = "ok")
       /\ command' = [command EXCEPT ![c] = how]
  /\ UNCHANGED <<lock, pc, flags, code, signals, mishaps>>

\* mutated form of ExitCode
ExitCodeOfCommand(c) == IF command[c] = "ok" THEN "ok" ELSE "command"

ExitCode(c) ==
  CASE c \in received -> "signal"
    [] c \notin received /\ c \in timedOut -> "timeout"
    [] OTHER -> IF command[c] = "ok" THEN "ok" ELSE "command"

(* The exit event; then the finally, whose only wait is the release.       *)
Return(c) ==
  /\ command[c] \notin {"none", "running"}
  /\ \/ pc[c] = "run"
        /\ pc' = [pc EXCEPT ![c] = "end"] /\ code' = [code EXCEPT ![c] = ExitCode(c)]
        /\ UNCHANGED unhandled
     \/ pc[c] = "bare" /\ Over(c, IF command[c] = "ok" THEN "ok" ELSE "command")
  /\ UNCHANGED <<lock, command, received, timedOut, killTimer, lost, signals, mishaps>>

(* By the token: of its own lock only.                                     *)
Release(c) ==
  /\ pc[c] = "end"
  /\ lock' = IF lock.holder = c THEN Free ELSE lock
  /\ Over(c, code[c])
  /\ UNCHANGED <<command, received, timedOut, killTimer, lost, signals, mishaps>>

\* mutated form of Renew
RenewSilently(c) ==
  /\ pc[c] = "run" /\ lock.holder = c
  /\ lock' = [lock EXCEPT !.live = TRUE]
  /\ UNCHANGED <<pc, command, flags, code, signals, mishaps>>

(* The heartbeat: the lease starts again, even when it had run out and     *)
(* nobody had noticed; a lock that is not ours any more is reported once.  *)
Renew(c) ==
  /\ pc[c] = "run"
  /\ \/ lock.holder = c /\ lock' = [lock EXCEPT !.live = TRUE] /\ UNCHANGED lost
     \/ lock.holder # c /\ lost' = lost \cup {c} /\ UNCHANGED lock
  /\ UNCHANGED <<pc, command, unhandled, received, timedOut, killTimer, code, signals, mishaps>>

(* A suspended holder lets its lease run out; somebody forces the lock; a  *)
(* caller dies of SIGKILL.                                                 *)
Mishap ==
  /\ mishaps < MaxMishaps
  /\ mishaps' = mishaps + 1
  /\ \/ lock.live /\ lock' = [lock EXCEPT !.live = FALSE] /\ UNCHANGED <<pc, code, unhandled>>
     \/ lock.holder # Nobody /\ lock' = Free /\ UNCHANGED <<pc, code, unhandled>>
     \/ /\ \E c \in Caller : pc[c] \notin {"off", "over"} /\ Over(c, "killed")
        /\ UNCHANGED lock
  /\ UNCHANGED <<command, received, timedOut, killTimer, lost, signals>>

Process(c) ==
  \/ Nested(c) \/ Take(c) \/ NotTaken(c) \/ Handle(c) \/ Timeout(c) \/ Kill(c)
  \/ Return(c) \/ Release(c) \/ Renew(c)

Next == Mishap \/ \E c \in Caller : Call(c) \/ Signal(c) \/ CommandEnds(c) \/ Process(c)

(* The event loop of a live process turns and the kernel delivers: nothing *)
(* is assumed of the commands, which may never end by themselves.          *)
Spec ==
  /\ Init /\ [][Next]_vars
  /\ \A c \in Caller :
       /\ WF_vars(Nested(c)) /\ WF_vars(Take(c)) /\ WF_vars(NotTaken(c))
       /\ WF_vars(Handle(c)) /\ WF_vars(Timeout(c)) /\ WF_vars(Kill(c))
       /\ WF_vars(Return(c)) /\ WF_vars(Release(c)) /\ WF_vars(Renew(c))
       /\ WF_vars(CommandEnds(c) /\ ~Leaf(c))
-----------------------------------------------------------------------------
(* A command that runs, whatever became of the calls above it.             *)
Running(c) == Leaf(c) /\ command[c] = "running"

(* The call c, and those whose command it is part of.                      *)
Line(c) ==
  {d \in Caller : \A S \in SUBSET Caller :
     c \in S /\ (\A e \in S : Parent[e] \in S \cup {Nobody}) => d \in S}

(* A nested call above the command is over and never handled a signal: it  *)
(* may have died of one, for which runUnlocked has no handler.             *)
Unheard(c) == \E d \in Line(c) : Parent[d] # Nobody /\ pc[d] = "over" /\ d \notin received

(* One command at a time under the lock: each further one has a lease that *)
(* ran out, a forced release or a killed caller as its cause, or was left  *)
(* behind by a nested call.                                                *)
OneCommandPerLock ==
  Cardinality({c \in Caller : Running(c)})
    <= 1 + mishaps + Cardinality({c \in Caller : Running(c) /\ Unheard(c)})

(* Only SIGKILL takes a call that is not nested from its command, and a    *)
(* nested one without a signal or a time limit.                            *)
OnlyNestedLeaveBehind ==
  \A c \in Caller : Running(c) /\ pc[c] = "over" =>
    mishaps > 0 \/ (Parent[c] # Nobody /\ (signals > 0 \/ timedOut # {}))

(* `Renvoie le code de sortie de la commande (128 + signal when            *)
(* interrupted)`: success is reported only of a command that ran to its    *)
(* end and was neither interrupted nor stopped by the time limit, and a    *)
(* refusal only when nothing was started.                                  *)
ExitTellsTruth ==
  \A c \in Caller :
    /\ code[c] = "ok" => command[c] = "ok" /\ c \notin received \cup timedOut
    /\ code[c] \in {"not held", "no command"} => command[c] = "none"
    /\ code[c] = "timeout" => c \in Bounded /\ command[c] # "running"

(* A call that is interrupted or out of time ends, whatever its command    *)
(* does; and a call whose lock is gone says so while its command runs.     *)
ToldToEnd(c) == c \in received \cup timedOut
IsOver(c) == pc[c] = "over"
Unprotected(c) == pc[c] = "run" /\ lock.holder # c
SaysSo(c) == c \in lost \/ ~Unprotected(c)
InterruptedCallsEnd ==
  \A c \in Caller : (ToldToEnd(c) ~> IsOver(c)) /\ (Unprotected(c) ~> SaysSo(c))

(* `Le signal est transmis a la commande, puis SIGKILL apres 10 s`: as     *)
(* long as nobody is killed, no command goes on once the call above it is  *)
(* over.                                                                   *)
NoCommandLeftBehind ==
  mishaps = 0 => \A c \in Caller : Running(c) => pc[c] # "over"
=============================================================================
