------------------------------ MODULE Commands -------------------------------
(* Five parts that do not interact, side by side: the queue of a lock      *)
(* (LockQueue), `apv lock run` (RunLocked), the queue of the full suites   *)
(* (SuiteQueue), one command (RunProcess) and the wait for a text in a     *)
(* file (FileWatch).  A behaviour is one of the part chosen at the start;  *)
(* the variables of the others keep the value Idle.                        *)
EXTENDS Naturals, Sequences, FiniteSets

CONSTANTS
  Nobody, MaxMishaps,                                              \* of several parts
  Proc, Owner, NoPid, MaxNaps,                                     \* LockQueue
  Caller, Parent, Bounded, MaxSignals,                             \* RunLocked
  Run, Copy, Main, Pid, Bystanders, MaxProcesses,                  \* SuiteQueue
  Byte, Needle, Chunk, MaxSize                                     \* FileWatch

VARIABLES
  part,
  lock, queue, pc, mishaps,                                        \* of several parts
  asleep, naps,                                                    \* LockQueue
  command, unhandled, received, timedOut, killTimer, lost, code, signals, \* RunLocked
  proc, targets, hit, started,                                     \* SuiteQueue
  waitReady, leader, group, daemon, deaf, pipes, fired, status, hook,
  timers, exitSeen, result,                                        \* RunProcess
  file, offset, tail, late, outcome, rewritten                     \* FileWatch

lqOnly == <<asleep, naps>>
rlOnly == <<command, unhandled, received, timedOut, killTimer, lost, code, signals>>
sqOnly == <<proc, targets, hit, started>>
rpMoves == <<leader, group, daemon, deaf, pipes, fired, status, hook,
             timers, exitSeen, result>>
rpVars == <<waitReady, rpMoves>>
fwVars == <<file, offset, tail, late, outcome, rewritten>>
lqVars == <<lock, queue, pc, lqOnly>>
rlVars == <<lock, pc, mishaps, rlOnly>>
sqVars == <<queue, pc, mishaps, sqOnly>>
commandsVars == <<part, lock, queue, pc, mishaps, lqOnly, rlOnly, sqOnly, rpVars, fwVars>>
-----------------------------------------------------------------------------
LQ == INSTANCE LockQueue
RL == INSTANCE RunLocked
SQ == INSTANCE SuiteQueue
RP == INSTANCE RunProcess
FW == INSTANCE FileWatch

ASSUME CommandsAssumption ==
  /\ LQ!LockQueueAssumption /\ RL!RunLockedAssumption
  /\ SQ!SuiteQueueAssumption /\ FW!FileWatchAssumption
-----------------------------------------------------------------------------
Idle == "idle"
lqIdle == asleep = Idle /\ naps = Idle
rlIdle == /\ command = Idle /\ unhandled = Idle /\ received = Idle /\ timedOut = Idle
          /\ killTimer = Idle /\ lost = Idle /\ code = Idle /\ signals = Idle
sqIdle == proc = Idle /\ targets = Idle /\ hit = Idle /\ started = Idle
rpIdle == /\ waitReady = Idle /\ leader = Idle /\ group = Idle /\ daemon = Idle /\ deaf = Idle
          /\ pipes = Idle /\ fired = Idle /\ status = Idle /\ hook = Idle /\ timers = Idle
          /\ exitSeen = Idle /\ result = Idle
fwIdle == /\ file = Idle /\ offset = Idle /\ tail = Idle
          /\ late = Idle /\ outcome = Idle /\ rewritten = Idle

CommandsInit ==
  \/ /\ part = "queue" /\ LQ!Init
     /\ mishaps = Idle /\ rlIdle /\ sqIdle /\ rpIdle /\ fwIdle
  \/ /\ part = "locked" /\ RL!Init
     /\ queue = Idle /\ lqIdle /\ sqIdle /\ rpIdle /\ fwIdle
  \/ /\ part = "suites" /\ SQ!Init
     /\ lock = Idle /\ lqIdle /\ rlIdle /\ rpIdle /\ fwIdle
  \/ /\ part = "process" /\ RP!Init
     /\ lock = Idle /\ queue = Idle /\ pc = Idle /\ mishaps = Idle
     /\ lqIdle /\ rlIdle /\ sqIdle /\ fwIdle
  \/ /\ part = "file" /\ FW!Init
     /\ lock = Idle /\ queue = Idle /\ pc = Idle /\ mishaps = Idle
     /\ lqIdle /\ rlIdle /\ sqIdle /\ rpIdle

Queue == part = "queue" /\ LQ!Next /\ UNCHANGED <<part, mishaps, rlOnly, sqOnly, rpVars, fwVars>>
Locked == part = "locked" /\ RL!Next /\ UNCHANGED <<part, queue, lqOnly, sqOnly, rpVars, fwVars>>
Suites == part = "suites" /\ SQ!Next /\ UNCHANGED <<part, lock, lqOnly, rlOnly, rpVars, fwVars>>
Process == /\ part = "process" /\ RP!Next
           /\ UNCHANGED <<part, lock, queue, pc, mishaps, lqOnly, rlOnly, sqOnly, fwVars>>
File == /\ part = "file" /\ FW!Next
        /\ UNCHANGED <<part, lock, queue, pc, mishaps, lqOnly, rlOnly, sqOnly, rpVars>>

CommandsNext == Queue \/ Locked \/ Suites \/ Process \/ File

(* The fairness of each part, as its module states it.                     *)
CommandsFairness ==
  /\ WF_lqVars(part = "queue" /\ LQ!Expire)
  /\ \A p \in Proc :
       /\ WF_lqVars(part = "queue" /\ LQ!Look(p))
       /\ WF_lqVars(part = "queue" /\ LQ!Try(p))
       /\ WF_lqVars(part = "queue" /\ LQ!Dequeue(p))
       /\ WF_lqVars(part = "queue" /\ (LQ!Release(p) \/ LQ!Forget(p)))
       /\ WF_lqVars(part = "queue" /\ LQ!Resume(p))
  /\ \A c \in Caller :
       /\ WF_rlVars(part = "locked" /\ RL!Nested(c))
       /\ WF_rlVars(part = "locked" /\ RL!Take(c))
       /\ WF_rlVars(part = "locked" /\ RL!NotTaken(c))
       /\ WF_rlVars(part = "locked" /\ RL!Handle(c))
       /\ WF_rlVars(part = "locked" /\ RL!Timeout(c))
       /\ WF_rlVars(part = "locked" /\ RL!Kill(c))
       /\ WF_rlVars(part = "locked" /\ RL!Return(c))
       /\ WF_rlVars(part = "locked" /\ RL!Release(c))
       /\ WF_rlVars(part = "locked" /\ RL!Renew(c))
       /\ WF_rlVars(part = "locked" /\ RL!CommandEnds(c) /\ ~RL!Leaf(c))
  /\ \A r \in Run :
       WF_sqVars(/\ part = "suites"
                 /\ SQ!EnterQueue(r) \/ SQ!ListPorts(r) \/ SQ!EndGates(r) \/ SQ!ListPortsAgain(r)
                      \/ SQ!Term(r) \/ SQ!Kill(r) \/ SQ!Release(r))
  /\ WF_rpMoves(part = "process" /\ RP!Start) /\ WF_rpMoves(part = "process" /\ RP!Limit)
  /\ WF_rpMoves(part = "process" /\ RP!HardKill) /\ WF_rpMoves(part = "process" /\ RP!OnExit)
  /\ WF_rpMoves(part = "process" /\ RP!PipeGrace) /\ WF_rpMoves(part = "process" /\ RP!Close)

CommandsSpec == CommandsInit /\ [][CommandsNext]_commandsVars /\ CommandsFairness
-----------------------------------------------------------------------------
(* LockQueue: whoever takes the lock overtakes nobody that is waiting,     *)
(* alive and polling.                                                      *)
NoOvertaking == [][part = "queue" => LQ!InTurn]_lqVars

(* RunLocked: one command at a time under the lock, but for a lease that   *)
(* ran out, a forced release, a killed caller or a command left behind by  *)
(* a nested call; no other call leaves its command behind.  Success is     *)
(* reported only of a command that ran to its end, neither interrupted nor *)
(* out of time; a refusal only when nothing was started.                   *)
LockedCommandsAreTold ==
  part = "locked" =>
    RL!OneCommandPerLock /\ RL!OnlyNestedLeaveBehind /\ RL!ExitTellsTruth

(* SuiteQueue: a suite signals only what carries its mark or listens on    *)
(* its ports from its own copy, never the main checkout or the session;    *)
(* and, without a lapsed lease, no server of a suite that still runs.      *)
OnlyItsOwnStopped == part = "suites" => SQ!OnlyItsOwnStopped /\ SQ!LiveSuitesSpared

(* RunProcess: no ordinary child outlives the task, and a task passes only *)
(* if its command ended by itself, with code 0 and before any stop.        *)
TaskEndsClean == part = "process" => RP!TaskEndsClean

(* FileWatch: a text cut by two looks is found; one that is not there is   *)
(* never reported.                                                         *)
NoTextMissed == part = "file" => FW!NoTextMissed

(* LockQueue: a waiter that stays alive gets the lock, unless it gives up; *)
(* crashed and forgotten locks are taken over on the way.                  *)
EveryWaiterServed ==
  part = "queue" =>
    \A p \in Proc : (part = "queue" /\ LQ!Waits(p)) ~> (part = "queue" => LQ!Served(p))

(* RunLocked: a call that is interrupted or out of time ends, whatever its *)
(* command does; one that lost its lock says so while its command runs.    *)
InterruptedCallsEnd ==
  part = "locked" => \A c \in Caller :
    /\ (part = "locked" /\ RL!ToldToEnd(c)) ~> (part = "locked" => RL!IsOver(c))
    /\ (part = "locked" /\ RL!Unprotected(c)) ~> (part = "locked" => RL!SaysSo(c))

(* SuiteQueue: a suite that waits for its turn or for the load starts, or  *)
(* is refused.                                                             *)
SuitesGoOn ==
  part = "suites" =>
    \A r \in Run : (part = "suites" /\ SQ!Queued(r)) ~> (part = "suites" => SQ!Ended(r))

(* RunProcess: a command cancelled, out of time or over gives a result,    *)
(* even with a daemon that holds its pipes.                                *)
TaskEnds ==
  part = "process" => (part = "process" /\ RP!MustEnd) ~> (part = "process" => RP!Resolved)

(* Whatever waits or is told to end does not stay so: a waiter of a lock,  *)
(* a call of `apv lock run`, a queued suite and a command.                 *)
NobodyWaitsForEver ==
  EveryWaiterServed /\ InterruptedCallsEnd /\ SuitesGoOn /\ TaskEnds
=============================================================================
