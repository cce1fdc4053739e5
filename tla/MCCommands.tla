---------------------------- MODULE MCCommands -------------------------------
(***************************************************************************)
(* Instances of the parts of Commands, and, as one more part, of the       *)
(* scheduler that starts the commands of the gates.                        *)
(***************************************************************************)
EXTENDS Commands, GateScheduler

(* Three waiters, two of which record no pid, with three owners; or the    *)
(* two without pid have one owner, as two `apv lock acquire` of one user.  *)
MCOwner == [p \in Proc |-> <<p>>]
OneUser == [p \in Proc |-> p \notin NoPid]

(* n is the command of p; the third call runs with a time limit.           *)
MCParent == [c \in Caller |-> IF c = "n" THEN "p" ELSE Nobody]

(* Two suites of one copy; the editor of the operator runs there as well,  *)
(* and listens on a port of the suite.                                     *)
MCCopy == [r \in Run |-> "copy"]
Editor == {[start |-> 1, cwd |-> "copy", port |-> TRUE, mark |-> Nobody,
            shielded |-> TRUE, deaf |-> FALSE]}

MCNeedle == <<0, 1, 0>>

(* A plan with a chain a <- b <- c whose last gate writes the workspace,   *)
(* two more readers, and one resource shared by d and e.  Three readers    *)
(* are ready together once a has passed, one more than the concurrency.    *)
(* The gates are declared after their dependencies, or before.             *)
MCGate == {"a", "b", "c", "d", "e"}
MCDeps == [g \in MCGate |-> CASE g = "b" -> {"a"} [] g = "c" -> {"b"} [] OTHER -> {}]
MCReadOnly == MCGate \ {"c"}
MCUses == [g \in MCGate |-> IF g \in {"d", "e"} THEN {"db"} ELSE {}]
MCOrder == <<"a", "b", "c", "d", "e">>
MCReversed == <<"c", "b", "a", "e", "d">>
-----------------------------------------------------------------------------
allVars == <<commandsVars, vars>>

NoCommands ==
  /\ lock = Idle /\ queue = Idle /\ pc = Idle /\ mishaps = Idle
  /\ lqIdle /\ rlIdle /\ sqIdle /\ rpIdle /\ fwIdle

(* A plan that is refused before anything else: schedule() has thrown.     *)
NoGates ==
  /\ phase = "thrown" /\ pos = 1 /\ pending = Gate /\ running = {} /\ held = {}
  /\ writer = FALSE /\ raced = {} /\ aborted = FALSE /\ error = "none"
  /\ stage = [g \in Gate |-> "none"] /\ done = [g \in Gate |-> "none"]

AllInit ==
  \/ CommandsInit /\ NoGates
  \/ part = "gates" /\ NoCommands /\ Init

TheCommands == CommandsNext /\ UNCHANGED vars
TheGates == part = "gates" /\ Next /\ UNCHANGED commandsVars

(* Fairness of GateScheduler, of the part that is its own.                 *)
GatesFairness ==
  /\ WF_vars(part = "gates" /\ Scan) /\ WF_vars(part = "gates" /\ (Wake \/ Drained))
  /\ \A g \in Gate :
       WF_vars(part = "gates" /\ Settle(g)) /\ WF_vars(part = "gates" /\ Finalize(g))

AllSpec ==
  AllInit /\ [][TheCommands \/ TheGates]_allVars /\ CommandsFairness /\ GatesFairness

(* One part, alone.                                                        *)
QueueSpec == part = "queue" /\ AllSpec
LockedSpec == part = "locked" /\ AllSpec
GatesSpec == part = "gates" /\ AllSpec

(* `Un verrou perime est repris par le prochain demandeur`.                *)
StaleLockTakenOver == LQ!StaleLockTakenOver

(* `Le signal est transmis a la commande, puis SIGKILL apres 10 s`: no     *)
(* command goes on once the call above it is over.                         *)
NoCommandLeftBehind == part = "locked" => RL!NoCommandLeftBehind
=============================================================================
