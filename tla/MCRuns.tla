-------------------------------- MODULE MCRuns --------------------------------
(***************************************************************************)
(* An execution and its gates, side by side.  RunState: two tasks, b       *)
(* depending on a, and one step, the integration.  GateRun: two calls in   *)
(* two worktrees, one of which reads and is restless; two gates of stage   *)
(* full: unit, relaunched and locked, that a task runs targeted, and e2e,  *)
(* whose changed tests are repeated, that depends on it.  A behaviour is   *)
(* one of the part chosen at the start; the other stays where it begins.   *)
(***************************************************************************)
EXTENDS RunState, GateRun, TLC

CONSTANTS a, b, k1, k2, r1, r2, w1, w2, unit, e2e

MCTask == {a, b}
MCDeps == [x \in MCTask |-> IF x = a THEN {} ELSE {a}]
MCIntegration == <<"integration">>
MCCommit == {k1, k2}

MCRunSet == {r1, r2}
MCGates == {unit, e2e}
MCDependsOn == [g \in MCGates |-> IF g = e2e THEN {unit} ELSE {}]

MCSymmetry == Permutations(MCRunSet) \cup Permutations(MCCommit)
-----------------------------------------------------------------------------
VARIABLE part

TheState == part = "state" /\ Next /\ UNCHANGED <<part, gateRunVars>>
TheGates == part = "gates" /\ GateRunNext /\ UNCHANGED <<part, vars>>

(* An execution that is over, for the behaviours of the gates.             *)
MCOver == [Fresh EXCEPT !.status = [x \in Target |-> IF x \in Task THEN "skipped" ELSE "done"]]

RunsInit ==
  /\ GateRunInit
  /\ \/ part = "state" /\ Init
     \/ part = "gates" /\ run = MCOver /\ head = {}
RunsSpec == RunsInit /\ [][TheState \/ TheGates]_<<part, vars, gateRunVars>>
=============================================================================
