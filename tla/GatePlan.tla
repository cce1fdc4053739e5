------------------------------ MODULE GatePlan -------------------------------
(***************************************************************************)
(* What a run of a plan promises, whatever the scheduler: each gate is     *)
(* executed at most once or refused, never both; it begins only after the  *)
(* success of every gate it depends on; writers run alone, a resource has  *)
(* one user, and at most Concurrency gates run at once.                    *)
(***************************************************************************)
EXTENDS Naturals, FiniteSets

CONSTANTS Gate, Deps, ReadOnly, Uses, Concurrency

VARIABLES
  active,    \* the gates being executed
  outcome,   \* per gate: none, passed, failed, error or refused
  cancelled  \* the run was cancelled

planVars == <<active, outcome, cancelled>>

PlanInit ==
  /\ active = {}
  /\ outcome = [g \in Gate |-> "none"]
  /\ cancelled \in BOOLEAN

Compatible(g, h) ==
  /\ g \in ReadOnly /\ h \in ReadOnly
  /\ Uses[g] \cap Uses[h] = {}

Begin(g) ==
  /\ outcome[g] = "none" /\ g \notin active
  /\ \A d \in Deps[g] : outcome[d] = "passed"
  /\ \A h \in active : Compatible(g, h)
  /\ Cardinality(active) < Concurrency
  /\ active' = active \cup {g}
  /\ UNCHANGED <<outcome, cancelled>>

End(g) ==
  /\ g \in active
  /\ active' = active \ {g}
  /\ \E r \in {"passed", "failed", "error"} : outcome' = [outcome EXCEPT ![g] = r]
  /\ cancelled' \in {cancelled, TRUE}

Refuse(g) ==
  /\ outcome[g] = "none" /\ g \notin active
  /\ cancelled \/ \E d \in Deps[g] : outcome[d] \in {"failed", "refused"}
  /\ outcome' = [outcome EXCEPT ![g] = "refused"]
  /\ UNCHANGED <<active, cancelled>>

Cancel == cancelled' = TRUE /\ UNCHANGED <<active, outcome>>

PlanNext == Cancel \/ \E g \in Gate : Begin(g) \/ End(g) \/ Refuse(g)

PlanSpec == PlanInit /\ [][PlanNext]_planVars
=============================================================================
