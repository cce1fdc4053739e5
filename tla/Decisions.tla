------------------------------ MODULE Decisions ------------------------------
(* Three parts that do not interact, side by side: what a full run may     *)
(* leave out (ProofScope), the choice of the checks and what their         *)
(* receipts prove (GateConfig), and the ledger of decisions (Ledger).  A   *)
(* behaviour is one of the part chosen at the start; the variables of the  *)
(* others keep the value Idle.                                             *)
EXTENDS Naturals, Sequences, FiniteSets

CONSTANTS
  ScopeGates, ScopeDependsOn, ScopeLists, ScopeCommits, ScopeAhead,   \* ProofScope
  ConfigChecks, ConfigCommands, ConfigDocuments, ConfigNothing,
  ConfigStacks, ConfigCalls, ConfigOptions, ConfigCommits,            \* GateConfig
  LedgerUsers, LedgerTeams, LedgerUpdates, LedgerContents, LedgerCommits \* Ledger

VARIABLES
  part,
  commits, main, fetched, receipt, head, file, cmd,
  branch, verified, proven, repeated,
  modified, call, receipts,
  designers, tree, reviewed, byHand, overlap, loose

psOnly == <<branch, verified, proven, repeated>>
gcOnly == <<modified, call, receipts>>
lgOnly == <<designers, tree, reviewed, byHand, overlap, loose>>
vars == <<part, commits, main, fetched, receipt, head, file, cmd, psOnly,
          gcOnly, lgOnly>>
-----------------------------------------------------------------------------
PS == INSTANCE ProofScope WITH
        Gate <- ScopeGates, DependsOn <- ScopeDependsOn, Lists <- ScopeLists,
        MaxCommits <- ScopeCommits, MaxAhead <- ScopeAhead
GC == INSTANCE GateConfig WITH
        Id <- ConfigChecks, Command <- ConfigCommands, Document <- ConfigDocuments,
        Nothing <- ConfigNothing, Stack <- ConfigStacks, Call <- ConfigCalls,
        Options <- ConfigOptions, MaxCommits <- ConfigCommits
LG == INSTANCE Ledger WITH
        User <- LedgerUsers, Teams <- LedgerTeams, Updates <- LedgerUpdates,
        Contents <- LedgerContents, MaxCommits <- LedgerCommits

ASSUME DecisionsAssumption ==
  PS!ProofScopeAssumption /\ GC!GateConfigAssumption /\ LG!LedgerAssumption
-----------------------------------------------------------------------------
Idle == "idle"
psIdle == branch = Idle /\ verified = Idle /\ proven = Idle /\ repeated = Idle
gcIdle == modified = Idle /\ call = Idle /\ receipts = Idle
lgIdle ==
  /\ designers = Idle /\ tree = Idle /\ reviewed = Idle /\ byHand = Idle
  /\ overlap = Idle /\ loose = Idle

Init ==
  \/ /\ part = "proof" /\ PS!Init
     /\ head = Idle /\ file = Idle /\ cmd = Idle /\ gcIdle /\ lgIdle
  \/ /\ part = "config" /\ GC!Init
     /\ commits = Idle /\ main = Idle /\ fetched = Idle /\ receipt = Idle
     /\ file = Idle /\ cmd = Idle /\ psIdle /\ lgIdle
  \/ /\ part = "ledger" /\ LG!Init
     /\ main = Idle /\ fetched = Idle /\ receipt = Idle /\ head = Idle
     /\ psIdle /\ gcIdle

StepPS ==
  /\ part = "proof" /\ PS!Next
  /\ UNCHANGED <<part, head, file, cmd, gcOnly, lgOnly>>
StepGC ==
  /\ part = "config" /\ GC!Next
  /\ UNCHANGED <<part, commits, main, fetched, receipt, file, cmd, psOnly,
                  lgOnly>>
StepLG ==
  /\ part = "ledger" /\ LG!Next
  /\ UNCHANGED <<part, main, fetched, receipt, head, psOnly, gcOnly>>

Next == StepPS \/ StepGC \/ StepLG

Spec == Init /\ [][Next]_vars
-----------------------------------------------------------------------------
(* ProofScope and GateConfig: what every check would read on the main      *)
(* branch was read by a run of it that passed, whatever the runs left out  *)
(* as not required; every content of a test file that lands there passed   *)
(* the repetition; and no check runs without what it depends on. Every     *)
(* plan made from an accepted configuration is one the scheduler takes;    *)
(* what is found proven at a commit ran there as declared, and a complete  *)
(* run that passed is found proven.                                        *)
MainIsProven ==
  /\ part = "proof" => PS!MainIsProven /\ PS!LandedTestsWereRepeated /\ PS!NeverWithoutDependencies
  /\ part = "config" => GC!PlansAreSound /\ GC!ProvenRan /\ GC!CompleteRunsProve

(* Ledger: as long as nobody writes under a command that has read the      *)
(* ledger, a decision leaves it only superseded, a confirmed one of the    *)
(* operator only by another of the operator; a commit of the tool is the   *)
(* plan its user read; an edit by hand is neither overwritten nor          *)
(* committed; and the mockup the ledger names is the one in its file.      *)
LedgerKeepsItsWord == part = "ledger" => LG!LedgerKeepsItsWord /\ LG!MockupIsTheOneNamed
=============================================================================
