---------------------------- MODULE RunStoreProofs ----------------------------
(***************************************************************************)
(* Theorems about RunStore for every execution, every set of agents and    *)
(* calls and every number of writes, whenever leases end: concurrent       *)
(* commands amount to one command after the other up to the first write    *)
(* that comes after its lease was taken over, and what RunState promises   *)
(* of the state holds of the file whatever is written, and by whom.        *)
(*                                                                         *)
(* The inductive invariant: without a late write, whoever is about to      *)
(* write under its lease has read the file as it is (UpToDate), and what   *)
(* was written or committed is not ahead of the file (Behind); an          *)
(* execution that was not started is fresh (Absent); and every content,    *)
(* the one of the file or one that a command read, is sound (Sound): the   *)
(* head only grows, so that an old content is as good as the day it was    *)
(* read.                                                                   *)
(***************************************************************************)
EXTENDS RunStore, TLAPS

RSP == INSTANCE RunStateProofs WITH run <- file.run

UpToDate == ~late => \A p \in Agent : pc[p] = "read" /\ lease = p => copy[p] = file
Absent == ~file.present => file.run = RS!Fresh
Behind ==
  ~late =>
    /\ committed <= file.writes
    /\ \A p \in Agent : pc[p] \in {"leaving", "delivering", "committing"} =>
                          copy[p].writes <= file.writes

Sound(r) == RS!Accounted(r) /\ RS!Justified(r, head)
AllSound == Sound(file.run) /\ \A p \in Agent : Sound(copy[p].run)

IInv == TypeOK /\ UpToDate /\ Absent /\ Behind /\ AllSound

-----------------------------------------------------------------------------
(* RunStateProofs speaks of the same operators as RunStore.                *)

USE DEF RS!Target, RSP!Target, RS!Step, RSP!Step, RS!Status, RSP!Status

(* The assumptions of RunState are those of RunStore.                      *)
LEMMA RunAssumed == RSP!RunAssumption
BY StoreAssumption DEF StoreAssumption, RS!RunAssumption, RSP!RunAssumption

(* What `apv run set` accepts and writes.                                  *)
LEMMA SameSet ==
  /\ RS!Options = RSP!Options /\ RS!RunType = RSP!RunType /\ RS!Fresh = RSP!Fresh
  /\ \A r, h, t, o : /\ RS!AfterSet(r, h, t, o) = RSP!AfterSet(r, h, t, o)
                     /\ RS!Accepts(r, h, t, o) = RSP!Accepts(r, h, t, o)
  /\ \A r, h : /\ RS!Accounted(r) <=> RSP!Accounted(r)
               /\ RS!Justified(r, h) <=> RSP!Justified(r, h)
BY DEF RS!Options, RSP!Options, RS!RunType, RSP!RunType, RS!Fresh, RSP!Fresh,
   RS!Accepts, RSP!Accepts, RS!AfterSet, RSP!AfterSet,
   RS!Transitions, RSP!Transitions, RS!Disturbs, RSP!Disturbs, RS!Recommits, RSP!Recommits,
   RS!NotDone, RSP!NotDone, RS!NotIntegrated, RSP!NotIntegrated, RS!Starts, RSP!Starts,
   RS!Rateable, RSP!Rateable, RS!Accounted, RSP!Accounted, RS!Justified, RSP!Justified

(* The step `apv run next` is at.                                          *)
LEMMA SameCurrentStep == \A r : RS!CurrentStep(r) = RSP!CurrentStep(r)
BY DEF RS!CurrentStep, RSP!CurrentStep, RS!OpenSteps, RSP!OpenSteps, RS!First,
   RSP!First, RS!Finished, RSP!Finished, RS!UnfinishedTasks, RSP!UnfinishedTasks

(* What `apv run next` names.                                              *)
LEMMA SameActions ==
  \A r, h : RS!Actions(r, h) = RSP!Actions(r, h) /\ RS!Pending(r) = RSP!Pending(r)
<1> TAKE r, h
<1>1. RS!Pending(r) = RSP!Pending(r) /\ RS!Blocked(r) = RSP!Blocked(r)
  BY DEF RS!Pending, RSP!Pending, RS!Blocked, RSP!Blocked, RS!NotDone, RSP!NotDone
<1>2. RS!Ready(r, h) = RSP!Ready(r, h) /\ RS!Awaiting(r, h) = RSP!Awaiting(r, h)
  BY <1>1
  DEF RS!Ready, RSP!Ready, RS!Awaiting, RSP!Awaiting, RS!NotIntegrated,
      RSP!NotIntegrated
<1>3. RS!ToIntegrate(r, h) = RSP!ToIntegrate(r, h)
  BY <1>2 DEF RS!ToIntegrate, RSP!ToIntegrate, RS!NotIntegrated, RSP!NotIntegrated
<1>4. RS!UnderWay(r) = RSP!UnderWay(r) /\ RS!ToDecide(r) = RSP!ToDecide(r)
  BY DEF RS!UnderWay, RSP!UnderWay, RS!ToDecide, RSP!ToDecide
<1>5. RS!WaveActions(r, h) = RSP!WaveActions(r, h)
  BY <1>2, <1>3, <1>4
  DEF RS!WaveActions, RSP!WaveActions, RS!NoTaskToName, RSP!NoTaskToName
<1>6. RS!ReviewsToLaunch(r) = RSP!ReviewsToLaunch(r)
  BY DEF RS!ReviewsToLaunch, RSP!ReviewsToLaunch, RS!UnfinishedTasks,
         RSP!UnfinishedTasks, RS!Finished, RSP!Finished
<1>7. RS!StepActions(r, h) = RSP!StepActions(r, h)
  BY <1>5, <1>6, SameCurrentStep DEF RS!StepActions, RSP!StepActions
<1>8. RS!StandingActions(r) = RSP!StandingActions(r)
  BY <1>4 DEF RS!StandingActions, RSP!StandingActions
<1> QED
  BY <1>1, <1>7, <1>8 DEF RS!Actions, RSP!Actions

(* A fresh state and one that was set have the shape of a state.           *)
LEMMA Shapes ==
  /\ RS!Fresh \in RS!RunType
  /\ \A h : \A r \in RS!RunType, t \in RS!Target, o \in RS!Options :
       RS!AfterSet(r, h, t, o) \in RS!RunType
  /\ \A r \in RS!RunType, b \in BOOLEAN : [r EXCEPT !.paused = b] \in RS!RunType
<1>1. RS!Fresh \in RS!RunType
  BY RunAssumed, SameSet, RSP!FreshType
<1>2. ASSUME NEW r \in RS!RunType, NEW h, NEW t \in RS!Target, NEW o \in RS!Options
      PROVE  RS!AfterSet(r, h, t, o) \in RS!RunType
  BY RunAssumed, SameSet, RSP!AfterSetType
<1>3. ASSUME NEW r \in RS!RunType, NEW b \in BOOLEAN
      PROVE  [r EXCEPT !.paused = b] \in RS!RunType
  BY DEF RS!RunType
<1> QED
  BY <1>1, <1>2, <1>3

-----------------------------------------------------------------------------
(* What a command writes.                                                  *)

(* What `set` writes comes of one of the calls it accepts.                 *)
LEMMA SetIsACall ==
  ASSUME NEW r, NEW h, NEW x \in Sets(r, h, Calls)
  PROVE  \E t \in RS!Target, o \in RS!Options :
           RS!Accepts(r, h, t, o) /\ x = RS!AfterSet(r, h, t, o)
<1>1. PICK y \in Calls : RS!Accepts(r, h, y[1], y[2]) /\ x = RS!AfterSet(r, h, y[1], y[2])
  BY Zenon DEF Sets
<1>2. y \in RS!Target \X RS!Options
  BY StoreAssumption DEF StoreAssumption
<1>3. y[1] \in RS!Target /\ y[2] \in RS!Options
  BY <1>2
<1> QED
  BY <1>1, <1>3

(* What a command writes has the shape of a state and rests on finished    *)
(* work, as far as what it read does.                                      *)
LEMMA ChangeIsSound ==
  ASSUME NEW r \in RS!RunType, Sound(r), NEW new \in Changes(r, head)
  PROVE  new \in RS!RunType /\ Sound(new)
<1>1. ASSUME NEW x \in Sets(r, head, Calls), new = x
      PROVE  new \in RS!RunType /\ Sound(new)
  <2>1. PICK t \in RS!Target, o \in RS!Options :
          RS!Accepts(r, head, t, o) /\ x = RS!AfterSet(r, head, t, o)
    BY <1>1, SetIsACall
  <2>2. RS!AfterSet(r, head, t, o) \in RS!RunType
    BY <2>1, Shapes, Zenon
  <2>3. /\ r \in RSP!RunType /\ t \in RSP!Target /\ o \in RSP!Options
        /\ RSP!Accounted(r) /\ RSP!Justified(r, head) /\ RSP!Accepts(r, head, t, o)
    BY <2>1, SameSet DEF Sound
  <2>4. /\ RSP!Accounted(RSP!AfterSet(r, head, t, o))
        /\ RSP!Justified(RSP!AfterSet(r, head, t, o), head)
    BY <2>3, RunAssumed, RSP!SetAccounted, RSP!SetJustified
  <2>5. x = RSP!AfterSet(r, head, t, o)
    BY <2>1, SameSet
  <2>6. RS!Accounted(x) /\ RS!Justified(x, head)
    BY <2>4, <2>5, SameSet
  <2> QED
    BY <1>1, <2>1, <2>2, <2>6 DEF Sound
<1>2. ASSUME NEW b \in BOOLEAN, new = [r EXCEPT !.paused = b]
      PROVE  new \in RS!RunType /\ Sound(new)
  BY <1>2, Shapes DEF Sound, RS!Accounted, RS!Justified, RS!RunType
<1> QED
  BY <1>1, <1>2 DEF Changes

(* A change is one step of RunState on the content it is made of.          *)
LEMMA ChangeIsAStep ==
  ASSUME TypeOK, NEW new \in Changes(file.run, head),
         file'.run = new, UNCHANGED head
  PROVE  [RS!Next]_RS!vars
<1>2. ASSUME NEW x \in Sets(file.run, head, Calls), new = x
      PROVE  [RS!Next]_RS!vars
  <2>1. PICK t \in RS!Target, o \in RS!Options :
          RS!Accepts(file.run, head, t, o) /\ x = RS!AfterSet(file.run, head, t, o)
    BY <1>2, SetIsACall
  <2>2. RS!Set(t, o)
    BY <1>2, <2>1 DEF RS!Set
  <2> QED
    BY <2>2 DEF RS!Next
<1>3. CASE RS!CurrentStep(file.run) # "none" /\ new = [file.run EXCEPT !.paused = TRUE]
  BY <1>3 DEF RS!Next, RS!Pause
<1>4. CASE file.run.paused /\ new = [file.run EXCEPT !.paused = FALSE]
  BY <1>4 DEF RS!Next, RS!Resume
<1>5. CASE new = file.run
  BY <1>5 DEF RS!vars
<1> QED
  BY <1>2, <1>3, <1>4, <1>5 DEF Changes

(* A delivery is a change.                                                 *)
LEMMA DeliveryIsAChange == \A r, h : Deliveries(r, h) \subseteq Changes(r, h)
BY DEF Deliveries, Changes, Sets

(* An execution that is not there, and what is kept of a copy.             *)
LEMMA MissingContent ==
  /\ Missing \in Content /\ Missing.writes = 0 /\ Missing.run = RS!Fresh
  /\ \A n \in 0..MaxWrites : Blank(n) \in Content /\ Blank(n).writes = n /\ Blank(n).run = RS!Fresh
<1>1. RS!Fresh \in RS!RunType /\ 0 \in 0..MaxWrites
  BY Shapes, StoreAssumption DEF StoreAssumption
<1> QED
  BY <1>1 DEF Missing, Blank, Content

(* A fresh state is sound.                                                 *)
LEMMA FreshIsSound == Sound(RS!Fresh)
<1>1. \A t \in Task : t \in RS!Target
  BY DEF RS!Target
<1> QED
  BY <1>1 DEF Sound, RS!Accounted, RS!Justified, RS!Fresh

(* Agent p writes the content `new` over the file.                         *)
Writes(p, new) ==
  /\ pc[p] = "read" /\ copy[p].writes < MaxWrites
  /\ file' = [present |-> TRUE, run |-> new, writes |-> copy[p].writes + 1]
  /\ copy' = [copy EXCEPT ![p] = Blank(copy[p].writes + 1)]
  /\ late' = (late \/ lease # p)
  /\ UNCHANGED <<head, lease, expired, committed>>
  /\ \E where \in {"leaving", "delivering"} : Goto(p, where)

(* What start, the changes and the delivery have in common: a sound        *)
(* content, and one step of RunState if what was read is the file; the     *)
(* first leaves the fresh state as it is.                                  *)
LEMMA Writing ==
  ASSUME TypeOK, AllSound, NEW p \in Agent, Start(p) \/ Change(p) \/ Deliver(p)
  PROVE  \E new \in RS!RunType :
           /\ Writes(p, new) /\ Sound(new)
           /\ copy[p] = file /\ Absent => [RS!Next]_RS!vars
<1>1. pc[p] = "read" /\ copy[p].run \in RS!RunType /\ Sound(copy[p].run)
  BY DEF Start, Change, Deliver, TypeOK, Content, AllSound
<1>2. ASSUME NEW new, Replace(p, new) PROVE file'.run = new /\ UNCHANGED head
  BY <1>2 DEF Replace
<1>3. CASE Start(p)
  <2>1. Writes(p, RS!Fresh)
    BY <1>1, <1>3 DEF Start, Replace, Writes
  <2>2. copy[p] = file /\ Absent => file'.run = file.run /\ UNCHANGED head
    BY <1>2, <1>3 DEF Start, Absent
  <2> QED
    BY <2>1, <2>2, Shapes, FreshIsSound DEF RS!vars
<1>4. ASSUME NEW new \in Changes(copy[p].run, head), Replace(p, new), Writes(p, new)
      PROVE  /\ new \in RS!RunType /\ Writes(p, new) /\ Sound(new)
             /\ copy[p] = file => [RS!Next]_RS!vars
  BY <1>1, <1>2, <1>4, ChangeIsSound, ChangeIsAStep
<1>5. CASE Change(p)
  <2>1. PICK new \in Changes(copy[p].run, head) : Replace(p, new)
    BY <1>5 DEF Change
  <2>2. Writes(p, new)
    BY <1>1, <1>5, <2>1 DEF Change, Replace, Writes
  <2> QED
    BY <1>4, <2>1, <2>2
<1>6. CASE Deliver(p)
  <2>1. PICK new \in Deliveries(copy[p].run, head) : Replace(p, new)
    BY <1>6 DEF Deliver
  <2>2. Writes(p, new) /\ new \in Changes(copy[p].run, head)
    BY <1>1, <1>6, <2>1, DeliveryIsAChange DEF Deliver, Replace, Writes
  <2> QED
    BY <1>4, <2>1, <2>2
<1> QED
  BY <1>3, <1>5, <1>6

-----------------------------------------------------------------------------
(* The invariant.                                                          *)

(* The invariant holds in the initial state.                               *)
LEMMA InitIInv == Init => IInv
<1> SUFFICES ASSUME Init PROVE IInv
  OBVIOUS
<1>1. file = Missing /\ copy = [p \in Agent |-> Missing] /\ pc = [p \in Agent |-> "idle"]
  BY DEF Init
<1>2. TypeOK
  <2>1. file \in Content /\ copy \in [Agent -> Content]
    BY <1>1, MissingContent
  <2>2. head \subseteq Commit /\ lease \in Agent \cup {Nobody} /\ committed \in 0..MaxWrites
    BY StoreAssumption DEF Init, StoreAssumption
  <2>3. expired \in BOOLEAN /\ late \in BOOLEAN
    BY DEF Init
  <2> QED
    BY <1>1, <2>1, <2>2, <2>3 DEF TypeOK
<1>3. UpToDate
  BY <1>1 DEF UpToDate
<1>4. Absent
  BY <1>1, MissingContent DEF Absent
<1>5. Behind
  BY <1>1, MissingContent DEF Behind, Init
<1>6. AllSound
  BY <1>1, MissingContent, FreshIsSound DEF AllSound
<1> QED
  BY <1>2, <1>3, <1>4, <1>5, <1>6 DEF IInv

(* Every step keeps the invariant.                                         *)
LEMMA NextIInv ==
  ASSUME IInv, [Next]_vars
  PROVE  IInv'
<1> USE DEF Goto, Forget
<1>1. MaxWrites \in Nat /\ Nobody \notin Agent
  BY StoreAssumption DEF StoreAssumption
<1>2. /\ file \in Content /\ copy \in [Agent -> Content] /\ file.writes \in Nat
      /\ \A p \in Agent : copy[p].writes \in Nat
      /\ committed \in Nat
  BY <1>1 DEF IInv, TypeOK, Content
<1>3. ASSUME UNCHANGED head, file'.run = file.run,
             \A q \in Agent : copy'[q].run \in {copy[q].run, file.run, RS!Fresh}
      PROVE  AllSound'
  <2>1. \A r : Sound(r) => Sound(r)'
    BY <1>3 DEF Sound, RS!Accounted, RS!Justified
  <2> QED
    BY <1>3, <2>1, FreshIsSound DEF IInv, AllSound, Sound
<1>4. ASSUME NEW p \in Agent, Acquire(p) PROVE IInv'
  BY <1>3, <1>4 DEF Acquire, IInv, TypeOK, UpToDate, Absent, Behind
<1>5. ASSUME NEW p \in Agent, Read(p) PROVE IInv'
  <2>1. AllSound'
    BY <1>2, <1>3, <1>5 DEF Read
  <2> QED
    BY <1>5, <2>1 DEF Read, IInv, TypeOK, UpToDate, Absent, Behind
<1>6. ASSUME NEW p \in Agent, NEW new \in RS!RunType, Writes(p, new), Sound(new) PROVE IInv'
  <2>1. /\ file' \in Content /\ file'.writes = copy[p].writes + 1 /\ file'.present
        /\ file'.run = new /\ copy' \in [Agent -> Content]
        /\ copy'[p].writes = copy[p].writes + 1 /\ copy'[p].run = RS!Fresh
        /\ \A q \in Agent : q # p => copy'[q] = copy[q]
    BY <1>1, <1>2, <1>6, MissingContent DEF Writes, Content
  <2>2. TypeOK'
    BY <1>6, <2>1 DEF Writes, IInv, TypeOK
  <2>3. \A q \in Agent : /\ q # p => pc'[q] = pc[q]
                         /\ pc'[p] \in {"leaving", "delivering"}
    BY <1>6 DEF Writes, IInv, TypeOK
  <2>4. UpToDate'
    BY <1>6, <2>3 DEF Writes, UpToDate
  <2>5. Behind'
    <3>1. SUFFICES ASSUME ~late'
                   PROVE  /\ committed <= copy[p].writes + 1
                          /\ \A q \in Agent :
                               pc'[q] \in {"leaving", "delivering", "committing"} =>
                                 copy'[q].writes <= copy[p].writes + 1
      BY <1>6, <2>1 DEF Writes, Behind
    <3>2. copy[p] = file /\ ~late
      BY <1>6, <3>1 DEF Writes, IInv, UpToDate
    <3>3. committed <= file.writes + 1
      BY <1>2, <3>2 DEF IInv, Behind
    <3>4. ASSUME NEW q \in Agent, pc'[q] \in {"leaving", "delivering", "committing"}
          PROVE  copy'[q].writes <= file.writes + 1
      <4>1. CASE q = p
        BY <1>2, <2>1, <3>2, <4>1
      <4>2. CASE q # p
        BY <1>2, <2>1, <2>3, <3>2, <3>4, <4>2 DEF IInv, Behind
      <4> QED
        BY <4>1, <4>2
    <3> QED
      BY <3>2, <3>3, <3>4
  <2>6. AllSound'
    <3>1. \A r : Sound(r) => Sound(r)'
      BY <1>6 DEF Writes, Sound, RS!Accounted, RS!Justified
    <3>2. Sound(new)' /\ Sound(RS!Fresh)' /\ \A q \in Agent : Sound(copy[q].run)
      BY <1>6, <3>1, FreshIsSound DEF IInv, AllSound
    <3> QED
      BY <2>1, <3>1, <3>2 DEF AllSound
  <2> QED
    BY <2>1, <2>2, <2>4, <2>5, <2>6 DEF IInv, Absent
<1>7. ASSUME NEW p \in Agent, Refuse(p) \/ Release(p) PROVE IInv'
  <2>1. /\ UNCHANGED <<file, head, committed, late>>
        /\ lease' \in Agent \cup {Nobody} /\ expired' \in BOOLEAN
        /\ lease' # lease => lease' = Nobody
        /\ \A q \in Agent : q # p => pc'[q] = pc[q] /\ copy'[q] = copy[q]
        /\ \/ pc'[p] \in {"idle", "leaving"} /\ copy'[p] = Missing
           \/ pc'[p] = "committing" /\ pc[p] = "delivering" /\ copy'[p] = copy[p]
        /\ pc' \in [Agent -> {"idle", "holding", "read", "leaving", "delivering",
                              "committing", "gone"}]
        /\ copy' \in [Agent -> Content]
    BY <1>7, MissingContent DEF Refuse, Release, LetGo, IInv, TypeOK
  <2>2. TypeOK' /\ Absent'
    BY <2>1 DEF IInv, TypeOK, Absent
  <2>3. UpToDate'
    BY <1>1, <2>1 DEF IInv, UpToDate
  <2>4. Behind'
    BY <1>2, <2>1, MissingContent DEF IInv, Behind
  <2>5. AllSound'
    BY <1>3, <2>1, MissingContent
  <2> QED
    BY <2>2, <2>3, <2>4, <2>5 DEF IInv
<1>8. ASSUME NEW p \in Agent, CommitState(p) \/ Save(p) PROVE IInv'
  <2>1. /\ UNCHANGED <<file, head, lease, expired, late>>
        /\ committed' \in {file.writes, committed}
        /\ \A q \in Agent : (pc'[q] = pc[q] /\ copy'[q] = copy[q])
                            \/ (pc'[q] = "idle" /\ copy'[q] = Missing)
        /\ pc' \in [Agent -> {"idle", "holding", "read", "leaving", "delivering",
                              "committing", "gone"}]
        /\ copy' \in [Agent -> Content]
    BY <1>8, MissingContent DEF CommitState, Save, IInv, TypeOK
  <2>2. TypeOK' /\ Absent'
    BY <2>1 DEF IInv, TypeOK, Absent, Content
  <2>3. UpToDate'
    BY <2>1 DEF IInv, UpToDate
  <2>4. Behind'
    BY <1>2, <2>1 DEF IInv, Behind
  <2>5. AllSound'
    BY <1>3, <2>1, MissingContent
  <2> QED
    BY <2>2, <2>3, <2>4, <2>5 DEF IInv
<1>9. ASSUME NEW p \in Agent, Crash(p) PROVE IInv'
  <2>1. AllSound'
    BY <1>2, <1>3, <1>9, MissingContent DEF Crash
  <2> QED
    BY <1>2, <1>9, <2>1, MissingContent
    DEF Crash, IInv, TypeOK, UpToDate, Absent, Behind
<1>10. CASE Expire
  BY <1>3, <1>10 DEF Expire, IInv, TypeOK, UpToDate, Absent, Behind
<1>11. ASSUME NEW c \in Commit, Integrate(c) PROVE IInv'
  <2>1. \A r : Sound(r) => Sound(r)'
    BY <1>11 DEF Integrate, Sound, RS!Accounted, RS!Justified
  <2>2. AllSound'
    BY <1>11, <2>1 DEF Integrate, IInv, AllSound
  <2> QED
    BY <1>11, <2>2 DEF Integrate, IInv, TypeOK, UpToDate, Absent, Behind
<1>12. CASE UNCHANGED vars
  BY <1>3, <1>12 DEF vars, IInv, TypeOK, UpToDate, Absent, Behind
<1>13. ASSUME NEW p \in Agent, Start(p) \/ Change(p) \/ Deliver(p) PROVE IInv'
  BY <1>6, <1>13, Writing DEF IInv
<1> QED
  BY <1>4, <1>5, <1>7, <1>8, <1>9, <1>10, <1>11, <1>12, <1>13 DEF Next

-----------------------------------------------------------------------------
(* The theorems.                                                           *)

(* The invariant holds in every reachable state.                           *)
THEOREM InvariantHolds == Spec => []IInv
<1>1. IInv /\ [Next]_vars => IInv'
  BY NextIInv
<1> QED
  BY <1>1, InitIInv, PTL DEF Spec

(* Every write of the state replaces the very file its command had read,   *)
(* as long as every write came before its lease was taken over.            *)
THEOREM NoUpdateLost == Spec => NoLostUpdate
<1> DEFINE Keeps == \A p \in Agent :
      pc[p] = "read" /\ file' # file /\ pc'[p] # "read" => copy[p] = file \/ late'
<1>1. ASSUME IInv, [Next]_vars PROVE Keeps
  <2>1. ASSUME NEW q \in Agent, Start(q) \/ Change(q) \/ Deliver(q) PROVE Keeps
    <3>1. \A p \in Agent : p # q => pc'[p] = pc[p]
      BY <1>1, <2>1 DEF Start, Change, Deliver, Goto, IInv, TypeOK
    <3>2. late' \/ (lease = q /\ ~late)
      BY <1>1, <2>1 DEF Start, Change, Deliver, Replace, IInv, TypeOK
    <3>3. copy[q] = file \/ late'
      BY <1>1, <2>1, <3>2 DEF IInv, UpToDate, Start, Change, Deliver
    <3> QED
      BY <3>1, <3>3
  <2>2. ASSUME NEW q \in Agent,
               \/ Acquire(q) \/ Read(q) \/ Refuse(q) \/ Release(q) \/ CommitState(q)
               \/ Save(q) \/ Crash(q)
        PROVE  file' = file
    BY <2>2 DEF Acquire, Read, Refuse, Release, CommitState, Save, Crash
  <2>3. ASSUME Expire \/ (\E c \in Commit : Integrate(c)) \/ UNCHANGED vars PROVE file' = file
    BY <2>3 DEF Expire, Integrate, vars
  <2> QED
    BY <1>1, <2>1, <2>2, <2>3 DEF Next
<1> QED
  BY <1>1, InvariantHolds, PTL DEF NoLostUpdate, Spec

(* Commits of the state never go back, and the one of the delivery holds   *)
(* the transition it follows, with the same exception.                     *)
THEOREM CommitsForward == Spec => CommitsMoveForward
<1> DEFINE Forward ==
      /\ committed' >= committed \/ late
      /\ \A p \in Agent : pc[p] = "committing" /\ committed' # committed /\ pc'[p] = "idle"
           => committed' >= copy[p].writes \/ late
<1>1. ASSUME IInv, [Next]_vars PROVE [Forward]_vars
  <2>1. /\ committed \in Nat /\ file.writes \in Nat
        /\ late \/ committed <= file.writes
        /\ \A p \in Agent : pc[p] = "committing" =>
             copy[p].writes \in Nat /\ (late \/ copy[p].writes <= file.writes)
    BY <1>1, StoreAssumption DEF IInv, TypeOK, Content, Behind, StoreAssumption
  <2>2. ASSUME committed' \in {committed, file.writes} PROVE Forward
    BY <2>1, <2>2
  <2>3. ASSUME NEW p \in Agent, Start(p) \/ Change(p) \/ Deliver(p) PROVE committed' = committed
    BY <2>3 DEF Start, Change, Deliver, Replace
  <2>4. ASSUME NEW p \in Agent,
               \/ Acquire(p) \/ Read(p) \/ Refuse(p) \/ Release(p) \/ CommitState(p)
               \/ Save(p) \/ Crash(p)
        PROVE  committed' \in {committed, file.writes}
    BY <2>4 DEF Acquire, Read, Refuse, Release, CommitState, Save, Crash
  <2>5. ASSUME Expire \/ \E c \in Commit : Integrate(c) PROVE committed' = committed
    BY <2>5 DEF Expire, Integrate
  <2> QED
    BY <1>1, <2>2, <2>3, <2>4, <2>5 DEF Next
<1> QED
  BY <1>1, InvariantHolds, PTL DEF CommitsMoveForward, Spec

(* Concurrent commands on the state file implement RunState, up to the     *)
(* first write that comes after its lease was taken over.                  *)
THEOREM Implements == Spec => ImplementsRunState
<1> DEFINE Amounts == ~late' /\ RS!vars' # RS!vars => RS!Next
<1>1. Init => RS!Init
  BY MissingContent DEF Init, RS!Init
<1>2. ASSUME IInv, [Next]_vars PROVE Amounts
  <2>1. ASSUME NEW p \in Agent, Start(p) \/ Change(p) \/ Deliver(p) PROVE Amounts
    <3>1. TypeOK /\ AllSound /\ UpToDate /\ Absent
      BY <1>2 DEF IInv
    <3>2. PICK new \in RS!RunType :
            /\ Writes(p, new) /\ Sound(new)
            /\ copy[p] = file /\ Absent => [RS!Next]_RS!vars
      BY <2>1, <3>1, Writing
    <3>3. ~late' => copy[p] = file
      BY <3>1, <3>2 DEF Writes, UpToDate
    <3> QED
      BY <3>1, <3>2, <3>3
  <2>2. ASSUME NEW p \in Agent,
               \/ Acquire(p) \/ Read(p) \/ Refuse(p) \/ Release(p) \/ CommitState(p)
               \/ Save(p) \/ Crash(p)
        PROVE  UNCHANGED RS!vars
    BY <2>2 DEF Acquire, Read, Refuse, Release, CommitState, Save, Crash, RS!vars
  <2>3. CASE Expire
    BY <2>3 DEF Expire, RS!vars
  <2>4. ASSUME NEW c \in Commit, Integrate(c) PROVE RS!Next
    BY <2>4 DEF Integrate, RS!Next, RS!Integrate
  <2>5. CASE UNCHANGED vars
    BY <2>5 DEF vars, RS!vars
  <2> QED
    BY <1>2, <2>1, <2>2, <2>3, <2>4, <2>5 DEF Next
<1> QED
  BY <1>1, <1>2, InvariantHolds, PTL DEF Spec, ImplementsRunState

(* Whenever leases end, and whatever an old content replaces: in the file  *)
(* a running task is justified, finished work is accounted for, and open   *)
(* waves have work to name.                                                *)
THEOREM FileKeepsItsPromises ==
  Spec => /\ []RS!RunningIsJustified
          /\ []RS!FinishedWorkIsAccounted
          /\ []RS!WavesHaveWork
<1>1. IInv => RS!RunningIsJustified /\ RS!FinishedWorkIsAccounted
  BY DEF IInv, AllSound, Sound, RS!RunningIsJustified, RS!FinishedWorkIsAccounted
<1>2. IInv => RS!WavesHaveWork
  <2>1. SUFFICES ASSUME IInv PROVE RS!HasWork(file.run, head)
    BY DEF RS!WavesHaveWork
  <2>2. file.run \in RSP!RunType
    BY <2>1, SameSet DEF IInv, TypeOK, Content
  <2>3. RSP!HasWork(file.run, head)
    BY <2>2, RunAssumed, RSP!WavesWork
  <2> QED
    BY <2>3, SameCurrentStep, SameActions DEF RS!HasWork, RSP!HasWork
<1> QED
  BY <1>1, <1>2, InvariantHolds, PTL
=============================================================================
