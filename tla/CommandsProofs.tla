--------------------------- MODULE CommandsProofs ----------------------------
(* Proofs of the safety properties of Commands, for every value of the     *)
(* constants.  A behaviour is one of the part chosen at the start: the     *)
(* first lemmas say what a step is, seen from each part.                   *)
EXTENDS Commands, FiniteSetTheorems, SequenceTheorems, TLAPS

(* The part does not change.                                               *)
LEMMA PartStays == [CommandsNext]_commandsVars => part' = part
BY DEF CommandsNext, Queue, Locked, Suites, Process, File, commandsVars

(* A step of the whole is one of LockQueue, or leaves it alone.            *)
LEMMA QueueStep == part = "queue" /\ [CommandsNext]_commandsVars => LQ!Next \/ UNCHANGED lqVars
BY DEF CommandsNext, Queue, Locked, Suites, Process, File, commandsVars, lqVars

(* The same for RunLocked.                                                 *)
LEMMA LockedStep == part = "locked" /\ [CommandsNext]_commandsVars => RL!Next \/ UNCHANGED rlVars
BY DEF CommandsNext, Queue, Locked, Suites, Process, File, commandsVars, rlVars

(* The same for SuiteQueue.                                                *)
LEMMA SuitesStep == part = "suites" /\ [CommandsNext]_commandsVars => SQ!Next \/ UNCHANGED sqVars
BY DEF CommandsNext, Queue, Locked, Suites, Process, File, commandsVars, sqVars

(* The same for RunProcess.                                                *)
LEMMA ProcessStep == part = "process" /\ [CommandsNext]_commandsVars => RP!Next \/ UNCHANGED rpVars
BY DEF CommandsNext, Queue, Locked, Suites, Process, File, commandsVars, rpVars

(* The same for FileWatch.                                                 *)
LEMMA FileStep == part = "file" /\ [CommandsNext]_commandsVars => FW!Next \/ UNCHANGED fwVars
BY DEF CommandsNext, Queue, Locked, Suites, Process, File, commandsVars, fwVars
-----------------------------------------------------------------------------
(* RunProcess.  Ordinary children are there only between the start of the  *)
(* command and what follows its exit; a cancellation is always a status.   *)
rpFlags == {group, deaf, hook, fired} \subseteq BOOLEAN
rpInv ==
  /\ leader \in {"off", "absent", "running", "zero", "nonzero", "signalled"}
  /\ status \in {"none", "spawn_error", "cancelled", "timed_out"}
  /\ group => leader \notin {"off", "absent"}
  /\ exitSeen => leader \in {"zero", "nonzero", "signalled"}
  /\ leader # "off" /\ fired => status # "none"
  /\ RP!TaskEndsClean

(* The flags stay Booleans.                                                *)
LEMMA ProcessFlags == ASSUME rpFlags, RP!Next \/ UNCHANGED rpVars PROVE rpFlags'
<1> USE DEF rpFlags
<1>1. CASE RP!Start \/ RP!Ready \/ RP!Fork \/ RP!Exit \/ RP!PipeGrace
  BY <1>1 DEF RP!Start, RP!Ready, RP!Fork, RP!Exit, RP!PipeGrace
<1>2. CASE RP!Abort \/ RP!Limit
  BY <1>2 DEF RP!Abort, RP!Limit, RP!Stop, RP!Sigterm
<1>3. CASE RP!HardKill \/ RP!OnExit \/ RP!Close
  BY <1>3 DEF RP!HardKill, RP!OnExit, RP!Close, RP!Sigkill
<1>4. CASE UNCHANGED rpVars
  BY <1>4 DEF rpVars, rpMoves
<1> QED
  BY <1>1, <1>2, <1>3, <1>4 DEF RP!Next

(* The invariant of RunProcess is inductive.                               *)
LEMMA ProcessInductive ==
  ASSUME rpFlags, rpInv, RP!Next \/ UNCHANGED rpVars PROVE rpInv'
<1> USE DEF rpFlags, rpInv, RP!TaskEndsClean
<1>1. CASE RP!Start
  BY <1>1 DEF RP!Start
<1>2. CASE RP!Ready \/ RP!Fork \/ RP!Exit \/ RP!PipeGrace
  BY <1>2 DEF RP!Ready, RP!Fork, RP!Exit, RP!PipeGrace
<1>3. CASE RP!Abort \/ RP!Limit
  BY <1>3 DEF RP!Abort, RP!Limit, RP!Stop, RP!Sigterm
<1>4. CASE RP!HardKill \/ RP!OnExit
  BY <1>4 DEF RP!HardKill, RP!OnExit, RP!Exited, RP!Sigkill
<1>5. CASE RP!Close
  BY <1>5 DEF RP!Close, RP!Verdict, RP!Sigkill
<1>6. CASE UNCHANGED rpVars
  BY <1>6 DEF rpVars, rpMoves
<1> QED
  BY <1>1, <1>2, <1>3, <1>4, <1>5, <1>6 DEF RP!Next

(* runProcess: no ordinary child outlives the task, and a task passes only *)
(* if its command ended by itself, with code 0, before any stop.           *)
THEOREM TasksEndClean == CommandsSpec => []TaskEndsClean
<1> DEFINE I == part = "process" => rpFlags /\ rpInv
<1>1. CommandsInit => I
  BY DEF CommandsInit, RP!Init, rpFlags, rpInv, RP!TaskEndsClean
<1>2. I /\ [CommandsNext]_commandsVars => I'
  BY PartStays, ProcessStep, ProcessFlags, ProcessInductive
<1>3. I => TaskEndsClean
  BY DEF rpInv, TaskEndsClean
<1> QED
  BY <1>1, <1>2, <1>3, PTL DEF CommandsSpec
-----------------------------------------------------------------------------
(* SuiteQueue.  A process a suite listed is still one it may stop, or its  *)
(* pid has another start; starts are given once.                           *)
Active == {"load", "ports term", "ports kill", "gates", "marked term", "marked kill",
           "ports again", "end term", "end kill", "release"}
MayStop(r, what) ==
  /\ ~what.shielded
  /\ what.mark = r \/ (what.port /\ what.cwd = Copy[r] /\ what.cwd # Main)

sqTypes ==
  /\ pc \in [Run -> Active \cup {"off", "queued", "over", "dead"}]
  /\ mishaps \in Nat /\ started \in Nat
  /\ DOMAIN proc = Pid /\ \A i \in Pid : proc[i].start \in 0..started
  /\ DOMAIN targets = Run
  /\ \A r \in Run : \A t \in targets[r] :
       \E i \in Pid, n \in 1..started : t = <<i, n>>
sqListed ==
  \A r \in Run : \A t \in targets[r] :
    proc[t[1]].start = t[2] => MayStop(r, proc[t[1]])
sqTurn ==
  \A r \in Run : pc[r] # "dead" /\ (pc[r] \in Active => queue.holder = r /\ queue.live)
sqOneSuite ==
  mishaps = 0 => sqTurn
sqInv == sqTypes /\ sqListed /\ sqOneSuite /\ SQ!OnlyItsOwnStopped /\ SQ!LiveSuitesSpared

(* What the suites and the processes around them do to the processes and   *)
(* to the lists: nothing, a process less, a process more with a new start. *)
ProcessesKept ==
  /\ started' = started
  /\ \A i \in Pid : proc'[i] = proc[i] \/ proc'[i] = SQ!Gone
ProcessAdded ==
  /\ started' = started + 1
  /\ \A i \in Pid : proc'[i] = proc[i] \/ proc'[i].start = started + 1
ListsShrink == \A r \in Run : targets'[r] \in {targets[r], {}}

(* The lists of a suite stay right as processes end and start.             *)
LEMMA ListsStayRight ==
  ASSUME sqTypes, sqListed, ProcessesKept \/ ProcessAdded, ListsShrink
  PROVE  sqListed'
<1> SUFFICES ASSUME NEW r \in Run, NEW t \in targets[r], proc'[t[1]].start = t[2]
             PROVE  MayStop(r, proc'[t[1]])
  BY DEF sqListed, ListsShrink
<1>1. PICK i \in Pid, n \in 1..started : t = <<i, n>>
  BY DEF sqTypes
<1>2. started \in Nat /\ t[1] = i /\ t[2] = n /\ n # 0 /\ n # started + 1
  BY <1>1 DEF sqTypes
<1>3. proc'[i] = proc[i]
  BY <1>2 DEF ProcessesKept, ProcessAdded, SQ!Gone
<1> QED
  BY <1>2, <1>3 DEF sqListed

(* Every step of SuiteQueue, but for the ones that list, is of these.      *)
LEMMA SuitesEffect ==
  ASSUME sqTypes, NEW r \in Run
  PROVE  /\ SQ!Term(r) => ProcessesKept /\ UNCHANGED <<targets, queue, mishaps>>
         /\ SQ!Kill(r) => ProcessesKept /\ ListsShrink /\ UNCHANGED <<queue, mishaps>>
         /\ SQ!StartServer(r) => ProcessAdded /\ UNCHANGED <<targets, pc, hit, queue, mishaps>>
<1>1. ASSUME NEW dead, SQ!Dies(dead) PROVE \A i \in Pid : proc'[i] = proc[i] \/ proc'[i] = SQ!Gone
  BY <1>1 DEF SQ!Dies
<1>2. SQ!Term(r) => ProcessesKept /\ UNCHANGED <<targets, queue, mishaps>>
  BY <1>1 DEF SQ!Term, ProcessesKept
<1>3. SQ!Kill(r) => ProcessesKept /\ ListsShrink /\ UNCHANGED <<queue, mishaps>>
  BY <1>1 DEF SQ!Kill, ProcessesKept, ListsShrink, sqTypes
<1>4. SQ!StartServer(r) => ProcessAdded /\ UNCHANGED <<targets, pc, hit, queue, mishaps>>
  BY DEF SQ!StartServer, ProcessAdded, SQ!Server, sqTypes
<1> QED
  BY <1>2, <1>3, <1>4

(* What the exit or the fork of a process changes.                         *)
LEMMA PidsEffect ==
  ASSUME CommandsAssumption, sqTypes, NEW i \in Pid
  PROVE  /\ SQ!Exit(i) => ProcessesKept /\ UNCHANGED <<targets, pc, hit, queue, mishaps>>
         /\ SQ!Fork(i) => ProcessAdded /\ UNCHANGED <<targets, pc, hit, queue, mishaps>>
<1>1. SQ!Exit(i) => ProcessesKept /\ UNCHANGED <<targets, pc, hit, queue, mishaps>>
  BY DEF SQ!Exit, SQ!Dies, ProcessesKept
<1>2. ASSUME NEW b \in Bystanders PROVE [b EXCEPT !.start = started + 1].start = started + 1
  BY DEF CommandsAssumption, SQ!SuiteQueueAssumption, SQ!Fields
<1>3. SQ!Fork(i) => ProcessAdded /\ UNCHANGED <<targets, pc, hit, queue, mishaps>>
  BY <1>2 DEF SQ!Fork, ProcessAdded, sqTypes
<1> QED
  BY <1>1, <1>3

(* What a suite lists is what it may stop.                                 *)
LEMMA Listing ==
  ASSUME sqTypes, sqListed, NEW r \in Run,
         SQ!ListPorts(r) \/ SQ!EndGates(r) \/ SQ!ListPortsAgain(r)
  PROVE  /\ UNCHANGED <<proc, started>>
         /\ \E pids \in SUBSET Pid :
              /\ \A i \in pids : proc[i].start # 0 /\ MayStop(r, proc[i])
              /\ targets' = [targets EXCEPT ![r] = {<<i, proc[i].start>> : i \in pids}]
<1>1. CASE SQ!ListPorts(r) \/ SQ!ListPortsAgain(r)
  <2>1. /\ SQ!Orphans(r) \in SUBSET Pid
        /\ \A i \in SQ!Orphans(r) : proc[i].start # 0 /\ MayStop(r, proc[i])
    BY DEF SQ!Orphans, SQ!Alive, MayStop
  <2> QED
    BY <1>1, <2>1 DEF SQ!ListPorts, SQ!ListPortsAgain, SQ!List
<1>2. CASE SQ!EndGates(r)
  <2>1. /\ SQ!Marked(r) \in SUBSET Pid
        /\ \A i \in SQ!Marked(r) : proc[i].start # 0 /\ MayStop(r, proc[i])
    BY DEF SQ!Marked, SQ!Alive, MayStop
  <2> QED
    BY <1>2, <2>1 DEF SQ!EndGates, SQ!List
<1> QED
  BY <1>1, <1>2

(* The lists name processes of the machine, and what they may stop.        *)
LEMMA ListsAreRight ==
  ASSUME sqTypes, sqListed, NEW r \in Run,
         SQ!ListPorts(r) \/ SQ!EndGates(r) \/ SQ!ListPortsAgain(r)
  PROVE  /\ DOMAIN targets' = Run
         /\ \A q \in Run : \A t \in targets'[q] :
              /\ \E i \in Pid, n \in 1..started : t = <<i, n>>
              /\ proc[t[1]].start = t[2] => MayStop(q, proc[t[1]])
<1>1. PICK pids \in SUBSET Pid :
        /\ \A i \in pids : proc[i].start # 0 /\ MayStop(r, proc[i])
        /\ targets' = [targets EXCEPT ![r] = {<<i, proc[i].start>> : i \in pids}]
  BY Listing
<1>2. DOMAIN targets' = Run
  BY <1>1 DEF sqTypes
<1>3. ASSUME NEW q \in Run, NEW t \in targets'[q], q # r
      PROVE  /\ \E i \in Pid, n \in 1..started : t = <<i, n>>
             /\ proc[t[1]].start = t[2] => MayStop(q, proc[t[1]])
  BY <1>1, <1>3 DEF sqTypes, sqListed
<1>4. ASSUME NEW t \in targets'[r]
      PROVE  /\ \E i \in Pid, n \in 1..started : t = <<i, n>>
             /\ proc[t[1]].start = t[2] => MayStop(r, proc[t[1]])
  <2>1. PICK i \in pids : t = <<i, proc[i].start>>
    BY <1>1, <1>4 DEF sqTypes
  <2>2. proc[i].start \in 1..started
    BY <1>1, <2>1 DEF sqTypes
  <2> QED
    BY <1>1, <2>1, <2>2
<1> QED
  BY <1>2, <1>3, <1>4

(* The steps of a suite that leave processes and lists alone.              *)
Elsewhere ==
  \/ SQ!Mishap
  \/ \E r \in Run : SQ!Ask(r) \/ SQ!EnterQueue(r) \/ SQ!Refused(r) \/ SQ!Cancelled(r)
                    \/ SQ!Release(r) \/ SQ!Renew(r)
  \/ UNCHANGED sqVars
Lists(r) == SQ!ListPorts(r) \/ SQ!EndGates(r) \/ SQ!ListPortsAgain(r)

(* The steps of SuiteQueue, by what they change.                           *)
LEMMA SuitesCases ==
  SQ!Next \/ UNCHANGED sqVars =>
    \/ Elsewhere
    \/ \E i \in Pid : SQ!Exit(i) \/ SQ!Fork(i)
    \/ \E r \in Run : SQ!StartServer(r) \/ Lists(r) \/ SQ!Term(r) \/ SQ!Kill(r)
BY DEF SQ!Next, SQ!Advance, Elsewhere, Lists

(* Processes and lists are out of reach of the rest.                       *)
LEMMA ElsewhereEffect == Elsewhere => UNCHANGED <<proc, targets, started, hit>>
BY DEF Elsewhere, SQ!Mishap, SQ!Ask, SQ!EnterQueue, SQ!Refused, SQ!Cancelled,
       SQ!Release, SQ!Renew, sqVars, sqOnly

(* Where a suite goes from each step.                                      *)
LEMMA SuitesTurns ==
  ASSUME sqTypes, SQ!Next \/ UNCHANGED sqVars
  PROVE  pc' \in [Run -> Active \cup {"off", "queued", "over", "dead"}] /\ mishaps' \in Nat
<1>1. CASE Elsewhere
  <2>1. ASSUME NEW r \in Run,
               SQ!Goto(r, "queued") \/ SQ!Goto(r, "load") \/ SQ!Goto(r, "over")
               \/ SQ!Goto(r, "release") \/ SQ!Goto(r, "dead")
        PROVE  pc' \in [Run -> Active \cup {"off", "queued", "over", "dead"}]
    BY <2>1 DEF SQ!Goto, sqTypes, Active
  <2>2. CASE SQ!Mishap
    BY <2>1, <2>2 DEF SQ!Mishap, sqTypes
  <2>3. ASSUME NEW r \in Run,
               \/ SQ!Ask(r) \/ SQ!EnterQueue(r) \/ SQ!Refused(r) \/ SQ!Cancelled(r)
               \/ SQ!Release(r) \/ SQ!Renew(r)
        PROVE  /\ pc' \in [Run -> Active \cup {"off", "queued", "over", "dead"}]
               /\ mishaps' \in Nat
    BY <2>1, <2>3
    DEF SQ!Ask, SQ!EnterQueue, SQ!Refused, SQ!Cancelled, SQ!Release, SQ!Renew,
        sqTypes
  <2> QED
    BY <1>1, <2>2, <2>3 DEF Elsewhere, sqVars, sqOnly, sqTypes
<1>2. ASSUME NEW i \in Pid, SQ!Exit(i) \/ SQ!Fork(i) PROVE UNCHANGED <<pc, mishaps>>
  BY <1>2 DEF SQ!Exit, SQ!Fork
<1>3. ASSUME NEW r \in Run, SQ!StartServer(r) PROVE UNCHANGED <<pc, mishaps>>
  BY <1>3 DEF SQ!StartServer
<1>4. ASSUME NEW r \in Run, Lists(r)
      PROVE  mishaps' = mishaps /\ pc' \in [Run -> Active \cup {"off", "queued", "over", "dead"}]
  BY <1>4
  DEF Lists, SQ!ListPorts, SQ!EndGates, SQ!ListPortsAgain, SQ!Goto, sqTypes,
      Active
<1>5. ASSUME NEW r \in Run, SQ!Term(r)
      PROVE  mishaps' = mishaps /\ pc' \in [Run -> Active \cup {"off", "queued", "over", "dead"}]
  <2>1. SQ!AfterTerm(pc[r]) \in Active
    BY <1>5 DEF SQ!Term, SQ!AfterTerm, Active
  <2> QED
    BY <1>5, <2>1 DEF SQ!Term, SQ!Goto, sqTypes
<1>6. ASSUME NEW r \in Run, SQ!Kill(r)
      PROVE  mishaps' = mishaps /\ pc' \in [Run -> Active \cup {"off", "queued", "over", "dead"}]
  <2>1. SQ!AfterKill(pc[r]) \in Active
    BY <1>6 DEF SQ!Kill, SQ!AfterKill, Active
  <2> QED
    BY <1>6, <2>1 DEF SQ!Kill, SQ!Goto, sqTypes
<1> QED
  BY <1>1, <1>2, <1>3, <1>4, <1>5, <1>6, SuitesCases DEF sqTypes

(* The processes, and the lists of the suites.                             *)
LEMMA ProcessesStep ==
  ASSUME CommandsAssumption, sqTypes, sqListed, SQ!Next \/ UNCHANGED sqVars
  PROVE  sqTypes' /\ sqListed'
<1>1. ASSUME ProcessesKept \/ ProcessAdded, ListsShrink, DOMAIN proc' = Pid, DOMAIN targets' = Run
      PROVE  sqTypes' /\ sqListed'
  <2>1. started' \in Nat /\ started <= started'
    BY <1>1 DEF ProcessesKept, ProcessAdded, sqTypes
  <2>2. \A i \in Pid : proc'[i].start \in 0..started'
    BY <1>1, <2>1 DEF ProcessesKept, ProcessAdded, sqTypes, SQ!Gone
  <2>3. ASSUME NEW r \in Run, NEW t \in targets'[r]
        PROVE  \E i \in Pid, n \in 1..started' : t = <<i, n>>
    <3>1. PICK i \in Pid, n \in 1..started : t = <<i, n>>
      BY <1>1, <2>3 DEF ListsShrink, sqTypes
    <3> QED
      BY <2>1, <3>1 DEF sqTypes
  <2>4. sqTypes'
    BY <1>1, <2>1, <2>2, <2>3, SuitesTurns DEF sqTypes
  <2> QED
    BY <1>1, <2>4, ListsStayRight
<1>2. CASE Elsewhere
  BY <1>1, <1>2, ElsewhereEffect DEF ProcessesKept, ListsShrink, sqTypes
<1>3. ASSUME NEW i \in Pid, SQ!Exit(i) \/ SQ!Fork(i) PROVE sqTypes' /\ sqListed'
  <2>1. DOMAIN proc' = Pid
    BY <1>3 DEF SQ!Exit, SQ!Fork, SQ!Dies, sqTypes
  <2> QED
    BY <1>1, <1>3, <2>1, PidsEffect DEF ListsShrink, sqTypes
<1>4. ASSUME NEW r \in Run, SQ!StartServer(r) \/ SQ!Term(r) \/ SQ!Kill(r)
      PROVE  sqTypes' /\ sqListed'
  <2>1. DOMAIN proc' = Pid /\ DOMAIN targets' = Run
    BY <1>4 DEF SQ!StartServer, SQ!Term, SQ!Kill, SQ!Dies, sqTypes
  <2> QED
    BY <1>1, <1>4, <2>1, SuitesEffect DEF ListsShrink
<1>5. ASSUME NEW r \in Run, Lists(r) PROVE sqTypes' /\ sqListed'
  <2>1. UNCHANGED <<proc, started>>
    BY <1>5, Listing DEF Lists
  <2>2. /\ DOMAIN targets' = Run
        /\ \A q \in Run : \A t \in targets'[q] :
              /\ \E i \in Pid, n \in 1..started : t = <<i, n>>
              /\ proc[t[1]].start = t[2] => MayStop(q, proc[t[1]])
    BY <1>5, ListsAreRight DEF Lists
  <2> QED
    BY <2>1, <2>2, SuitesTurns DEF sqTypes, sqListed
<1> QED
  BY <1>2, <1>3, <1>4, <1>5, SuitesCases

(* One suite at a time, without mishap: the lease is that of the suite     *)
(* between the load and the end.                                           *)
LEMMA OneSuiteStep ==
  ASSUME CommandsAssumption, sqTypes, sqOneSuite, SQ!Next \/ UNCHANGED sqVars
  PROVE  sqOneSuite'
<1> SUFFICES ASSUME mishaps' = 0
             PROVE  sqTurn'
  BY DEF sqOneSuite, sqTurn
<1> USE DEF sqTurn
<1>0. mishaps = 0 /\ ~SQ!Mishap
  <2>1. SQ!Mishap => mishaps' = mishaps + 1
    BY DEF SQ!Mishap
  <2>2. SQ!Next /\ ~SQ!Mishap => mishaps' = mishaps
    BY DEF SQ!Next, SQ!Exit, SQ!Fork, SQ!Ask, SQ!Refused, SQ!Cancelled,
           SQ!StartServer,
           SQ!Advance, SQ!EnterQueue, SQ!ListPorts, SQ!EndGates, SQ!ListPortsAgain, SQ!Term,
           SQ!Kill, SQ!Release, SQ!Renew
  <2>3. UNCHANGED sqVars => mishaps' = mishaps
    BY DEF sqVars
  <2> QED
    BY <2>1, <2>2, <2>3 DEF sqTypes
<1>1. sqTurn
  BY <1>0 DEF sqOneSuite, sqTurn
<1>2. ASSUME queue' = queue, NEW r \in Run, pc[r] \in Active,
             NEW where \in Active, SQ!Goto(r, where)
      PROVE  sqTurn'
  BY <1>1, <1>2 DEF SQ!Goto, sqTypes, Active
<1>3. ASSUME queue' = queue, pc' = pc
      PROVE  sqTurn'
  BY <1>1, <1>3
<1>4. ASSUME queue' = queue, NEW r \in Run, SQ!Goto(r, "queued") \/ SQ!Goto(r, "over")
      PROVE  sqTurn'
  BY <1>1, <1>4 DEF SQ!Goto, sqTypes, Active
<1>5. CASE Elsewhere
  <2>1. ASSUME NEW r \in Run, SQ!EnterQueue(r)
        PROVE  sqTurn'
    <3>1. \A q \in Run : pc[q] \notin Active
      BY <1>1, <2>1
      DEF SQ!EnterQueue, SQ!Held, CommandsAssumption, SQ!SuiteQueueAssumption
    <3> QED
      BY <1>1, <2>1, <3>1 DEF SQ!EnterQueue, SQ!Goto, sqTypes, Active
  <2>2. ASSUME NEW r \in Run, SQ!Release(r)
        PROVE  sqTurn'
    <3>1. \A q \in Run : pc[q] \in Active => q = r
      BY <1>1, <2>2 DEF SQ!Release, Active
    <3> QED
      BY <1>1, <2>2, <3>1 DEF SQ!Release, SQ!Goto, sqTypes, Active
  <2>3. ASSUME NEW r \in Run, SQ!Renew(r)
        PROVE  sqTurn'
    <3>1. pc' = pc /\ \A q \in Run : pc[q] \in Active => q = r
      BY <1>1, <2>3 DEF SQ!Renew
    <3> QED
      BY <1>1, <2>3, <3>1 DEF SQ!Renew
  <2>4. ASSUME NEW r \in Run, SQ!Cancelled(r)
        PROVE  sqTurn'
    BY <1>2, <2>4 DEF SQ!Cancelled, Active
  <2>5. ASSUME NEW r \in Run, SQ!Ask(r) \/ SQ!Refused(r)
        PROVE  sqTurn'
    BY <1>4, <2>5 DEF SQ!Ask, SQ!Refused
  <2> QED
    BY <1>0, <1>3, <1>5, <2>1, <2>2, <2>3, <2>4, <2>5 DEF Elsewhere, sqVars, sqOnly
<1>6. ASSUME NEW i \in Pid, SQ!Exit(i) \/ SQ!Fork(i) PROVE UNCHANGED <<queue, pc>>
  BY <1>6 DEF SQ!Exit, SQ!Fork
<1>7. ASSUME NEW r \in Run, SQ!StartServer(r) PROVE UNCHANGED <<queue, pc>>
  BY <1>7 DEF SQ!StartServer
<1>8. ASSUME NEW r \in Run, Lists(r)
      PROVE  sqTurn'
  BY <1>2, <1>8
  DEF Lists, SQ!ListPorts, SQ!Loaded, SQ!EndGates, SQ!ListPortsAgain, Active
<1>9. ASSUME NEW r \in Run, SQ!Term(r) \/ SQ!Kill(r)
      PROVE  sqTurn'
  <2>1. CASE SQ!Term(r)
    <3>1. pc[r] \in Active /\ SQ!AfterTerm(pc[r]) \in Active
      BY <2>1 DEF SQ!Term, SQ!AfterTerm, Active
    <3> QED
      BY <1>2, <2>1, <3>1 DEF SQ!Term
  <2>2. CASE SQ!Kill(r)
    <3>1. pc[r] \in Active /\ SQ!AfterKill(pc[r]) \in Active
      BY <2>2 DEF SQ!Kill, SQ!AfterKill, Active
    <3> QED
      BY <1>2, <2>2, <3>1 DEF SQ!Kill
  <2> QED
    BY <1>9, <2>1, <2>2
<1> QED
  BY <1>3, <1>5, <1>6, <1>7, <1>8, <1>9, SuitesCases

(* What is signalled at the end of a wait is what was listed, or nothing.  *)
LEMMA HitsStep ==
  ASSUME CommandsAssumption, sqInv, SQ!Next \/ UNCHANGED sqVars
  PROVE  SQ!OnlyItsOwnStopped' /\ SQ!LiveSuitesSpared'
<1>1. ASSUME hit' = hit, mishaps' = mishaps \/ mishaps' = mishaps + 1
      PROVE  SQ!OnlyItsOwnStopped' /\ SQ!LiveSuitesSpared'
  <2>1. mishaps' = 0 => mishaps = 0
    BY <1>1 DEF sqInv, sqTypes
  <2> QED
    BY <1>1, <2>1 DEF sqInv, SQ!OnlyItsOwnStopped, SQ!LiveSuitesSpared
<1>2. ASSUME NEW r \in Run, SQ!Hit(r), pc[r] \in Active, mishaps' = mishaps
      PROVE  SQ!OnlyItsOwnStopped' /\ SQ!LiveSuitesSpared'
  <2>1. ASSUME NEW h \in hit', h \notin hit
        PROVE  /\ h.by = r /\ MayStop(r, h.what)
               /\ h.suite = IF h.what.mark \in Run THEN pc[h.what.mark] ELSE "none"
    BY <1>2, <2>1 DEF SQ!Hit, SQ!Signalled, SQ!Same, sqInv, sqListed
  <2>2. SQ!OnlyItsOwnStopped'
    BY <2>1 DEF sqInv, SQ!OnlyItsOwnStopped, MayStop
  <2>3. ASSUME NEW h \in hit', h \notin hit, mishaps = 0, h.what.mark # h.by
        PROVE  h.suite \notin {"gates", "marked term", "marked kill"}
    <3>1. CASE h.what.mark \in Run
      BY <1>2, <2>1, <2>3, <3>1 DEF sqInv, sqOneSuite, sqTurn, Active
    <3> QED
      BY <2>1, <2>3, <3>1
  <2>4. SQ!LiveSuitesSpared'
    BY <1>2, <2>3 DEF sqInv, SQ!LiveSuitesSpared
  <2> QED
    BY <2>2, <2>4
<1>3. CASE Elsewhere
  <2>1. mishaps' = mishaps \/ mishaps' = mishaps + 1
    BY <1>3
    DEF Elsewhere, SQ!Mishap, SQ!Ask, SQ!EnterQueue, SQ!Refused, SQ!Cancelled,
        SQ!Release,
       SQ!Renew, sqVars
  <2> QED
    BY <1>1, <1>3, <2>1, ElsewhereEffect
<1>4. ASSUME NEW i \in Pid, SQ!Exit(i) \/ SQ!Fork(i) PROVE UNCHANGED <<hit, mishaps>>
  BY <1>4 DEF SQ!Exit, SQ!Fork
<1>5. ASSUME NEW r \in Run, SQ!StartServer(r) \/ Lists(r) PROVE UNCHANGED <<hit, mishaps>>
  BY <1>5 DEF SQ!StartServer, Lists, SQ!ListPorts, SQ!EndGates, SQ!ListPortsAgain
<1>6. ASSUME NEW r \in Run, SQ!Term(r) \/ SQ!Kill(r)
      PROVE  SQ!Hit(r) /\ pc[r] \in Active /\ mishaps' = mishaps
  BY <1>6 DEF SQ!Term, SQ!Kill, Active
<1> QED
  BY <1>1, <1>2, <1>3, <1>4, <1>5, <1>6, SuitesCases

(* The operators of FiniteSets, seen from SuiteQueue.                      *)
LEMMA SameCardinality ==
  \A T : SQ!Cardinality(T) = Cardinality(T) /\ (SQ!IsFiniteSet(T) <=> IsFiniteSet(T))
BY DEF SQ!Cardinality, Cardinality, SQ!IsFiniteSet, IsFiniteSet

(* SuiteQueue: a suite signals only what carries its mark or listens on    *)
(* its ports from its own copy, never the main checkout or the session;    *)
(* and, without a lapsed lease, no server of a suite that still runs.      *)
THEOREM SuitesStopTheirOwn == CommandsSpec => []OnlyItsOwnStopped
<1> DEFINE I == part = "suites" => sqInv
<1>1. CommandsInit => I
  <2> SUFFICES ASSUME part = "suites", SQ!Init PROVE sqInv
    BY DEF CommandsInit
  <2>0. /\ IsFiniteSet(Bystanders) /\ Cardinality(Bystanders) \in Nat
        /\ \A b \in Bystanders : b.start \in 1..Cardinality(Bystanders)
    BY CommandsAssumption, SameCardinality, FS_CardinalityType
       DEF CommandsAssumption, SQ!SuiteQueueAssumption
  <2>1. PICK place \in [Bystanders -> Pid] :
             proc = [i \in Pid |-> IF \E b \in Bystanders : place[b] = i
                                   THEN CHOOSE b \in Bystanders : place[b] = i ELSE SQ!Gone]
    BY DEF SQ!Init
  <2>2. \A i \in Pid : proc[i].start \in 0..Cardinality(Bystanders)
    <3> TAKE i \in Pid
    <3>1. proc[i] \in Bystanders \/ proc[i] = SQ!Gone
      BY <2>1
    <3> QED
      BY <2>0, <3>1 DEF SQ!Gone
  <2>3. sqTypes /\ sqListed
    BY <2>0, <2>1, <2>2, SameCardinality DEF SQ!Init, sqTypes, sqListed
  <2>4. sqOneSuite /\ SQ!OnlyItsOwnStopped /\ SQ!LiveSuitesSpared
    BY DEF SQ!Init, sqOneSuite, sqTurn, SQ!OnlyItsOwnStopped,
           SQ!LiveSuitesSpared, Active
  <2> QED
    BY <2>3, <2>4 DEF sqInv
<1>2. I /\ [CommandsNext]_commandsVars => I'
  BY CommandsAssumption, PartStays, SuitesStep, ProcessesStep, OneSuiteStep,
     HitsStep DEF sqInv
<1>3. I => OnlyItsOwnStopped
  BY DEF sqInv, OnlyItsOwnStopped
<1> QED
  BY <1>1, <1>2, <1>3, PTL DEF CommandsSpec
-----------------------------------------------------------------------------
(* LockQueue.  Callers have owners of their own: two `apv lock acquire` of *)
(* one user have not, and are apart (docs/LOCKS.md).                       *)
DistinctOwners == \A p, q \in Proc : Owner[p] = Owner[q] => p = q

(* Who is ahead of a caller about to try has the lock, or died with it.    *)
lqRecord == lock = [by |-> lock.by, stale |-> lock.stale]
lqTypes ==
  /\ pc \in [Proc -> {"out", "waiting", "try", "taken", "working", "gone"}]
  /\ lock.by \in Proc \cup {Nobody}
  /\ DOMAIN queue \subseteq Proc
  /\ \A p \in DOMAIN queue : queue[p] \subseteq DOMAIN queue \ {p}
lqHolder == lock.by # Nobody => pc[lock.by] \in {"taken", "working", "gone"}
lqTickets == \A p \in Proc : pc[p] \in {"out", "working"} => p \notin DOMAIN queue
lqFirst ==
  \A p, q \in Proc : pc[p] = "try" /\ LQ!Ahead(q, p) => pc[q] \in {"taken", "gone"}
lqInv == lqTypes /\ lqHolder /\ lqTickets /\ lqFirst

(* The record of the lock stays one, and only Try and Release change its   *)
(* owner.                                                                  *)
LEMMA LockRecordStep ==
  ASSUME lqRecord, LQ!Next \/ UNCHANGED lqVars
  PROVE  lqRecord'
<1>1. CASE LQ!Expire
  BY <1>1 DEF LQ!Expire, lqRecord
<1>2. ASSUME NEW p \in Proc, LQ!Try(p) PROVE lqRecord'
  BY <1>2 DEF LQ!Try, lqRecord
<1>3. ASSUME NEW p \in Proc, LQ!Release(p) PROVE lqRecord'
  BY <1>3 DEF LQ!Release, LQ!Free, lqRecord
<1>4. ASSUME NEW p \in Proc, LQ!Crash(p) PROVE lqRecord'
  BY <1>4 DEF LQ!Crash, lqRecord
<1>5. ASSUME UNCHANGED lqVars \/ \E p \in Proc :
               \/ LQ!Arrive(p) \/ LQ!Look(p) \/ LQ!Dequeue(p) \/ LQ!Timeout(p)
               \/ LQ!Forget(p) \/ LQ!Suspend(p) \/ LQ!Resume(p)
      PROVE  lqRecord'
  <2>1. lock' = lock
    BY <1>5
    DEF lqVars, LQ!Arrive, LQ!Look, LQ!Dequeue, LQ!Timeout, LQ!Forget,
        LQ!Suspend,
       LQ!Resume
  <2> QED
    BY <2>1 DEF lqRecord
<1> QED
  BY <1>1, <1>2, <1>3, <1>4, <1>5 DEF LQ!Next

(* A turn of the loop of a waiter.                                         *)
LEMMA LookStep ==
  ASSUME CommandsAssumption, DistinctOwners, lqInv, NEW p \in Proc, LQ!Look(p)
  PROVE  lqInv'
<1> DEFINE tailed == LQ!RequeueAtTail(p)
<1>1. /\ pc[p] = "waiting" /\ p \notin LQ!Lapsed /\ lock' = lock
      /\ queue' = LQ!Without(tailed, LQ!Lapsed)
      /\ pc' = pc \/ (pc' = [pc EXCEPT ![p] = "try"] /\ queue'[p] \subseteq LQ!HolderTickets)
  BY DEF LQ!Look, LQ!At, LQ!Goto, LQ!Lapsed
<1>2. /\ DOMAIN tailed = DOMAIN queue \cup {p}
      /\ \A q \in DOMAIN tailed : tailed[q] \subseteq DOMAIN queue \ {q}
      /\ \A q \in DOMAIN queue : tailed[q] = queue[q]
  BY DEF LQ!RequeueAtTail, LQ!AtTail, lqInv, lqTypes
<1>3. /\ DOMAIN queue' = (DOMAIN queue \cup {p}) \ LQ!Lapsed
      /\ \A q \in DOMAIN queue' : queue'[q] = tailed[q] \ LQ!Lapsed
  BY <1>1, <1>2 DEF LQ!Without
<1> HIDE DEF tailed
<1>4. lqTypes'
  BY <1>1, <1>2, <1>3 DEF lqInv, lqTypes
<1>5. lqHolder' /\ lqTickets'
  BY <1>1, <1>3 DEF lqInv, lqTypes, lqHolder, lqTickets
<1>6. ASSUME NEW q \in Proc, q \in queue'[p], queue'[p] \subseteq LQ!HolderTickets
      PROVE  pc'[q] = "taken"
  <2>1. q \in LQ!HolderTickets /\ q \in DOMAIN queue /\ q \notin LQ!Lapsed /\ q # p
    BY <1>1, <1>2, <1>3, <1>6
  <2>2. q = lock.by /\ lock.by # Nobody
    BY <2>1 DEF LQ!HolderTickets, DistinctOwners, lqInv, lqTypes
  <2> QED
    BY <1>1, <2>1, <2>2 DEF lqInv, lqTypes, lqHolder, lqTickets, LQ!Lapsed
<1>7. ASSUME NEW r \in Proc, NEW q \in Proc, r # p, pc'[r] = "try",
             r \in DOMAIN queue', q \in queue'[r]
      PROVE  pc'[q] \in {"taken", "gone"}
  <2>1. pc[r] = "try" /\ r \in DOMAIN queue /\ q \in queue[r]
    BY <1>1, <1>2, <1>3, <1>7 DEF lqInv, lqTypes
  <2>2. pc[q] \in {"taken", "gone"}
    BY <2>1 DEF lqInv, lqFirst, LQ!Ahead
  <2> QED
    BY <1>1, <2>2 DEF lqInv, lqTypes
<1>8. lqFirst'
  BY <1>1, <1>6, <1>7 DEF lqFirst, LQ!Ahead, lqInv, lqTypes
<1> QED
  BY <1>4, <1>5, <1>8 DEF lqInv

(* The invariant of LockQueue is inductive.                                *)
LEMMA QueueInductive ==
  ASSUME CommandsAssumption, DistinctOwners, lqRecord, lqInv, LQ!Next \/ UNCHANGED lqVars
  PROVE  lqInv'
<1>0. Nobody \notin Proc
  BY DEF CommandsAssumption, LQ!LockQueueAssumption
<1> USE DEF lqInv, lqTypes, lqHolder, lqTickets, lqFirst, LQ!Ahead
<1>1. ASSUME LQ!Expire \/ UNCHANGED lqVars \/ \E p \in Proc : LQ!Suspend(p) \/ LQ!Resume(p)
      PROVE  lqInv'
  <2>1. UNCHANGED <<queue, pc>> /\ lock'.by = lock.by
    BY <1>1 DEF LQ!Expire, LQ!Suspend, LQ!Resume, lqVars, lqRecord
  <2> QED
    BY <2>1
<1>2. ASSUME NEW p \in Proc, LQ!Arrive(p) PROVE lqInv'
  BY <1>2 DEF LQ!Arrive, LQ!At, LQ!Goto, LQ!AtTail
<1>3. ASSUME NEW p \in Proc, LQ!Try(p) PROVE lqInv'
  BY <1>0, <1>3 DEF LQ!Try, LQ!At, LQ!Goto
<1>4. ASSUME NEW p \in Proc, LQ!Dequeue(p) \/ LQ!Timeout(p) PROVE lqInv'
  BY <1>4 DEF LQ!Dequeue, LQ!Timeout, LQ!At, LQ!Goto, LQ!Without
<1>5. ASSUME NEW p \in Proc, LQ!Release(p) PROVE lqInv'
  BY <1>5 DEF LQ!Release, LQ!At, LQ!Goto, LQ!Free
<1>6. ASSUME NEW p \in Proc, LQ!Forget(p) \/ LQ!Crash(p) PROVE lqInv'
  <2>1. UNCHANGED queue /\ lock'.by = lock.by /\ pc' = [pc EXCEPT ![p] = "gone"]
    BY <1>6 DEF LQ!Forget, LQ!Crash, LQ!Goto, lqRecord
  <2> QED
    BY <2>1
<1> QED
  BY <1>1, <1>2, <1>3, <1>4, <1>5, <1>6, LookStep DEF LQ!Next

(* LockQueue: whoever takes the lock overtakes nobody that waits, alive    *)
(* and polling, when every caller has an owner of its own.                 *)
THEOREM NobodyIsOvertaken == ASSUME DistinctOwners PROVE CommandsSpec => NoOvertaking
<1> DEFINE I == part = "queue" => lqRecord /\ lqInv
<1>1. CommandsInit => I
  BY DEF CommandsInit, LQ!Init, LQ!Free, lqRecord, lqInv, lqTypes, lqHolder,
         lqTickets,
         lqFirst, LQ!Ahead
<1>2. I /\ [CommandsNext]_commandsVars => I'
  BY CommandsAssumption, PartStays, QueueStep, QueueInductive, LockRecordStep
<1>3. I /\ [CommandsNext]_commandsVars => [part = "queue" => LQ!InTurn]_lqVars
  BY DEF lqInv, lqFirst, LQ!InTurn, LQ!Lapsed
<1> QED
  BY <1>1, <1>2, <1>3, PTL DEF CommandsSpec, NoOvertaking
-----------------------------------------------------------------------------
(* RunLocked.  The calls of which a command is part, from the innermost to *)
(* the one that is nested in none.                                         *)
LEMMA LineClosed ==
  ASSUME CommandsAssumption, NEW c \in Caller
  PROVE  /\ c \in RL!Line(c) /\ RL!Line(c) \subseteq Caller
         /\ \A e \in RL!Line(c) : Parent[e] # Nobody => Parent[e] \in RL!Line(c)
BY DEF CommandsAssumption, RL!RunLockedAssumption, RL!Line

LEMMA LineLeast ==
  ASSUME NEW c \in Caller, NEW S \in SUBSET Caller, c \in S,
         \A e \in S : Parent[e] # Nobody => Parent[e] \in S
  PROVE  RL!Line(c) \subseteq S
BY DEF RL!Line

(* Two calls of a line: the command of one is part of the other's.         *)
LEMMA LineOrdered ==
  ASSUME CommandsAssumption, NEW c \in Caller, NEW a \in RL!Line(c), NEW b \in RL!Line(c)
  PROVE  a \in RL!Line(b) \/ b \in RL!Line(a)
<1> DEFINE L == RL!Line(c)
           T == {x \in L : \A y \in L : y \in RL!Line(x) \/ x \in RL!Line(y)}
<1>1. L \subseteq Caller /\ T \subseteq Caller /\ c \in T
  BY LineClosed
<1>2. ASSUME NEW x \in T, Parent[x] # Nobody PROVE Parent[x] \in T
  <2>1. x \in L /\ x \in Caller /\ Parent[x] \in L /\ Parent[x] \in Caller
    BY <1>1, <1>2, LineClosed
  <2>2. RL!Line(x) \subseteq {x} \cup RL!Line(Parent[x])
    <3>1. /\ Parent[x] \in RL!Line(Parent[x]) /\ RL!Line(Parent[x]) \subseteq Caller
          /\ \A e \in RL!Line(Parent[x]) :
               Parent[e] # Nobody => Parent[e] \in RL!Line(Parent[x])
      BY <2>1, LineClosed
    <3> DEFINE S == {x} \cup RL!Line(Parent[x])
    <3>2. S \in SUBSET Caller /\ x \in S /\ \A e \in S : Parent[e] # Nobody => Parent[e] \in S
      BY <2>1, <3>1
    <3> HIDE DEF S
    <3>3. RL!Line(x) \subseteq S
      BY <2>1, <3>2, LineLeast
    <3> QED
      BY <3>3 DEF S
  <2>3. ASSUME NEW y \in L PROVE y \in RL!Line(Parent[x]) \/ Parent[x] \in RL!Line(y)
    <3>1. y \in RL!Line(x) \/ x \in RL!Line(y)
      BY <1>2
    <3>2. x \in RL!Line(y) => Parent[x] \in RL!Line(y)
      BY <1>1, <1>2, LineClosed
    <3>3. x \in RL!Line(x)
      BY <2>1, LineClosed
    <3> QED
      BY <2>2, <3>1, <3>2, <3>3
  <2> QED
    BY <2>1, <2>3
<1>3. L \subseteq T
  <2> HIDE DEF T
  <2> QED
    BY <1>1, <1>2, LineLeast
<1> QED
  BY <1>3

LEMMA LineChild ==
  ASSUME CommandsAssumption, NEW c \in Caller, NEW a \in RL!Line(c), a # c
  PROVE  \E b \in RL!Line(c) : Parent[b] = a
<1> DEFINE S == RL!Line(c) \ {a}
<1>1. SUFFICES ASSUME \A b \in RL!Line(c) : Parent[b] # a PROVE FALSE
  OBVIOUS
<1>2. S \in SUBSET Caller /\ c \in S /\ \A e \in S : Parent[e] # Nobody => Parent[e] \in S
  BY <1>1, LineClosed
<1> HIDE DEF S
<1>3. RL!Line(c) \subseteq S
  BY <1>2, LineLeast
<1> QED
  BY <1>3 DEF S

(* A call above all the others of its line, and those it is nested above.  *)
LEMMA LineRoot ==
  ASSUME CommandsAssumption, NEW c \in Caller, NEW r \in RL!Line(c), Parent[r] = Nobody,
         NEW a \in RL!Line(c)
  PROVE  r \in RL!Line(a)
<1>1. r \in Caller /\ {r} \in SUBSET Caller
  BY LineClosed
<1>2. RL!Line(r) \subseteq {r}
  BY <1>1, LineLeast
<1> QED
  BY <1>1, <1>2, LineOrdered, LineClosed

(* A call that starts no other is the last of its line.                    *)
LEMMA OneLeaf ==
  ASSUME CommandsAssumption, NEW c \in Caller, NEW d \in Caller, RL!Leaf(c), RL!Leaf(d),
         NEW e, e \in RL!Line(c), e \in RL!Line(d)
  PROVE  c = d
<1>0. /\ \A a, b \in Caller : Parent[a] = Parent[b] /\ Parent[a] # Nobody => a = b
      /\ \A a \in Caller : Parent[a] # c /\ Parent[a] # d
      /\ RL!Line(c) \subseteq Caller /\ RL!Line(d) \subseteq Caller
  BY LineClosed
     DEF CommandsAssumption, RL!RunLockedAssumption, RL!Leaf, RL!Inner
<1>1. c \in RL!Line(d)
  <2>1. SUFFICES ASSUME c \notin RL!Line(d) PROVE FALSE
    OBVIOUS
  <2> DEFINE S == RL!Line(c) \ RL!Line(d)
  <2>2. S \in SUBSET Caller /\ c \in S
    BY <1>0, <2>1, LineClosed
  <2>3. ASSUME NEW x \in S, Parent[x] # Nobody PROVE Parent[x] \in S
    <3>1. x \in Caller /\ Parent[x] \in RL!Line(c)
      BY <2>2, <2>3, LineClosed
    <3>2. Parent[x] \notin RL!Line(d)
      BY <1>0, <2>3, <3>1, LineChild
    <3> QED
      BY <3>1, <3>2
  <2> HIDE DEF S
  <2>4. RL!Line(c) \subseteq S
    BY <2>2, <2>3, LineLeast
  <2> QED
    BY <2>4 DEF S
<1> QED
  BY <1>0, <1>1, LineChild

rlTypes ==
  /\ pc \in [Caller -> {"off", "start", "waiting", "bare", "run", "end", "over"}]
  /\ command \in [Caller -> {"none", "running", "ok", "failed", "killed"}]
  /\ code \in [Caller -> {"none", "ok", "command", "signal", "timeout", "killed",
                          "not held", "no command"}]
  /\ timedOut \subseteq Bounded
  /\ lock = [holder |-> lock.holder, live |-> lock.live]

(* What the place of a call says of its command, of its code and of the    *)
(* call above it.                                                          *)
rlPlace(c) ==
  /\ pc[c] \in {"off", "start", "waiting"} => command[c] = "none" /\ code[c] = "none"
  /\ pc[c] \in {"run", "bare"} => command[c] # "none" /\ code[c] = "none"
  /\ pc[c] \in {"off", "start", "bare"} => c \notin received \cup timedOut
  /\ pc[c] \in {"start", "bare"} => Parent[c] # Nobody
  /\ pc[c] = "end" => command[c] # "running"
  /\ c \in unhandled => pc[c] # "off"
rlAbove(c) ==
  Parent[c] # Nobody =>
    /\ pc[c] \notin {"off", "over"} => command[Parent[c]] = "running"
    /\ pc[c] = "off" <=> command[Parent[c]] = "none"
rlTruth(c) ==
  /\ code[c] = "ok" => command[c] = "ok" /\ c \notin received \cup timedOut
  /\ code[c] \in {"not held", "no command"} => command[c] = "none"
  /\ code[c] = "timeout" => c \in Bounded /\ command[c] # "running"
rlCall(c) == rlPlace(c) /\ rlAbove(c) /\ rlTruth(c)

(* A call that had to take the lock although it was nested is not one of   *)
(* the holder, nor of what the holder started.                             *)
Took(c) == command[c] # "none" /\ (pc[c] = "run" \/ c \in received)
rlHolder(c) == Took(c) => lock.holder = c \/ lock.holder \notin RL!Line(c)

(* A call that is over while its command runs was killed, or is nested and *)
(* was sent a signal.                                                      *)
rlSignals ==
  /\ mishaps \in Nat /\ signals \in Nat
  /\ unhandled \cup received \cup killTimer # {} => signals > 0 \/ timedOut # {}
rlLeft(c) ==
  pc[c] = "over" /\ command[c] = "running" =>
    mishaps > 0 \/ (Parent[c] # Nobody /\ (signals > 0 \/ timedOut # {}))

(* The calls whose command runs, or may start, without the lock, those     *)
(* left behind by a nested call apart.                                     *)
Guarded(c) == RL!Held /\ lock.holder \in RL!Line(c) /\ Parent[lock.holder] = Nobody
Strays ==
  {c \in Caller : /\ RL!Leaf(c) /\ ~RL!Unheard(c) /\ ~Guarded(c)
                  /\ \E x \in RL!Line(c) : command[x] = "running"}
rlInv ==
  /\ rlTypes /\ \A c \in Caller : rlCall(c) /\ rlHolder(c) /\ rlLeft(c)
  /\ rlSignals /\ Cardinality(Strays) <= mishaps

(* The steps of RunLocked keep the types of its variables.                 *)
LEMMA LockedTypes ==
  ASSUME CommandsAssumption, rlTypes, RL!Next \/ UNCHANGED rlVars
  PROVE  rlTypes'
<1> USE DEF rlTypes
<1>1. ASSUME UNCHANGED rlVars \/ \E c \in Caller : RL!Signal(c) PROVE rlTypes'
  <2>1. UNCHANGED <<lock, pc, command, timedOut, code>>
    BY <1>1 DEF rlVars, rlOnly, RL!Signal
  <2> QED
    BY <2>1
<1>2. ASSUME NEW c \in Caller, RL!Call(c) \/ RL!Nested(c) PROVE rlTypes'
  <2>1. CASE RL!Call(c)
    BY <2>1 DEF RL!Call, RL!flags
  <2>2. CASE RL!Nested(c)
    <3>1. /\ UNCHANGED <<lock, timedOut>>
          /\ command' = command \/ command' = [command EXCEPT ![c] = "running"]
          /\ code' = code \/ code' = [code EXCEPT ![c] = "no command"]
      BY <2>2 DEF RL!Nested, RL!Starts, RL!Over
    <3>2. pc' \in [Caller -> {"off", "start", "waiting", "bare", "run", "end", "over"}]
      BY ZenonT(60), <2>2 DEF RL!Nested, RL!Starts, RL!Over
    <3> QED
      BY <3>1, <3>2
  <2> QED
    BY <1>2, <2>1, <2>2
<1>3. ASSUME NEW c \in Caller, RL!Take(c) PROVE rlTypes'
  <2>1. /\ lock' = [holder |-> c, live |-> TRUE] /\ timedOut' = timedOut
        /\ code' = code \/ code' = [code EXCEPT ![c] = "signal"]
                        \/ code' = [code EXCEPT ![c] = "no command"]
        /\ command' = command \/ command' = [command EXCEPT ![c] = "running"]
    BY <1>3 DEF RL!Take, RL!Starts, RL!flags
  <2>2. pc' \in [Caller -> {"off", "start", "waiting", "bare", "run", "end", "over"}]
    BY ZenonT(60), <1>3 DEF RL!Take, RL!Starts, RL!flags
  <2> QED
    BY <2>1, <2>2
<1>4. ASSUME NEW c \in Caller, RL!NotTaken(c) \/ RL!Handle(c) PROVE rlTypes'
  <2>1. UNCHANGED <<lock, command, timedOut>>
    BY <1>4 DEF RL!NotTaken, RL!Handle
  <2>2. /\ pc' = pc \/ pc' = [pc EXCEPT ![c] = "over"]
        /\ code' = code \/ code' = [code EXCEPT ![c] = "signal"]
                        \/ code' = [code EXCEPT ![c] = "not held"]
    BY <1>4 DEF RL!NotTaken, RL!Handle, RL!Over
  <2> QED
    BY <2>1, <2>2
<1>5. ASSUME NEW c \in Caller, RL!Timeout(c) \/ RL!Kill(c) \/ RL!CommandEnds(c) PROVE rlTypes'
  <2>1. /\ UNCHANGED <<lock, code>>
        /\ pc' = pc \/ pc' = [d \in Caller |-> IF d \in RL!Inner(c) THEN "over" ELSE pc[d]]
        /\ \/ timedOut' = timedOut
           \/ c \in Bounded /\ timedOut' = timedOut \cup {c}
        /\ command' = command \/ \E how \in {"ok", "failed", "killed"} :
                                    command' = [command EXCEPT ![c] = how]
    BY <1>5 DEF RL!Timeout, RL!Kill, RL!CommandEnds, RL!flags
  <2> QED
    BY <2>1
<1>6. ASSUME NEW c \in Caller, RL!Return(c) PROVE rlTypes'
  <2>1. RL!ExitCode(c) \in {"signal", "timeout", "ok", "command"}
    BY DEF RL!ExitCode
  <2>2. /\ UNCHANGED <<lock, command, timedOut>>
        /\ pc' = [pc EXCEPT ![c] = "end"] \/ pc' = [pc EXCEPT ![c] = "over"]
        /\ \E what \in {"signal", "timeout", "ok", "command"} : code' = [code EXCEPT ![c] = what]
    BY <1>6, <2>1 DEF RL!Return, RL!Over
  <2> QED
    BY ZenonT(60), <2>2
<1>7. ASSUME NEW c \in Caller, RL!Release(c) PROVE rlTypes'
  <2>1. /\ UNCHANGED <<command, timedOut>> /\ pc' = [pc EXCEPT ![c] = "over"]
        /\ code' = [code EXCEPT ![c] = code[c]]
        /\ lock' = RL!Free \/ lock' = lock
    BY <1>7 DEF RL!Release, RL!Over
  <2> QED
    BY <2>1 DEF RL!Free
<1>8. ASSUME NEW c \in Caller, RL!Renew(c) PROVE rlTypes'
  BY <1>8 DEF RL!Renew
<1>9. ASSUME RL!Mishap PROVE rlTypes'
  <2>1. UNCHANGED <<command, timedOut>>
    BY <1>9 DEF RL!Mishap
  <2>2. \/ UNCHANGED <<pc, code>>
        \/ \E c \in Caller : RL!Over(c, "killed")
    BY <1>9 DEF RL!Mishap
  <2>3. lock' = lock \/ lock' = RL!Free \/ lock' = [lock EXCEPT !.live = FALSE]
    BY <1>9 DEF RL!Mishap
  <2>4. /\ pc' \in [Caller -> {"off", "start", "waiting", "bare", "run", "end", "over"}]
        /\ code' \in [Caller -> {"none", "ok", "command", "signal", "timeout", "killed",
                                 "not held", "no command"}]
    BY <2>2 DEF RL!Over
  <2> QED
    BY <2>1, <2>3, <2>4 DEF RL!Free
<1> QED
  BY <1>1, <1>2, <1>3, <1>4, <1>5, <1>6, <1>7, <1>8, <1>9 DEF RL!Next, RL!Process

(* The steps of RunLocked keep what the place of a call says.              *)
LEMMA LockedCalls ==
  ASSUME CommandsAssumption, rlTypes, \A c \in Caller : rlCall(c),
         RL!Next \/ UNCHANGED rlVars, NEW d \in Caller
  PROVE  rlCall(d)'
<1> DEFINE above == Parent[d]
<1>0. /\ Nobody \notin Caller
      /\ above = Parent[d] /\ (above # Nobody => above \in Caller /\ above # d)
      /\ \A c \in Caller : c # above => d \notin RL!Inner(c)
      /\ above # Nobody => d \in RL!Inner(above)
      /\ d \notin RL!Inner(d)
  BY DEF CommandsAssumption, RL!RunLockedAssumption, RL!Inner
<1>a. rlCall(d) /\ (above # Nobody => rlCall(above))
  BY <1>0
<1> HIDE DEF above
<1>b. rlAbove(d) <=> (above # Nobody =>
          /\ pc[d] \notin {"off", "over"} => command[above] = "running"
          /\ pc[d] = "off" <=> command[above] = "none")
  BY DEF rlAbove, above
<1>c. rlAbove(d)' <=> (above # Nobody =>
          /\ pc'[d] \notin {"off", "over"} => command'[above] = "running"
          /\ pc'[d] = "off" <=> command'[above] = "none")
  BY DEF rlAbove, above
<1> USE <1>0, <1>a, <1>b, <1>c DEF rlTypes, rlCall, rlPlace, rlTruth
<1>1. ASSUME UNCHANGED rlVars \/ \E c \in Caller : RL!Signal(c) PROVE rlCall(d)'
  <2>1. UNCHANGED <<lock, pc, command, received, timedOut, code>>
    BY <1>1 DEF rlVars, rlOnly, RL!Signal
  <2>2. d \in unhandled' => d \in unhandled \/ pc[d] # "off"
    BY <1>1 DEF rlVars, rlOnly, RL!Signal
  <2> QED
    BY <2>1, <2>2
<1>2. ASSUME NEW c \in Caller, RL!Call(c) PROVE rlCall(d)'
  <2>1. /\ UNCHANGED <<lock, command, received, timedOut, code, unhandled>>
        /\ pc[c] = "off" /\ (c = d => above = Nobody)
        /\ pc' = [pc EXCEPT ![c] = "waiting"]
    BY <1>2 DEF RL!Call, RL!flags, above
  <2> QED
    BY <2>1
<1>3. ASSUME NEW c \in Caller, RL!Nested(c) PROVE rlCall(d)'
  <2>1. pc[c] = "start" /\ UNCHANGED <<lock, received, timedOut>>
    BY <1>3 DEF RL!Nested
  <2>2. CASE RL!Starts(c, "bare") /\ UNCHANGED <<code, unhandled>>
    BY ZenonT(60), <2>1, <2>2 DEF RL!Starts
  <2>3. CASE pc' = [pc EXCEPT ![c] = "waiting"] /\ UNCHANGED <<command, code, unhandled>>
    BY <2>1, <2>3
  <2>4. CASE RL!Over(c, "no command") /\ UNCHANGED command
    BY ZenonT(60), <2>1, <2>4 DEF RL!Over
  <2> QED
    BY <1>3, <2>2, <2>3, <2>4 DEF RL!Nested
<1>4. ASSUME NEW c \in Caller, RL!Take(c) PROVE rlCall(d)'
  <2>1. pc[c] = "waiting" /\ lock'.holder = c /\ UNCHANGED <<received, timedOut, unhandled>>
    BY <1>4 DEF RL!Take, RL!flags
  <2>2. CASE c \notin received /\ RL!Starts(c, "run") /\ UNCHANGED code
    BY ZenonT(60), <2>1, <2>2 DEF RL!Starts
  <2>3. CASE /\ c \in received \/ c \notin received
             /\ pc' = [pc EXCEPT ![c] = "end"] /\ UNCHANGED command
             /\ \E what \in {"signal", "no command"} : code' = [code EXCEPT ![c] = what]
    BY ZenonT(60), <2>1, <2>3
  <2> QED
    BY <1>4, <2>2, <2>3 DEF RL!Take
<1>5. ASSUME NEW c \in Caller, RL!NotTaken(c) PROVE rlCall(d)'
  <2>1. /\ pc[c] = "waiting" /\ UNCHANGED <<lock, command, received, timedOut>>
        /\ pc' = [pc EXCEPT ![c] = "over"] /\ unhandled' = unhandled \ {c}
        /\ \E what \in {"signal", "not held"} : code' = [code EXCEPT ![c] = what]
    BY <1>5 DEF RL!NotTaken, RL!Over
  <2> QED
    BY ZenonT(60), <2>1
<1>6. ASSUME NEW c \in Caller, RL!Handle(c) PROVE rlCall(d)'
  <2>1. UNCHANGED <<lock, command, timedOut>>
    BY <1>6 DEF RL!Handle
  <2>2. CASE pc[c] \in {"waiting", "run"}
    <3>1. received' = received \cup {c} /\ UNCHANGED <<pc, code>>
      BY <1>6, <2>2 DEF RL!Handle, RL!Handles
    <3>2. d \in unhandled' => d \in unhandled \/ (command[c] = "running" /\ d \in RL!Inner(c))
      BY <1>6, <2>2 DEF RL!Handle, RL!Handles
    <3> QED
      BY <2>1, <2>2, <3>1, <3>2
  <2>3. CASE pc[c] \notin {"waiting", "run"}
    <3>1. /\ received' = received /\ pc' = [pc EXCEPT ![c] = "over"]
          /\ code' = [code EXCEPT ![c] = "signal"]
          /\ c \in unhandled /\ unhandled' = unhandled \ {c}
      BY <1>6, <2>3 DEF RL!Handle, RL!Handles, RL!Over
    <3> QED
      BY ZenonT(60), <2>1, <2>3, <3>1
  <2> QED
    BY <2>2, <2>3
<1>7. ASSUME NEW c \in Caller, RL!Timeout(c) PROVE rlCall(d)'
  <2>1. /\ pc[c] = "run" /\ UNCHANGED <<lock, pc, command, received, code>>
        /\ timedOut' = timedOut \cup {c} /\ command[c] = "running"
        /\ d \in unhandled' => d \in unhandled \/ d \in RL!Inner(c)
    BY <1>7 DEF RL!Timeout
  <2> QED
    BY <2>1
<1>8. ASSUME NEW c \in Caller, RL!Kill(c) PROVE rlCall(d)'
  <2>1. /\ pc[c] = "run" /\ command[c] = "running"
        /\ UNCHANGED <<lock, received, timedOut, code>>
        /\ command' = [command EXCEPT ![c] = "killed"] /\ unhandled' = unhandled \ RL!Inner(c)
        /\ pc'[d] = IF d \in RL!Inner(c) THEN "over" ELSE pc[d]
    BY <1>8 DEF RL!Kill
  <2> QED
    BY ZenonT(60), <2>1
<1>9. ASSUME NEW c \in Caller, RL!CommandEnds(c) PROVE rlCall(d)'
  <2>1. /\ command[c] = "running" /\ (d \in RL!Inner(c) => pc[d] = "over")
        /\ UNCHANGED <<lock, pc, received, timedOut, code, unhandled>>
        /\ \E how \in {"ok", "failed"} : command' = [command EXCEPT ![c] = how]
    BY <1>9 DEF RL!CommandEnds, RL!flags
  <2> QED
    BY ZenonT(60), <2>1
<1>10. ASSUME NEW c \in Caller, RL!Return(c) PROVE rlCall(d)'
  <2>1. command[c] \notin {"none", "running"} /\ UNCHANGED <<lock, command, received, timedOut>>
    BY <1>10 DEF RL!Return
  <2>2. CASE pc[c] = "run"
    <3>1. /\ pc' = [pc EXCEPT ![c] = "end"] /\ code' = [code EXCEPT ![c] = RL!ExitCode(c)]
          /\ unhandled' = unhandled
      BY <1>10, <2>2 DEF RL!Return
    <3>2. /\ RL!ExitCode(c) \in {"signal", "timeout", "ok", "command"}
          /\ RL!ExitCode(c) = "ok" => command[c] = "ok" /\ c \notin received \cup timedOut
          /\ RL!ExitCode(c) = "timeout" => c \in timedOut
      BY DEF RL!ExitCode
    <3> QED
      BY ZenonT(60), <2>1, <2>2, <3>1, <3>2
  <2>3. CASE pc[c] = "bare"
    <3>1. /\ pc' = [pc EXCEPT ![c] = "over"] /\ unhandled' = unhandled \ {c}
          /\ code' = [code EXCEPT ![c] = IF command[c] = "ok" THEN "ok" ELSE "command"]
      BY <1>10, <2>3 DEF RL!Return, RL!Over
    <3> QED
      BY ZenonT(60), <2>1, <2>3, <3>1
  <2> QED
    BY <1>10, <2>2, <2>3 DEF RL!Return
<1>11. ASSUME NEW c \in Caller, RL!Release(c) PROVE rlCall(d)'
  <2>1. /\ pc[c] = "end" /\ UNCHANGED <<command, received, timedOut>>
        /\ pc' = [pc EXCEPT ![c] = "over"] /\ code' = [code EXCEPT ![c] = code[c]]
        /\ unhandled' = unhandled \ {c}
        /\ lock'.holder = lock.holder \/ lock'.holder = Nobody
    BY <1>11 DEF RL!Release, RL!Over, RL!Free
  <2> QED
    BY ZenonT(60), <2>1
<1>12. ASSUME NEW c \in Caller, RL!Renew(c) PROVE rlCall(d)'
  <2>1. /\ UNCHANGED <<pc, command, received, timedOut, code, unhandled>>
        /\ lock'.holder = lock.holder
    BY <1>12 DEF RL!Renew
  <2> QED
    BY <2>1
<1>13. ASSUME RL!Mishap PROVE rlCall(d)'
  <2>1. UNCHANGED <<command, received, timedOut>>
    BY <1>13 DEF RL!Mishap
  <2>2. lock' = lock \/ lock' = RL!Free \/ lock' = [lock EXCEPT !.live = FALSE]
    BY <1>13 DEF RL!Mishap
  <2>3. lock'.holder = lock.holder \/ lock'.holder = Nobody
    <3>1. CASE lock' = [lock EXCEPT !.live = FALSE]
      BY <3>1
    <3>2. CASE lock' = RL!Free
      BY <3>2 DEF RL!Free
    <3> QED
      BY <2>2, <3>1, <3>2
  <2>4. \/ UNCHANGED <<pc, code, unhandled>>
        \/ \E c \in Caller : pc[c] # "off" /\ RL!Over(c, "killed")
    BY <1>13 DEF RL!Mishap
  <2>5. CASE UNCHANGED <<pc, code, unhandled>>
    BY <2>1, <2>3, <2>5
  <2>6. ASSUME NEW c \in Caller, pc[c] # "off", RL!Over(c, "killed") PROVE rlCall(d)'
    BY ZenonT(60), <2>1, <2>3, <2>6 DEF RL!Over
  <2> QED
    BY <2>4, <2>5, <2>6
<1> QED
  BY <1>1, <1>2, <1>3, <1>4, <1>5, <1>6, <1>7, <1>8, <1>9, <1>10, <1>11, <1>12,
     <1>13
     DEF RL!Next, RL!Process

(* What a step that is no mishap does to one call.                         *)
rlEffects(d) ==
  /\ command'[d] = "running" /\ command[d] # "running" =>
       \/ pc[d] = "start"
       \/ pc[d] = "waiting" /\ pc'[d] = "run" /\ lock' = [holder |-> d, live |-> TRUE]
  /\ pc'[d] = "over" /\ pc[d] # "over" => pc[d] # "run" \/ Parent[d] # Nobody
  /\ pc[d] = "over" => pc'[d] = "over"
  /\ d \in received' /\ d \notin received => pc[d] \in {"waiting", "run"} /\ pc'[d] = pc[d]
  /\ RL!Held => \/ lock' = lock
                \/ lock' = [holder |-> lock.holder, live |-> TRUE]
                \/ pc[lock.holder] = "end"
  /\ mishaps' = mishaps

(* Of a step that is no mishap, seen from one call: its command starts     *)
(* under the lock, or because it was nested; it is over before its time    *)
(* only if it is nested; and a lock that is held stays, or its holder has  *)
(* nothing left to run.                                                    *)
LEMMA LockedEffects ==
  ASSUME CommandsAssumption, rlTypes, \A c \in Caller : rlCall(c),
         RL!Next \/ UNCHANGED rlVars, ~RL!Mishap, NEW d \in Caller
  PROVE  rlEffects(d)
<1>0. \A c \in Caller : d \in RL!Inner(c) => Parent[d] = c /\ c # Nobody /\ c # d
  BY DEF CommandsAssumption, RL!RunLockedAssumption, RL!Inner
<1>a. \A c \in Caller : d \in RL!Inner(c) /\ command[c] = "none" => pc[d] = "off"
  BY <1>0 DEF rlCall, rlAbove
<1>b. \A c \in Caller : /\ pc[c] \in {"off", "start", "waiting"} => command[c] = "none"
                        /\ pc[c] = "bare" => Parent[c] # Nobody
  BY DEF rlCall, rlPlace
<1> USE DEF rlEffects, rlTypes
<1>1. ASSUME UNCHANGED rlVars \/ \E c \in Caller :
               \/ RL!Signal(c) \/ RL!CommandEnds(c) \/ RL!Timeout(c)
      PROVE  rlEffects(d)
  <2>1. /\ UNCHANGED <<lock, pc, received, mishaps>>
        /\ command' = command \/ \E c \in Caller : \E how \in {"ok", "failed"} :
                                    command' = [command EXCEPT ![c] = how]
    BY <1>1 DEF rlVars, rlOnly, RL!Signal, RL!CommandEnds, RL!Timeout, RL!flags
  <2> QED
    BY <2>1
<1>2. ASSUME NEW c \in Caller, RL!Call(c) PROVE rlEffects(d)
  BY <1>2 DEF RL!Call, RL!flags
<1>3. ASSUME NEW c \in Caller, RL!Nested(c) PROVE rlEffects(d)
  <2>1. pc[c] = "start" /\ UNCHANGED <<lock, received, mishaps>>
    BY <1>3 DEF RL!Nested
  <2>2. CASE RL!Starts(c, "bare")
    BY <1>0, <1>a, <1>b, <2>1, <2>2 DEF RL!Starts
  <2>3. CASE UNCHANGED command /\ \E where \in {"waiting", "over"} : pc' = [pc EXCEPT ![c] = where]
    BY <2>1, <2>3
  <2> QED
    BY <1>3, <2>2, <2>3 DEF RL!Nested, RL!Over
<1>4. ASSUME NEW c \in Caller, RL!Take(c) PROVE rlEffects(d)
  <2>1. pc[c] = "waiting" /\ ~RL!Held /\ lock' = [holder |-> c, live |-> TRUE]
        /\ UNCHANGED <<received, mishaps>>
    BY <1>4 DEF RL!Take, RL!flags
  <2>2. CASE RL!Starts(c, "run")
    BY <1>0, <1>a, <1>b, <2>1, <2>2 DEF RL!Starts
  <2>3. CASE pc' = [pc EXCEPT ![c] = "end"] /\ UNCHANGED command
    BY <2>1, <2>3
  <2> QED
    BY <1>4, <2>2, <2>3 DEF RL!Take
<1>5. ASSUME NEW c \in Caller, RL!NotTaken(c) PROVE rlEffects(d)
  BY <1>5 DEF RL!NotTaken, RL!Over
<1>6. ASSUME NEW c \in Caller, RL!Handle(c) PROVE rlEffects(d)
  BY <1>6 DEF RL!Handle, RL!Over, RL!Handles
<1>7. ASSUME NEW c \in Caller, RL!Kill(c) PROVE rlEffects(d)
  BY <1>0, <1>7 DEF RL!Kill
<1>8. ASSUME NEW c \in Caller, RL!Return(c) PROVE rlEffects(d)
  BY <1>b, <1>8 DEF RL!Return, RL!Over
<1>9. ASSUME NEW c \in Caller, RL!Release(c) PROVE rlEffects(d)
  BY <1>9 DEF RL!Release, RL!Over
<1>10. ASSUME NEW c \in Caller, RL!Renew(c) PROVE rlEffects(d)
  BY <1>10 DEF RL!Renew
<1> QED
  BY <1>1, <1>2, <1>3, <1>4, <1>5, <1>6, <1>7, <1>8, <1>9, <1>10
  DEF RL!Next, RL!Process

(* A call takes the lock only before its own command, and so before those  *)
(* nested in it, is started.                                               *)
LEMMA LockedHolders ==
  ASSUME CommandsAssumption, rlTypes, \A c \in Caller : rlCall(c),
         RL!Next \/ UNCHANGED rlVars, NEW d \in Caller, rlHolder(d)
  PROVE  rlHolder(d)'
<1>0. Nobody \notin RL!Line(d) /\ RL!Line(d)' = RL!Line(d) /\ RL!Line(d) \subseteq Caller
  BY LineClosed DEF CommandsAssumption, RL!RunLockedAssumption, RL!Line
<1>1. CASE \E c \in Caller : RL!Take(c)
  <2>1. PICK c \in Caller : RL!Take(c)
    BY <1>1
  <2>2. /\ lock'.holder = c /\ pc[c] = "waiting" /\ received' = received
        /\ c # d => command'[d] = command[d]
    BY <2>1 DEF RL!Take, RL!flags, RL!Starts, rlTypes
  <2>3. SUFFICES ASSUME c # d, c \in RL!Line(d), command[d] # "none" PROVE FALSE
    BY <1>0, <2>2 DEF rlHolder, Took
  <2> DEFINE S == {e \in Caller : command[e] # "none"}
  <2>4. S \in SUBSET Caller /\ d \in S /\ \A e \in S : Parent[e] # Nobody => Parent[e] \in S
    <3>1. ASSUME NEW e \in S, Parent[e] # Nobody PROVE Parent[e] \in S
      <4>1. e \in Caller /\ Parent[e] \in Caller
        BY <3>1 DEF CommandsAssumption, RL!RunLockedAssumption
      <4>2. pc[e] # "off"
        BY <4>1 DEF rlCall, rlPlace
      <4> QED
        BY <3>1, <4>1, <4>2 DEF rlCall, rlAbove
    <3> QED
      BY <2>3, <3>1
  <2> HIDE DEF S
  <2>5. c \in S
    BY <2>3, <2>4, LineLeast
  <2> QED
    BY <2>2, <2>5 DEF S, rlCall, rlPlace
<1>2. CASE ~\E c \in Caller : RL!Take(c)
  <2>1. lock'.holder \in {lock.holder, Nobody}
    <3>0. [lock EXCEPT !.live = TRUE].holder = lock.holder
          /\ [lock EXCEPT !.live = FALSE].holder = lock.holder /\ RL!Free.holder = Nobody
      BY DEF RL!Free, rlTypes
    <3>1. CASE RL!Mishap
      BY <3>0, <3>1 DEF RL!Mishap
    <3>2. ASSUME NEW c \in Caller, RL!Release(c) \/ RL!Renew(c)
          PROVE  lock'.holder \in {lock.holder, Nobody}
      BY <3>0, <3>2 DEF RL!Release, RL!Renew
    <3>3. ASSUME NEW c \in Caller,
                 \/ RL!Call(c) \/ RL!Signal(c) \/ RL!CommandEnds(c) \/ RL!Nested(c)
                 \/ RL!NotTaken(c) \/ RL!Handle(c) \/ RL!Timeout(c) \/ RL!Kill(c)
                 \/ RL!Return(c)
          PROVE  lock' = lock
      BY <3>3
      DEF RL!Call, RL!Signal, RL!CommandEnds, RL!Nested, RL!NotTaken, RL!Handle,
                  RL!Timeout, RL!Kill, RL!Return
    <3>4. CASE UNCHANGED rlVars
      BY <3>4 DEF rlVars, rlOnly
    <3> QED
      BY <1>2, <3>1, <3>2, <3>3, <3>4 DEF RL!Next, RL!Process
  <2>2. Took(d)' => Took(d)
    <3>1. CASE RL!Mishap
      BY <3>1 DEF RL!Mishap, RL!Over, rlTypes, Took
    <3>2. ASSUME NEW c \in Caller, RL!Nested(c) PROVE Took(d)' => Took(d)
      BY <3>2 DEF RL!Nested, RL!Over, RL!Starts, rlTypes, rlCall, rlPlace, Took
    <3>3. ASSUME NEW c \in Caller,
                 \/ RL!Call(c) \/ RL!NotTaken(c) \/ RL!Return(c) \/ RL!Release(c)
                 \/ RL!Kill(c)
          PROVE  Took(d)' => Took(d)
      BY <3>3
      DEF RL!Call, RL!NotTaken, RL!Return, RL!Release, RL!Kill, RL!Over,
          RL!flags,
                  rlTypes, Took
    <3>4. ASSUME NEW c \in Caller, RL!Handle(c) PROVE Took(d)' => Took(d)
      BY <3>4 DEF RL!Handle, RL!Handles, RL!Over, rlTypes, rlCall, rlPlace, Took
    <3>5. ASSUME NEW c \in Caller, RL!Signal(c) \/ RL!Timeout(c) \/ RL!Renew(c)
          PROVE  Took(d)' => Took(d)
      BY <3>5 DEF RL!Signal, RL!Timeout, RL!Renew, Took
    <3>6. ASSUME NEW c \in Caller, RL!CommandEnds(c) PROVE Took(d)' => Took(d)
      BY <3>6 DEF RL!CommandEnds, RL!flags, rlTypes, Took
    <3>7. CASE UNCHANGED rlVars
      BY <3>7 DEF rlVars, rlOnly, Took
    <3> QED
      BY <1>2, <3>1, <3>2, <3>3, <3>4, <3>5, <3>6, <3>7 DEF RL!Next, RL!Process
  <2> QED
    BY <1>0, <2>1, <2>2 DEF rlHolder
<1> QED
  BY <1>1, <1>2

(* Signals come from outside or from a time limit, and mishaps stay.       *)
LEMMA LockedSignals ==
  ASSUME CommandsAssumption, rlSignals, RL!Next \/ UNCHANGED rlVars
  PROVE  /\ rlSignals' /\ timedOut \subseteq timedOut'
         /\ mishaps' >= mishaps /\ signals' >= signals
         /\ RL!Mishap => mishaps' > 0
<1> USE DEF rlSignals
<1>1. CASE RL!Mishap
  BY <1>1 DEF RL!Mishap, RL!Over
<1>2. ASSUME NEW c \in Caller, RL!Signal(c) \/ RL!Handle(c) \/ RL!Timeout(c)
      PROVE  /\ rlSignals' /\ timedOut \subseteq timedOut'
             /\ mishaps' = mishaps /\ signals' >= signals
  BY <1>2 DEF RL!Signal, RL!Handle, RL!Timeout, RL!Over
<1>3. ASSUME NEW c \in Caller,
             \/ RL!Call(c) \/ RL!CommandEnds(c) \/ RL!Nested(c) \/ RL!Take(c)
             \/ RL!NotTaken(c) \/ RL!Kill(c) \/ RL!Return(c) \/ RL!Release(c) \/ RL!Renew(c)
      PROVE  /\ UNCHANGED <<received, timedOut, killTimer, signals, mishaps>>
             /\ unhandled' \subseteq unhandled
  <2>1. CASE RL!Call(c) \/ RL!CommandEnds(c) \/ RL!Take(c)
    BY <2>1 DEF RL!Call, RL!CommandEnds, RL!Take, RL!flags
  <2>2. CASE RL!Nested(c) \/ RL!NotTaken(c) \/ RL!Return(c)
    BY <2>2 DEF RL!Nested, RL!NotTaken, RL!Return, RL!Over
  <2>3. CASE RL!Kill(c) \/ RL!Release(c) \/ RL!Renew(c)
    BY <2>3 DEF RL!Kill, RL!Release, RL!Renew, RL!Over
  <2> QED
    BY <1>3, <2>1, <2>2, <2>3
<1>4. ASSUME UNCHANGED rlVars
      PROVE  /\ rlSignals' /\ timedOut \subseteq timedOut'
             /\ mishaps' = mishaps /\ signals' >= signals
  BY <1>4 DEF rlVars, rlOnly
<1>5. mishaps' = mishaps \/ RL!Mishap
  BY <1>2, <1>3, <1>4 DEF RL!Next, RL!Process, rlVars, rlOnly
<1> QED
  BY <1>1, <1>2, <1>3, <1>4, <1>5 DEF RL!Next, RL!Process

(* Only a killed call, or a nested one that was sent a signal, is over     *)
(* while its command runs.                                                 *)
LEMMA LockedLeft ==
  ASSUME CommandsAssumption, rlTypes, \A c \in Caller : rlCall(c), rlSignals,
         RL!Next \/ UNCHANGED rlVars, NEW d \in Caller, rlLeft(d)
  PROVE  rlLeft(d)'
<1>1. /\ mishaps > 0 => mishaps' > 0
      /\ signals > 0 \/ timedOut # {} => signals' > 0 \/ timedOut' # {}
      /\ RL!Mishap => mishaps' > 0
  BY LockedSignals DEF rlSignals
<1>2. SUFFICES ASSUME pc'[d] = "over", command'[d] = "running",
                      pc[d] # "over" \/ command[d] # "running", ~RL!Mishap
               PROVE  Parent[d] # Nobody /\ (signals' > 0 \/ timedOut' # {})
  BY <1>1 DEF rlLeft
<1>3. rlEffects(d)
  BY <1>2, LockedEffects
<1>4. pc[d] # "over" /\ command[d] = "running"
  <2>1. command[d] = "running" \/ pc[d] = "start"
    BY <1>2, <1>3 DEF rlEffects
  <2>2. ASSUME pc[d] = "start", command[d] # "running" PROVE FALSE
    <3>1. ASSUME NEW c \in Caller, RL!Nested(c) \/ RL!Take(c) PROVE command' = command
      <4>1. SUFFICES ASSUME NEW where \in {"bare", "run"}, RL!Starts(c, where) PROVE FALSE
        BY <3>1 DEF RL!Nested, RL!Take
      <4>2. pc'[d] # "over"
        BY <2>2, <4>1 DEF RL!Starts, rlTypes
      <4> QED
        BY <1>2, <4>2
    <3>2. ASSUME NEW c \in Caller, RL!CommandEnds(c) \/ RL!Kill(c) PROVE FALSE
      BY <1>2, <2>2, <3>2 DEF RL!CommandEnds, RL!Kill, rlTypes, rlCall, rlPlace
    <3>3. command' = command
      BY <1>2, <3>1, <3>2
      DEF RL!Next, RL!Process, rlVars, rlOnly, RL!Call, RL!Signal, RL!NotTaken, RL!Handle,
          RL!Timeout, RL!Return, RL!Release, RL!Renew
    <3> QED
      BY <1>2, <2>2, <3>3
  <2> QED
    BY <1>2, <2>1, <2>2
<1>5. /\ pc[d] \in {"bare", "run"} /\ (pc[d] = "bare" => Parent[d] # Nobody)
  BY <1>4 DEF rlTypes, rlCall, rlPlace
<1>6. ASSUME NEW c \in Caller, RL!Handle(c) \/ RL!Kill(c)
      PROVE  Parent[d] # Nobody /\ (signals' > 0 \/ timedOut' # {})
  <2>1. unhandled \cup received \cup killTimer # {} /\ timedOut' = timedOut /\ signals' = signals
    BY <1>6 DEF RL!Handle, RL!Kill
  <2>2. CASE RL!Handle(c)
    BY <1>2, <1>4, <1>5, <2>1, <2>2
    DEF RL!Handle, RL!Handles, RL!Over, rlTypes, rlSignals
  <2>3. CASE RL!Kill(c)
    <3>1. d \in RL!Inner(c)
      BY <1>2, <1>4, <2>3 DEF RL!Kill, rlTypes
    <3>2. Parent[d] = c /\ c # Nobody
      BY <3>1 DEF RL!Inner, CommandsAssumption, RL!RunLockedAssumption
    <3> QED
      BY <2>1, <3>2 DEF rlSignals
  <2> QED
    BY <1>6, <2>2, <2>3
<1>7. ASSUME NEW c \in Caller,
             \/ RL!Call(c) \/ RL!Signal(c) \/ RL!CommandEnds(c) \/ RL!Timeout(c) \/ RL!Renew(c)
      PROVE  FALSE
  BY <1>2, <1>4, <1>5, <1>7
  DEF RL!Call, RL!Signal, RL!CommandEnds, RL!Timeout, RL!Renew, rlTypes
<1>8. ASSUME NEW c \in Caller,
             RL!NotTaken(c) \/ RL!Return(c) \/ RL!Release(c)
      PROVE  FALSE
  BY <1>2, <1>4, <1>5, <1>8 DEF RL!NotTaken, RL!Return, RL!Release, RL!Over, rlTypes
<1>9. ASSUME NEW c \in Caller, RL!Nested(c) \/ RL!Take(c) PROVE FALSE
  BY <1>2, <1>4, <1>5, <1>9
  DEF RL!Nested, RL!Take, RL!Over, RL!Starts, rlTypes
<1> QED
  BY <1>2, <1>4, <1>6, <1>7, <1>8, <1>9 DEF RL!Next, RL!Process, rlVars, rlOnly

(* No command strays but by a mishap, and a mishap leads one astray.       *)
LEMMA StraysStep ==
  ASSUME CommandsAssumption, rlTypes, \A c \in Caller : rlCall(c) /\ rlHolder(c),
         RL!Next \/ UNCHANGED rlVars
  PROVE  \/ mishaps' = mishaps /\ Strays' \subseteq Strays
         \/ mishaps' = mishaps + 1 /\ \E x : Strays' \subseteq Strays \cup {x}
<1>1. ASSUME NEW d \in Caller
      PROVE  /\ RL!Line(d)' = RL!Line(d) /\ RL!Leaf(d)' = RL!Leaf(d)
             /\ RL!Line(d) \subseteq Caller /\ Nobody \notin Caller
  BY LineClosed
     DEF RL!Line, RL!Leaf, RL!Inner, CommandsAssumption, RL!RunLockedAssumption
<1>2. ASSUME NEW d \in Strays', d \notin Strays,
             \A e \in Caller : /\ pc[e] = "over" => pc'[e] = "over"
                               /\ e \in received' /\ e \notin received => pc[e] # "over"
      PROVE  /\ d \in Caller /\ RL!Leaf(d) /\ ~RL!Unheard(d) /\ ~Guarded(d)'
             /\ \E x \in RL!Line(d) : command'[x] = "running"
             /\ \/ \A x \in RL!Line(d) : command[x] # "running"
                \/ Guarded(d)
  <2>0. \A y \in Caller : /\ pc[y] = "over" => pc'[y] = "over"
                          /\ y \in received' /\ y \notin received => pc[y] # "over"
    BY <1>2
  <2>1. d \in Caller /\ RL!Leaf(d) /\ ~RL!Unheard(d)' /\ ~Guarded(d)'
    BY <1>1, <1>2 DEF Strays
  <2>2. ~RL!Unheard(d)
    <3>1. SUFFICES ASSUME NEW e \in RL!Line(d), Parent[e] # Nobody, pc[e] = "over",
                          e \notin received
                   PROVE  RL!Unheard(d)'
      BY <2>1 DEF RL!Unheard
    <3>2. e \in Caller
      BY <2>1, <3>1, LineClosed
    <3>3. e \in RL!Line(d) /\ RL!Line(d)' = RL!Line(d)
      BY <3>1 DEF RL!Line
    <3>4. pc'[e] = "over" /\ e \notin received'
      BY <2>0, <3>1, <3>2
    <3>5. (\E y \in RL!Line(d) : Parent[y] # Nobody /\ pc[y] = "over" /\ y \notin received)'
      BY <3>1, <3>3, <3>4
    <3> QED
      BY <3>5 DEF RL!Unheard
  <2>3. \E x \in RL!Line(d) : command'[x] = "running"
    BY <1>1, <1>2, <2>1 DEF Strays
  <2> QED
    BY <1>2, <2>1, <2>2, <2>3 DEF Strays
<1>3. CASE RL!Mishap
  <2>1. /\ mishaps' = mishaps + 1 /\ UNCHANGED <<command, received>>
        /\ \A d \in Caller : pc[d] = "over" => pc'[d] = "over"
    BY <1>3 DEF RL!Mishap, RL!Over, rlTypes
  <2>2. ASSUME NEW d \in Strays', d \notin Strays
        PROVE  d \in Caller /\ RL!Leaf(d) /\ lock.holder \in RL!Line(d)
    BY <1>2, <2>1, <2>2 DEF Guarded
  <2>3. CASE Strays' \subseteq Strays
    BY <2>1, <2>3
  <2>4. CASE ~(Strays' \subseteq Strays)
    <3>1. PICK x \in Strays' : x \notin Strays
      BY <2>4
    <3>2. Strays' \subseteq Strays \cup {x}
      BY <2>2, <3>1, OneLeaf
    <3> QED
      BY <2>1, <3>2
  <2> QED
    BY <2>3, <2>4
<1>4. CASE ~RL!Mishap
  <2>1. \A d \in Caller : rlEffects(d)
    BY <1>4, LockedEffects
  <2>2. \A e \in Caller : /\ pc[e] = "over" => pc'[e] = "over"
                          /\ e \in received' /\ e \notin received => pc[e] # "over"
    BY <2>1 DEF rlEffects
  <2>3. ASSUME NEW d \in Strays', d \notin Strays PROVE FALSE
    <3>1. /\ d \in Caller /\ RL!Leaf(d) /\ ~RL!Unheard(d) /\ ~Guarded(d)'
          /\ \E x \in RL!Line(d) : command'[x] = "running"
          /\ \/ \A x \in RL!Line(d) : command[x] # "running"
             \/ Guarded(d)
      BY <1>2, <2>2, <2>3
    <3>2. CASE \A x \in RL!Line(d) : command[x] # "running"
      <4>1. PICK x \in RL!Line(d) : command'[x] = "running"
        BY <3>1
      <4>2. /\ x \in Caller /\ command[x] # "running" /\ rlEffects(x) /\ rlCall(x)
            /\ Parent[x] # Nobody => command[Parent[x]] # "running"
        BY <1>1, <2>1, <3>1, <3>2, LineClosed
      <4>3. Parent[x] = Nobody
        BY <4>1, <4>2 DEF rlEffects, rlCall, rlAbove
      <4>4. lock' = [holder |-> x, live |-> TRUE] /\ pc'[x] = "run"
        BY <4>1, <4>2, <4>3 DEF rlEffects, rlCall, rlPlace
      <4>5. Guarded(d)'
        BY <1>1, <3>1, <4>1, <4>2, <4>3, <4>4 DEF Guarded, RL!Held
      <4> QED
        BY <3>1, <4>5
    <3>3. CASE Guarded(d) /\ \E x \in RL!Line(d) : command[x] = "running"
      <4>1. PICK x \in RL!Line(d) : command[x] = "running"
        BY <3>3
      <4>2. PICK r \in RL!Line(d) : RL!Held /\ lock.holder = r /\ Parent[r] = Nobody
        BY <3>3 DEF Guarded
      <4>3. r \in Caller /\ x \in Caller /\ rlEffects(r) /\ rlCall(r) /\ r \in RL!Line(x)
        BY <1>1, <2>1, <3>1, <4>1, <4>2, LineRoot
      <4>4. command[r] # "running"
        <5>1. lock'.holder = r => ~RL!Held'
          BY <1>1, <3>1, <4>2 DEF Guarded
        <5>2. /\ pc[r] # "over" /\ pc[r] \notin {"start", "bare"}
              /\ pc[r] = "end" \/ (pc'[r] = "over" /\ pc[r] # "run")
          BY <1>1, <4>2, <4>3, <5>1 DEF RL!Held, rlEffects, rlCall, rlPlace
        <5> QED
          BY <4>3, <5>2 DEF rlCall, rlPlace, rlTypes
      <4>5. \E y \in RL!Line(x) : /\ command[y] = "running" /\ Parent[y] # Nobody
                                  /\ command[Parent[y]] # "running"
        <5>1. SUFFICES ASSUME \A y \in RL!Line(x) : command[y] = "running" =>
                                Parent[y] = Nobody \/ command[Parent[y]] = "running"
                       PROVE  FALSE
          OBVIOUS
        <5> DEFINE S == {y \in RL!Line(x) : command[y] = "running"}
        <5>2. /\ S \in SUBSET Caller /\ x \in S
              /\ \A y \in S : Parent[y] # Nobody => Parent[y] \in S
          BY <1>1, <4>1, <4>3, <5>1, LineClosed
        <5> HIDE DEF S
        <5>3. r \in S
          BY <4>3, <5>2, LineLeast
        <5> QED
          BY <4>4, <5>3 DEF S
      <4>6. PICK y \in RL!Line(x) : /\ command[y] = "running" /\ Parent[y] # Nobody
                                    /\ command[Parent[y]] # "running"
        BY <4>5
      <4>7. y \in RL!Line(d) /\ y \in Caller /\ rlCall(y) /\ rlHolder(y)
        <5>1. RL!Line(d) \in SUBSET Caller
          BY <1>1, <3>1
        <5>2. RL!Line(x) \subseteq RL!Line(d)
          BY <3>1, <4>1, <4>3, <5>1, LineClosed, LineLeast
        <5> QED
          BY <4>6, <5>1, <5>2
      <4>8. pc[y] = "over"
        BY <4>6, <4>7 DEF rlCall, rlPlace, rlAbove
      <4>9. y \in received
        BY <3>1, <4>6, <4>7, <4>8 DEF RL!Unheard
      <4>10. r \in RL!Line(y)
        BY <3>1, <4>2, <4>7, LineRoot
      <4>11. lock.holder = y
        BY <4>2, <4>6, <4>7, <4>9, <4>10 DEF rlHolder, Took
      <4> QED
        BY <4>2, <4>4, <4>6, <4>11
    <3> QED
      BY <3>1, <3>2, <3>3
  <2>4. mishaps' = mishaps
    <3>1. CASE Caller = {}
      BY <1>4, <3>1 DEF RL!Next, rlVars
    <3> QED
      BY <2>1, <3>1 DEF rlEffects
  <2> QED
    BY <2>3, <2>4
<1> QED
  BY <1>3, <1>4

(* `apv lock run`: one command at a time under the lock, but for a lease   *)
(* that ran out, a forced release, a killed caller or a command that a     *)
(* nested call left behind; and a call that is not nested leaves none.     *)
(* Success is reported only of a command that ran to its end, neither      *)
(* interrupted nor out of time; a refusal only when nothing was started.   *)
THEOREM LockedCommandsTold == CommandsSpec => []LockedCommandsAreTold
<1> DEFINE I == part = "locked" => rlInv
<1>0. /\ IsFiniteSet(Caller) /\ Nobody \notin Caller
      /\ \A T : RL!Cardinality(T) = Cardinality(T)
  BY CommandsAssumption
     DEF CommandsAssumption, RL!RunLockedAssumption, RL!IsFiniteSet, IsFiniteSet,
         RL!Cardinality, Cardinality
<1>1. CommandsInit => I
  <2> SUFFICES ASSUME part = "locked", RL!Init PROVE rlInv
    BY DEF CommandsInit
  <2>1. Strays = {}
    BY CommandsAssumption, LineClosed DEF RL!Init, Strays
  <2>2. rlTypes /\ \A c \in Caller : rlCall(c) /\ rlHolder(c) /\ rlLeft(c)
    BY CommandsAssumption
    DEF RL!Init, RL!Free, rlTypes, rlCall, rlPlace, rlAbove, rlTruth, rlHolder, Took, rlLeft,
       CommandsAssumption, RL!RunLockedAssumption
  <2>3. rlSignals
    BY DEF RL!Init, rlSignals
  <2> QED
    BY <2>1, <2>2, <2>3, FS_EmptySet DEF rlInv, RL!Init
<1>2. I /\ [CommandsNext]_commandsVars => I'
  <2> SUFFICES ASSUME part = "locked", rlInv, RL!Next \/ UNCHANGED rlVars PROVE rlInv'
    BY PartStays, LockedStep
  <2>1. /\ rlTypes' /\ rlSignals'
        /\ (\A c \in Caller : rlCall(c) /\ rlHolder(c) /\ rlLeft(c))'
    <3>1. CommandsAssumption /\ rlTypes /\ rlSignals
          /\ \A c \in Caller : rlCall(c) /\ rlHolder(c) /\ rlLeft(c)
      BY CommandsAssumption DEF rlInv
    <3>2. ASSUME NEW c \in Caller PROVE rlCall(c)' /\ rlHolder(c)' /\ rlLeft(c)'
      BY <3>1, LockedCalls, LockedHolders, LockedLeft
    <3> QED
      BY <3>1, <3>2, LockedTypes, LockedSignals
  <2>2. /\ IsFiniteSet(Strays) /\ Cardinality(Strays) \in Nat
        /\ IsFiniteSet(Strays') /\ Cardinality(Strays') \in Nat
    BY <1>0, FS_Subset, FS_CardinalityType DEF Strays
  <2>3. mishaps \in Nat /\ Cardinality(Strays) <= mishaps
    BY DEF rlInv, rlSignals
  <2>4. CASE mishaps' = mishaps /\ Strays' \subseteq Strays
    BY <2>1, <2>2, <2>3, <2>4, FS_Subset DEF rlInv
  <2>5. ASSUME NEW x, mishaps' = mishaps + 1, Strays' \subseteq Strays \cup {x}
        PROVE  rlInv'
    <3>1. /\ IsFiniteSet(Strays \cup {x})
          /\ Cardinality(Strays \cup {x}) \in {Cardinality(Strays), Cardinality(Strays) + 1}
      BY <2>2, FS_AddElement
    <3>2. Cardinality(Strays') <= Cardinality(Strays \cup {x})
      BY <2>5, <3>1, FS_Subset
    <3> QED
      BY <2>1, <2>2, <2>3, <2>5, <3>1, <3>2 DEF rlInv
  <2> QED
    BY CommandsAssumption, <2>4, <2>5, StraysStep DEF rlInv
<1>3. I => LockedCommandsAreTold
  <2> SUFFICES ASSUME part = "locked", rlInv
               PROVE  RL!OneCommandPerLock /\ RL!OnlyNestedLeaveBehind /\ RL!ExitTellsTruth
    BY DEF LockedCommandsAreTold
  <2>1. RL!ExitTellsTruth /\ RL!OnlyNestedLeaveBehind
    BY DEF rlInv, rlCall, rlTruth, rlLeft, RL!ExitTellsTruth,
           RL!OnlyNestedLeaveBehind,
           RL!Running
  <2> DEFINE R == {c \in Caller : RL!Running(c)}
             U == {c \in Caller : RL!Running(c) /\ RL!Unheard(c)}
  <2>2. \E x : R \subseteq Strays \cup {x} \cup U
    <3>1. ASSUME NEW c \in R, c \notin Strays, c \notin U
          PROVE  c \in Caller /\ RL!Leaf(c) /\ lock.holder \in RL!Line(c)
      BY CommandsAssumption, <3>1, LineClosed DEF Strays, RL!Running, Guarded
    <3>2. CASE R \subseteq Strays \cup U
      BY <3>2
    <3>3. CASE ~(R \subseteq Strays \cup U)
      <4>1. PICK x \in R : x \notin Strays /\ x \notin U
        BY <3>3
      <4> QED
        BY CommandsAssumption, <3>1, <4>1, OneLeaf
    <3> QED
      BY <3>2, <3>3
  <2>3. PICK x : R \subseteq Strays \cup {x} \cup U
    BY <2>2
  <2> DEFINE S == Strays \cup {x}
  <2>4. /\ IsFiniteSet(S) /\ IsFiniteSet(U) /\ IsFiniteSet(R)
        /\ Cardinality(S) <= 1 + mishaps
    <3>1. IsFiniteSet(Strays) /\ IsFiniteSet(R) /\ IsFiniteSet(U)
      BY <1>0, FS_Subset DEF Strays
    <3>2. IsFiniteSet(S) /\ Cardinality(S) \in {Cardinality(Strays), Cardinality(Strays) + 1}
      BY <3>1, FS_AddElement
    <3>3. Cardinality(Strays) \in Nat /\ mishaps \in Nat /\ Cardinality(Strays) <= mishaps
      BY <3>1, FS_CardinalityType DEF rlInv, rlSignals
    <3> HIDE DEF S, R, U
    <3> QED
      BY <3>1, <3>2, <3>3
  <2> HIDE DEF S, R, U
  <2>5. Cardinality(R) <= Cardinality(S) + Cardinality(U)
    <3>1. R \subseteq S \cup U
      BY <2>3 DEF S
    <3>2. /\ IsFiniteSet(S \cup U) /\ IsFiniteSet(S \cap U)
          /\ Cardinality(S \cup U) = Cardinality(S) + Cardinality(U) - Cardinality(S \cap U)
      BY <2>4, FS_Union, FS_Subset
    <3>3. /\ Cardinality(S) \in Nat /\ Cardinality(U) \in Nat /\ Cardinality(R) \in Nat
          /\ Cardinality(S \cap U) \in Nat /\ Cardinality(S \cup U) \in Nat
      BY <2>4, <3>2, FS_CardinalityType
    <3>4. Cardinality(R) <= Cardinality(S \cup U)
      BY <3>1, <3>2, FS_Subset
    <3> QED
      BY <3>2, <3>3, <3>4
  <2>6. Cardinality(R) <= 1 + mishaps + Cardinality(U)
    BY <2>4, <2>5, FS_CardinalityType DEF rlInv, rlSignals
  <2> QED
    BY <1>0, <2>1, <2>6 DEF RL!OneCommandPerLock, R, U
<1> QED
  BY <1>1, <1>2, <1>3, PTL DEF CommandsSpec
-----------------------------------------------------------------------------
(* FileWatch.  What was read is a beginning of the file, and the end of it *)
(* is kept, as long as no rewriting goes unseen.                           *)
Keeps(o) == FW!Least(Len(Needle) - 1, o)
fwInv ==
  /\ file \in Seq(Byte) /\ offset \in Nat /\ rewritten \in {"no", "unseen", "missed"}
  /\ rewritten = "no" =>
       /\ outcome # "met" =>
            /\ offset <= Len(file) /\ ~FW!Contains(SubSeq(file, 1, offset))
            /\ tail = SubSeq(file, offset - Keeps(offset) + 1, offset)
       /\ outcome = "met" => FW!Contains(file)

(* A part of a file contains the text when the file has it between the     *)
(* ends of that part.                                                      *)
LEMMA PartContains ==
  ASSUME CommandsAssumption, NEW f \in Seq(Byte), NEW a \in Nat \ {0}, NEW b \in 0..Len(f)
  PROVE  FW!Contains(SubSeq(f, a, b)) <=>
           \E i \in a..b : /\ i + Len(Needle) - 1 <= b
                           /\ SubSeq(f, i, i + Len(Needle) - 1) = Needle
<1> DEFINE s == SubSeq(f, a, b)
           L == Len(Needle)
<1>1. L \in Nat /\ L >= 1
  BY EmptySeq, LenProperties DEF CommandsAssumption, FW!FileWatchAssumption
<1>2. s \in Seq(Byte) /\ Len(s) = IF a <= b THEN b - a + 1 ELSE 0
  BY SubSeqProperties
<1>3. ASSUME NEW i \in Nat, NEW j \in Nat, i >= 1, i + L - 1 <= Len(s), j = a + i - 1
      PROVE  SubSeq(s, i, i + L - 1) = SubSeq(f, j, j + L - 1)
  <2>1. /\ a \in 1..Len(f) /\ b \in 1..Len(f)
        /\ i \in 1..b - a + 1 /\ i + L - 1 \in 1..b - a + 1
        /\ a + i - 1 = j /\ a + (i + L - 1) - 1 = j + L - 1
    BY <1>1, <1>2, <1>3
  <2> QED
    BY <2>1, SubSeqOfSubSeq
<1> HIDE DEF L, s
<1>4. ASSUME FW!Contains(s)
      PROVE  \E i \in a..b : i + L - 1 <= b /\ SubSeq(f, i, i + L - 1) = Needle
  <2>1. PICK i \in 1..Len(s) : i + L - 1 <= Len(s) /\ SubSeq(s, i, i + L - 1) = Needle
    BY <1>4 DEF FW!Contains, L
  <2>2. PICK j \in a..b : j = a + i - 1 /\ j + L - 1 <= b
    BY <1>1, <1>2, <2>1
  <2>3. i \in Nat /\ j \in Nat /\ i >= 1
    BY <1>1, <1>2, <2>1, <2>2
  <2>4. SubSeq(s, i, i + L - 1) = SubSeq(f, j, j + L - 1)
    BY <1>3, <2>1, <2>2, <2>3
  <2> QED
    BY <2>1, <2>2, <2>4
<1>5. ASSUME NEW j \in a..b, j + L - 1 <= b, SubSeq(f, j, j + L - 1) = Needle
      PROVE  FW!Contains(s)
  <2>1. PICK i \in 1..Len(s) : i = j - a + 1 /\ i + L - 1 <= Len(s)
    BY <1>1, <1>2, <1>5
  <2>2. i \in Nat /\ j \in Nat /\ i >= 1 /\ j = a + i - 1
    BY <1>1, <1>2, <1>5, <2>1
  <2>3. SubSeq(s, i, i + L - 1) = SubSeq(f, j, j + L - 1)
    BY <1>3, <2>1, <2>2
  <2> QED
    BY <1>5, <2>1, <2>3 DEF FW!Contains, L
<1> QED
  BY <1>4, <1>5 DEF L, s

(* The window of a look from `from` to `to`.                               *)
Window(f, from, to) == SubSeq(f, from - Keeps(from) + 1, from) \o SubSeq(f, from + 1, to)

(* A look from `from` to `to`, with the end of what was read kept: it      *)
(* finds the text exactly when what is read by now contains it.            *)
LEMMA LookFinds ==
  ASSUME CommandsAssumption, NEW f \in Seq(Byte), NEW from \in 0..Len(f),
         NEW to \in from..Len(f), ~FW!Contains(SubSeq(f, 1, from))
  PROVE  /\ FW!Contains(Window(f, from, to)) <=> FW!Contains(SubSeq(f, 1, to))
         /\ FW!Contains(Window(f, from, to)) => FW!Contains(f)
         /\ FW!Kept(Window(f, from, to)) = SubSeq(f, to - Keeps(to) + 1, to)
<1> DEFINE L == Len(Needle)
           k == Keeps(from)
           window == Window(f, from, to)
<1>1. L \in Nat /\ L >= 1
  BY EmptySeq, LenProperties DEF CommandsAssumption, FW!FileWatchAssumption
<1>2. k \in Nat /\ k <= from /\ (k = from \/ k = L - 1) /\ k <= L - 1
  BY <1>1 DEF Keeps, FW!Least
<1>3. Keeps(to) \in Nat /\ Keeps(to) <= k + (to - from) /\ Keeps(to) <= to
      /\ Keeps(to) = FW!Least(L - 1, k + (to - from))
  BY <1>1 DEF Keeps, FW!Least
<1> HIDE DEF k
<1>4. window = SubSeq(f, from - k + 1, to)
  <2>1. /\ from - k + 1 \in 1..Len(f) + 1
        /\ from \in (from - k + 1) - 1..Len(f) /\ to \in from..Len(f)
    BY <1>2
  <2> QED
    BY <2>1, ConcatAdjacentSubSeq DEF k, Window
<1> HIDE DEF window
<1>5. window \in Seq(Byte) /\ Len(window) = k + (to - from)
  <2>1. /\ from - k + 1 \in Int /\ to \in Int
        /\ \A i \in from - k + 1..to : f[i] \in Byte
    BY <1>2
  <2>2. /\ window \in Seq(Byte)
        /\ Len(window) = IF from - k + 1 <= to THEN to - (from - k + 1) + 1 ELSE 0
    BY ONLY <1>4, <2>1, SubSeqProperties
  <2> QED
    BY <1>2, <2>2
<1> HIDE DEF L
<1>6. FW!Contains(window) <=>
        \E i \in from - k + 1..to : i + L - 1 <= to /\ SubSeq(f, i, i + L - 1) = Needle
  <2>1. from - k + 1 \in Nat \ {0} /\ to \in 0..Len(f)
    BY <1>2
  <2> QED
    BY <1>4, <2>1, PartContains DEF L
<1>7. \A o \in {from, to, Len(f)} :
        FW!Contains(SubSeq(f, 1, o)) <=>
          \E i \in 1..o : i + L - 1 <= o /\ SubSeq(f, i, i + L - 1) = Needle
  <2> TAKE o \in {from, to, Len(f)}
  <2>1. 1 \in Nat \ {0} /\ o \in 0..Len(f)
    OBVIOUS
  <2> QED
    BY <2>1, PartContains DEF L
<1>8. ASSUME NEW i \in 1..to, i + L - 1 <= to, SubSeq(f, i, i + L - 1) = Needle
      PROVE  i \in from - k + 1..to
  <2>1. ~(i \in 1..from /\ i + L - 1 <= from)
    BY <1>7, <1>8
  <2> QED
    BY <1>1, <1>2, <2>1
<1>9. FW!Contains(window) <=> FW!Contains(SubSeq(f, 1, to))
  <2>1. from - k + 1..to \subseteq 1..to
    BY <1>2
  <2> QED
    BY <1>6, <1>7, <1>8, <2>1
<1>10. FW!Contains(window) => FW!Contains(f)
  <2>1. 1..to \subseteq 1..Len(f) /\ \A i \in 1..to : i + L - 1 <= to => i + L - 1 <= Len(f)
    BY <1>1
  <2>2. SubSeq(f, 1, Len(f)) = f
    BY SubSeqFull
  <2> QED
    BY <1>7, <1>9, <2>1, <2>2
<1>11. FW!Kept(window) = SubSeq(f, to - Keeps(to) + 1, to)
  <2>1. FW!Kept(window) = SubSeq(window, Len(window) - Keeps(to) + 1, Len(window))
    BY <1>3, <1>5 DEF FW!Kept, FW!LastOf, L
  <2>2. CASE Keeps(to) = 0
    BY <1>5, <2>1, <2>2, SubSeqEmpty
  <2>3. CASE Keeps(to) # 0
    <3> DEFINE p == from - k + 1
               m == Len(window) - Keeps(to) + 1
               n == Len(window)
    <3>1. /\ p = from - k + 1 /\ m = n - Keeps(to) + 1 /\ n = k + (to - from)
          /\ p \in Int /\ m \in Int /\ n \in Int
      BY ONLY <1>2, <1>3, <1>5, from \in 0..Len(f), to \in from..Len(f)
    <3>0. window = SubSeq(f, p, to) /\ FW!Kept(window) = SubSeq(window, m, n)
      BY <1>4, <2>1
    <3> HIDE DEF p, m, n
    <3>2. p <= to /\ m >= 1 /\ m <= n /\ n = to - p + 1
      BY ONLY <1>2, <1>3, <2>3, <3>1, from \in 0..Len(f), to \in from..Len(f), f
         \in Seq(Byte)
    <3>3. p \in 1..Len(f) /\ to \in 1..Len(f) /\ m \in 1..to - p + 1 /\ n \in 1..to - p + 1
      BY <1>2, <3>1, <3>2
    <3>4. SubSeq(SubSeq(f, p, to), m, n) = SubSeq(f, p + m - 1, p + n - 1)
      BY <3>3, SubSeqOfSubSeq
    <3>5. p + m - 1 = to - Keeps(to) + 1 /\ p + n - 1 = to
      BY ONLY SMTT(30), <1>2, <1>3, <3>1,
              from \in 0..Len(f), to \in from..Len(f), f \in Seq(Byte)
    <3> QED
      BY <3>0, <3>4, <3>5
  <2> QED
    BY <2>2, <2>3
<1> QED
  BY <1>9, <1>10, <1>11 DEF window

(* What was read does not change when a byte is added to the file.         *)
LEMMA AppendKeeps ==
  ASSUME NEW f \in Seq(Byte), NEW x \in Byte, NEW m \in Nat \ {0}, NEW n \in 0..Len(f)
  PROVE  SubSeq(Append(f, x), m, n) = SubSeq(f, m, n)
<1>1. CASE m <= n
  BY <1>1, AppendIsConcat, SubSeqOfConcat1
<1>2. CASE n < m
  BY <1>2, SubSeqEmpty
<1> QED
  BY <1>1, <1>2

(* The invariant of FileWatch after a step.                                *)
LEMMA FileNext ==
  fwInv' <=>
    /\ file' \in Seq(Byte) /\ offset' \in Nat /\ rewritten' \in {"no", "unseen", "missed"}
    /\ rewritten' = "no" =>
         /\ outcome' # "met" =>
              /\ offset' <= Len(file') /\ ~FW!Contains(SubSeq(file', 1, offset'))
              /\ tail' = SubSeq(file', offset' - Keeps(offset') + 1, offset')
         /\ outcome' = "met" => FW!Contains(file')
BY DEF fwInv, Keeps, FW!Contains, FW!Least

(* A look keeps the invariant.                                             *)
LEMMA FileLook ==
  ASSUME CommandsAssumption, fwInv, FW!Look
  PROVE  fwInv'
<1> DEFINE from == IF Len(file) < offset THEN 0 ELSE offset
           kept == IF Len(file) < offset THEN <<>> ELSE tail
           to == from + FW!Least(Chunk, Len(file) - from)
           window == kept \o SubSeq(file, from + 1, to)
<1>1. /\ offset' = to /\ file' = file
      /\ tail' = IF to = from THEN kept ELSE FW!Kept(window)
      /\ outcome' = "met" => to # from /\ FW!Contains(window)
      /\ outcome' # "met" => to = from \/ ~FW!Contains(window)
      /\ outcome # "met" /\ rewritten' \in {rewritten, "no", "missed"}
      /\ rewritten' = "no" => rewritten = "no" \/ Len(file) < offset
  BY DEF FW!Look
<1>2. file \in Seq(Byte) /\ Len(file) \in Nat /\ offset \in Nat /\ Chunk \in Nat
  BY LenProperties DEF fwInv, CommandsAssumption, FW!FileWatchAssumption
<1>3. from \in 0..Len(file)
  BY <1>2
<1>4. to \in from..Len(file)
  <2> HIDE DEF from
  <2> QED
    BY <1>2, <1>3 DEF FW!Least
<1>5. ASSUME rewritten' = "no"
      PROVE  /\ kept = SubSeq(file, from - Keeps(from) + 1, from)
             /\ ~FW!Contains(SubSeq(file, 1, from))
  <2>1. CASE Len(file) < offset
    <3>1. from = 0 /\ kept = <<>> /\ Keeps(from) = 0
      BY <2>1, EmptySeq, LenProperties
         DEF Keeps, FW!Least, CommandsAssumption, FW!FileWatchAssumption
    <3>2. SubSeq(file, from - Keeps(from) + 1, from) = <<>>
      BY <3>1, SubSeqEmpty
    <3>3. ~FW!Contains(SubSeq(file, 1, 0))
      BY <1>2, PartContains
    <3> QED
      BY <3>1, <3>2, <3>3
  <2>2. CASE ~(Len(file) < offset)
    BY <1>1, <1>5, <2>2 DEF fwInv
  <2> QED
    BY <2>1, <2>2
<1> HIDE DEF from, kept, to
<1>6. CASE rewritten' = "no" /\ to # from
  <2>1. window = Window(file, from, to)
    BY <1>5, <1>6 DEF Window
  <2> HIDE DEF window
  <2>2. /\ FW!Contains(window) <=> FW!Contains(SubSeq(file, 1, to))
        /\ FW!Contains(window) => FW!Contains(file)
        /\ FW!Kept(window) = SubSeq(file, to - Keeps(to) + 1, to)
    BY ONLY CommandsAssumption, <1>2, <1>3, <1>4, <1>5, <1>6, <2>1, LookFinds
  <2>3. to <= Len(file) /\ to \in Nat /\ to # from
    BY <1>2, <1>3, <1>4, <1>6
  <2>4. tail' = SubSeq(file, to - Keeps(to) + 1, to)
    BY <1>1, <2>2, <2>3
  <2>5. outcome' # "met" => ~FW!Contains(SubSeq(file, 1, to))
    BY <1>1, <2>2, <2>3
  <2>6. outcome' = "met" => FW!Contains(file)
    BY <1>1, <2>2
  <2> QED
    BY <1>1, <1>2, <1>6, <2>3, <2>4, <2>5, <2>6, FileNext
<1>7. CASE rewritten' = "no" /\ to = from
  <2> HIDE DEF window
  <2>1. /\ to <= Len(file) /\ to \in Nat /\ outcome' # "met"
        /\ ~FW!Contains(SubSeq(file, 1, to))
        /\ tail' = SubSeq(file, to - Keeps(to) + 1, to)
    BY <1>1, <1>2, <1>3, <1>4, <1>5, <1>7
  <2> QED
    BY <1>1, <1>2, <1>7, <2>1, FileNext
<1>8. CASE rewritten' # "no"
  BY <1>1, <1>2, <1>3, <1>4, <1>8 DEF fwInv
<1> QED
  BY <1>6, <1>7, <1>8

(* FileWatch: as long as no rewriting goes unseen, a text cut by two looks *)
(* is found, and one that is not there is never reported.                  *)
THEOREM TextsAreFound == CommandsSpec => []NoTextMissed
<1> DEFINE I == part = "file" => fwInv
<1>1. CommandsInit => I
  <2> SUFFICES ASSUME part = "file", FW!Init PROVE fwInv
    BY DEF CommandsInit
  <2>1. file = <<>> /\ file \in Seq(Byte) /\ Len(file) = 0
    BY EmptySeq DEF FW!Init
  <2>2. ~FW!Contains(SubSeq(file, 1, 0))
    <3>1. 1 \in Nat \ {0} /\ 0 \in 0..Len(file) /\ 1..0 = {}
      BY <2>1
    <3> QED
      BY <2>1, <3>1, CommandsAssumption, PartContains
  <2>3. Keeps(0) = 0
    BY CommandsAssumption, EmptySeq, LenProperties
       DEF Keeps, FW!Least, CommandsAssumption, FW!FileWatchAssumption
  <2>4. offset = 0 /\ tail = <<>> /\ outcome = "waiting" /\ rewritten = "no"
    BY DEF FW!Init
  <2>5. SubSeq(file, offset - Keeps(offset) + 1, offset) = <<>>
    BY <2>3, <2>4, SubSeqEmpty
  <2>6. ~FW!Contains(SubSeq(file, 1, offset)) /\ offset <= Len(file) /\ offset \in Nat
    BY <2>1, <2>2, <2>4
  <2> QED
    BY <2>1, <2>4, <2>5, <2>6 DEF fwInv
<1>2. I /\ [CommandsNext]_commandsVars => I'
  <2> SUFFICES ASSUME part = "file", fwInv, FW!Next \/ UNCHANGED fwVars PROVE fwInv'
    BY PartStays, FileStep
  <2>1. CASE FW!Deadline \/ UNCHANGED fwVars
    <3>1. UNCHANGED <<file, offset, tail, outcome, rewritten>>
      BY <2>1 DEF FW!Deadline, fwVars
    <3> QED
      BY <3>1, FileNext DEF fwInv
  <2>2. CASE FW!Append1
    <3>1. PICK b \in Byte : file' = Append(file, b)
      BY <2>2 DEF FW!Append1
    <3>2. UNCHANGED <<offset, tail, outcome, rewritten>> /\ outcome = "waiting"
      BY <2>2 DEF FW!Append1
    <3>3. /\ file \in Seq(Byte) /\ Len(file) \in Nat /\ offset \in Nat
          /\ file' \in Seq(Byte) /\ Len(file') = Len(file) + 1
      BY <3>1, LenProperties, AppendProperties DEF fwInv
    <3>4. CASE rewritten = "no"
      <4>1. Keeps(offset) \in Nat /\ Keeps(offset) <= offset
        BY <3>3, CommandsAssumption, EmptySeq, LenProperties
           DEF Keeps, FW!Least, CommandsAssumption, FW!FileWatchAssumption
      <4>2. /\ offset <= Len(file) /\ ~FW!Contains(SubSeq(file, 1, offset))
            /\ tail = SubSeq(file, offset - Keeps(offset) + 1, offset)
        BY <3>2, <3>4 DEF fwInv
      <4>3. offset - Keeps(offset) + 1 \in Nat \ {0} /\ offset \in 0..Len(file) /\ 1 \in Nat \ {0}
        BY <3>3, <4>1, <4>2
      <4>4. /\ SubSeq(file', 1, offset) = SubSeq(file, 1, offset)
            /\ SubSeq(file', offset - Keeps(offset) + 1, offset)
                 = SubSeq(file, offset - Keeps(offset) + 1, offset)
        BY <3>1, <3>3, <4>3, AppendKeeps
      <4> QED
        <5>1. /\ offset' <= Len(file') /\ offset' \in Nat /\ outcome' # "met"
              /\ file' \in Seq(Byte) /\ rewritten' = "no"
          BY <3>2, <3>3, <3>4, <4>2
        <5>2. ~FW!Contains(SubSeq(file', 1, offset'))
          BY <3>2, <4>2, <4>4
        <5>3. tail' = SubSeq(file', offset' - Keeps(offset') + 1, offset')
          BY <3>2, <4>2, <4>4
        <5> QED
          BY <5>1, <5>2, <5>3, FileNext
    <3> QED
      BY <3>2, <3>3, <3>4 DEF fwInv
  <2>3. CASE FW!Rewrite
    <3>1. file' \in Seq(Byte)
      BY <2>3 DEF FW!Rewrite
    <3> QED
      BY <2>3, <3>1 DEF FW!Rewrite, fwInv
  <2> QED
    BY CommandsAssumption, <2>1, <2>2, <2>3, FileLook DEF FW!Next
<1>3. I => NoTextMissed
  BY DEF fwInv, NoTextMissed, FW!NoTextMissed
<1> QED
  BY <1>1, <1>2, <1>3, PTL DEF CommandsSpec
=============================================================================
