------------------------------ MODULE FileWatch ------------------------------
(***************************************************************************)
(* `apv wait --file F --contains T` (execution/wait.ts): a file that       *)
(* another process appends to, shortens or rewrites is read by looks of at *)
(* most Chunk bytes, each from where the last one stopped, with the end of *)
(* what was read kept for a text that straddles two looks.                 *)
(***************************************************************************)
EXTENDS Naturals, Sequences

CONSTANTS
  Byte,    \* what a file is made of
  Needle,  \* the text that is awaited
  Chunk,   \* bytes read by one look
  MaxSize  \* bound of the size of the file

FileWatchAssumption ==
  /\ Needle \in Seq(Byte) /\ Needle # <<>>
  /\ Chunk \in Nat \ {0} /\ MaxSize \in Nat

VARIABLES
  file,      \* its content
  offset,    \* how much of it was read
  tail,      \* the last Len(Needle) - 1 bytes read
  late,      \* the deadline has passed
  outcome,   \* waiting, met or not met
  rewritten  \* ghost: whether a rewriting was, or will be, missed by the looks

vars == <<file, offset, tail, late, outcome, rewritten>>

Init ==
  /\ file = <<>> /\ offset = 0 /\ tail = <<>>
  /\ late = FALSE /\ outcome = "waiting" /\ rewritten = "no"

Contains(s) ==
  \E i \in 1..Len(s) : i + Len(Needle) - 1 <= Len(s) /\ SubSeq(s, i, i + Len(Needle) - 1) = Needle

Least(a, b) == IF a < b THEN a ELSE b
LastOf(s, n) == SubSeq(s, Len(s) - Least(n, Len(s)) + 1, Len(s))

\* mutated form of Kept
KeptNothing(window) == <<>>

Kept(window) == LastOf(window, Len(Needle) - 1)

(* check(): a shorter file is read again from its start.                   *)
Look ==
  LET from == IF Len(file) < offset THEN 0 ELSE offset
      kept == IF Len(file) < offset THEN <<>> ELSE tail
      to == from + Least(Chunk, Len(file) - from)
      window == kept \o SubSeq(file, from + 1, to)
  IN /\ outcome = "waiting"
     /\ offset' = to
     /\ tail' = IF to = from THEN kept ELSE Kept(window)
     /\ outcome' = IF to # from /\ Contains(window) THEN "met" ELSE IF late THEN "not met" ELSE "waiting"
     /\ rewritten' = IF rewritten = "unseen" THEN IF Len(file) < offset THEN "no" ELSE "missed"
                     ELSE rewritten
     /\ UNCHANGED <<file, late>>

(* One last look comes after the deadline.                                 *)
Deadline ==
  /\ outcome = "waiting" /\ ~late /\ late' = TRUE
  /\ UNCHANGED <<file, offset, tail, outcome, rewritten>>

Append1 ==
  /\ outcome = "waiting" /\ Len(file) < MaxSize
  /\ \E b \in Byte : file' = Append(file, b)
  /\ UNCHANGED <<offset, tail, late, outcome, rewritten>>

(* The writer truncates the file, or a rotation replaces it.               *)
Rewrite ==
  /\ outcome = "waiting"
  /\ \E n \in 0..2 : file' \in [1..n -> Byte]
  /\ rewritten' = IF rewritten = "no" THEN "unseen" ELSE rewritten
  /\ UNCHANGED <<offset, tail, late, outcome>>

Next == Look \/ Deadline \/ Append1 \/ Rewrite

Spec == Init /\ [][Next]_vars /\ WF_vars(Look) /\ WF_vars(Deadline)
-----------------------------------------------------------------------------
(* `A match across two reads`: of a file that only grows or shrinks, what  *)
(* was read and did not end the wait holds no text, wherever the looks cut *)
(* it; a wait that ends well ends on a file that has the text, and one     *)
(* that does not had read no occurrence.  Only a rewriting that the next   *)
(* look finds shorter is seen: one that is as long, or has grown again by  *)
(* then, is outside of what the code promises.                             *)
NoTextMissed ==
  rewritten = "no" =>
    /\ outcome # "met" /\ Len(file) >= offset => ~Contains(SubSeq(file, 1, offset))
    /\ outcome = "met" => Contains(file)
=============================================================================
