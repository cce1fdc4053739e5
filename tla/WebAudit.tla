------------------------------ MODULE WebAudit ------------------------------
(***************************************************************************)
(* `apv web audit --preview`: the pages of a commit, served by the preview *)
(* of the project and measured several times (commands/web.ts,             *)
(* web/audit.ts, web/lighthouse.ts), inside a full suite or alone; what a  *)
(* receipt says of it, recomputed by `apv gates verify` (web/impact.ts,    *)
(* gates/verify.ts), and the branch that is then published, while the user *)
(* serves previews of his own and others publish.                          *)
(***************************************************************************)
EXTENDS Naturals, Sequences, FiniteSets, SequencesExt

CONSTANTS
  File,          \* the files of the repository
  Neutral,       \* those web.neutralPaths names
  Always,        \* those that count even there (ALWAYS_WEB_PATHS, web.paths)
  OnSite,        \* those the site shows
  Item,          \* pages and devices to measure
  Runs,          \* web.runs
  Scores, Threshold,
  Limits         \* bounds, of which one is chosen: commits, publications of others, audits alone, previews, suites, kills

WebAssumption ==
  /\ Neutral \subseteq File /\ Always \subseteq File /\ OnSite \subseteq File
  /\ OnSite \subseteq Always \cup (File \ Neutral)   \* the configuration is right
  /\ Limits \subseteq [{"commits", "others", "alone", "previews", "suites", "kills"} -> Nat]
  /\ Runs \in Nat \ {0} /\ Scores \subseteq Nat /\ Threshold \in Nat

Side == {"suite", "alone"}
NoCommit == [n |-> 0, fork |-> 0, own |-> FALSE, files |-> <<>>]
NoServer == [home |-> "none", commit |-> NoCommit, by |-> "none"]
NoSuite == [on |-> FALSE, commit |-> NoCommit, check |-> "todo", base |-> 0]
NoReceipt == [commit |-> NoCommit, ok |-> FALSE, audited |-> FALSE, base |-> 0]
NoAudit == [pc |-> "idle", commit |-> NoCommit, base |-> 0, light |-> FALSE, reused |-> FALSE,
            valid |-> [i \in Item |-> <<>>], tries |-> [i \in Item |-> 0], refused |-> FALSE, seen |-> <<>>, out |-> "none"]

VARIABLES
  main,      \* the contents of the published branch, one after another
  fetched,   \* how much of it the local reference shows, 0 for no reference
  head,      \* the commit checked out: where it left main, its files
  homes,     \* the copy each side works in
  queue,     \* who holds the queue of the full suites, "dead" when it was killed
  plock,     \* who holds the preview lock of the project, likewise
  server,    \* the server on the port, with the copy that has its record
  suite, aud, \* the full suite, and the audit of each side
  receipt,   \* what the last suite recorded
  measured,  \* history: the versions of the files of the site an audit measured and accepted
  left       \* of the bounds

gitVars == <<main, fetched, head>>
vars == <<gitVars, homes, queue, plock, server, suite, aud, receipt, measured, left>>

Spend(what) == left[what] > 0 /\ left' = [left EXCEPT ![what] = @ - 1]
\* A lock whose process is dead is taken over at once.
Free(lock) == lock \in {"none", "dead"}
Shown(files) == {<<f, files[f]>> : f \in OnSite}

Init ==
  /\ main = <<[f \in File |-> 0]>> /\ fetched \in {0, 1}
  /\ head = [n |-> 0, fork |-> 1, own |-> FALSE, files |-> main[1]]
  /\ \E copy \in {"work", "copy"} : homes = [suite |-> copy, alone |-> "work", user |-> "work"]
  /\ queue = "none" /\ plock = "none" /\ server = NoServer
  /\ suite = NoSuite /\ aud = [w \in Side |-> NoAudit] /\ receipt = NoReceipt
  /\ measured = Shown(main[1]) /\ left \in Limits

-----------------------------------------------------------------------------
(* Is the audit required?  The files changed since the merge base.         *)
Changed(base, c) == {f \in File : main[base][f] # c.files[f]}

\* Mutated form of Impact: what the neutral list names never counts.
ImpactOutsideNeutral(files) == files \ Neutral

Impact(files) == {f \in files : f \in Always \/ f \notin Neutral}

\* auditBase: none without the reference, nor when the commit is in it.
AuditBase(c) == IF fetched = 0 \/ ~c.own THEN 0 ELSE c.fork

\* webGap: "not required" is recomputed from the reference and from the base recorded.
WebGap(r) ==
  ~r.audited /\ \/ AuditBase(r.commit) = 0
                \/ Impact(UNION {Changed(b, r.commit) : b \in {AuditBase(r.commit), r.base}}) # {}

Verified(c) == receipt.commit = c /\ receipt.ok /\ ~WebGap(receipt)

-----------------------------------------------------------------------------
(* The measures of a page on a device: the median of the valid runs.       *)
Insert(s, x) == SelectSeq(s, LAMBDA y : y <= x) \o <<x>> \o SelectSeq(s, LAMBDA y : y > x)

\* Mutated form of MedianTwice: the best run.
BestTwice(s) == 2 * Last(s)

\* Twice the median of sorted values: the middle one, or the two middle ones.
MedianTwice(s) ==
  LET middle == Len(s) \div 2
  IN IF Len(s) % 2 = 1 THEN 2 * s[middle + 1] ELSE s[middle] + s[middle + 1]

Complete(a, i) == Len(a.valid[i]) = Runs
Over(a, i) == Complete(a, i) \/ a.tries[i] = 2 * Runs
Open(a) == IF a.refused \/ a.light THEN {} ELSE {i \in Item : ~Over(a, i)}
Current(a) == CHOOSE i \in Open(a) : \A j \in Open(a) : i <= j

Passed(a) ==
  a.light \/ (~a.refused /\ \A i \in Item : Complete(a, i) /\ MedianTwice(a.valid[i]) >= 2 * Threshold)

-----------------------------------------------------------------------------
(* An audit, of a suite or alone.                                          *)
Move(w, a) == aud' = [aud EXCEPT ![w] = a]
To(w, pc) == [aud[w] EXCEPT !.pc = pc]
Failed(w, pc) == [aud[w] EXCEPT !.pc = pc, !.out = "failed"]

\* Inside a suite --base is asked for; alone it may be left out.  Nothing is done when the base shows no need.
Begin(w, withBase, light) ==
  LET base == AuditBase(head)
      out == IF ~withBase THEN "none" ELSE IF base = 0 THEN "failed"
             ELSE IF Impact(Changed(base, head)) = {} THEN "not required" ELSE "none"
  IN /\ aud[w] = NoAudit
     /\ IF w = "suite" THEN suite.on /\ suite.check = "todo" /\ withBase /\ ~light /\ UNCHANGED left
                       ELSE Spend("alone")
     /\ Move(w, [NoAudit EXCEPT !.pc = IF out # "none" THEN "release" ELSE IF light THEN "lock" ELSE "queue",
                   !.commit = head, !.base = IF withBase THEN base ELSE 0, !.light = light, !.out = out])
     /\ UNCHANGED <<gitVars, homes, queue, plock, server, suite, receipt, measured>>

\* Mutated form of EnterQueue: the load alone is waited for.
EnterWithoutQueue(w) ==
  /\ aud[w].pc = "queue" /\ Move(w, To(w, "lock"))
  /\ UNCHANGED <<gitVars, homes, queue, plock, server, suite, receipt, measured, left>>

\* enterAuditQueue: the suite already holds it.
EnterQueue(w) ==
  /\ aud[w].pc = "queue" /\ (w = "alone" => Free(queue))
  /\ queue' = IF w = "alone" THEN "alone" ELSE queue
  /\ Move(w, To(w, "lock"))
  /\ UNCHANGED <<gitVars, homes, plock, server, suite, receipt, measured, left>>

TakeLock(w) ==
  /\ aud[w].pc = "lock" /\ Free(plock) /\ plock' = w
  /\ Move(w, To(w, "serve"))
  /\ UNCHANGED <<gitVars, homes, queue, server, suite, receipt, measured, left>>

\* A signal while it waits, or the end of the wait for the lock.
GiveUp(w) ==
  /\ aud[w].pc \in {"queue", "lock"} /\ Move(w, Failed(w, "release"))
  /\ UNCHANGED <<gitVars, homes, queue, plock, server, suite, receipt, measured, left>>

\* The preview of this copy that runs on the commit.
Reusable(w) == server.home = homes[w] /\ server.commit = aud[w].commit

Reuse(w) ==
  /\ aud[w].pc = "serve" /\ Reusable(w)
  /\ Move(w, [To(w, "measure") EXCEPT !.reused = TRUE])
  /\ UNCHANGED <<gitVars, homes, queue, plock, server, suite, receipt, measured, left>>

\* updatePreview stops the server of this copy; one of another copy keeps the port, and a start may fail.
Served(who, commit) ==
  \/ /\ server.home \in {"none", homes[who]}
     /\ server' = [home |-> homes[who], commit |-> commit, by |-> who]
  \/ server' = IF server.home = homes[who] THEN NoServer ELSE server

Replace(w) ==
  /\ aud[w].pc = "serve" /\ ~Reusable(w)
  /\ Served(w, aud[w].commit)
  /\ Move(w, IF server'.home = homes[w] THEN To(w, "measure") ELSE Failed(w, "unlock"))
  /\ UNCHANGED <<gitVars, homes, queue, plock, suite, receipt, measured, left>>

\* One run: valid with a score when the page is served; a load that stays too high ends them all.
Measure(w) ==
  LET a == aud[w]  i == Current(a)
      Tried == [a EXCEPT !.tries[i] = @ + 1]
  IN /\ a.pc = "measure" /\ Open(a) # {}
     /\ \/ Move(w, [a EXCEPT !.refused = TRUE])
        \/ Move(w, Tried)
        \/ /\ server # NoServer
           /\ \E s \in Scores : Move(w, [Tried EXCEPT !.valid[i] = Insert(@, s), !.seen = server.commit.files])
     /\ UNCHANGED <<gitVars, homes, queue, plock, server, suite, receipt, measured, left>>

\* The verdict, with the findings of the readiness checks; what the server showed is history.
Conclude(w) ==
  \E findings \in BOOLEAN :
  LET a == aud[w]  ok == ~findings /\ Passed(a)
  IN /\ a.pc = "measure" /\ Open(a) = {}
     /\ Move(w, [To(w, "stop") EXCEPT !.out = IF ok THEN "ok" ELSE "failed"])
     /\ measured' = IF ok /\ a.seen # <<>> THEN measured \cup Shown(a.seen) ELSE measured
     /\ UNCHANGED <<gitVars, homes, queue, plock, server, suite, receipt, left>>

Interrupt(w) ==
  /\ aud[w].pc = "measure" /\ Move(w, Failed(w, "stop"))
  /\ UNCHANGED <<gitVars, homes, queue, plock, server, suite, receipt, measured, left>>

StopOwn(w) ==
  /\ aud[w].pc = "stop" /\ Move(w, To(w, "unlock"))
  /\ server' = IF ~aud[w].reused /\ server.home = homes[w] THEN NoServer ELSE server
  /\ UNCHANGED <<gitVars, homes, queue, plock, suite, receipt, measured, left>>

Unlock(w) ==
  /\ aud[w].pc = "unlock" /\ plock' = "none" /\ Move(w, To(w, "release"))
  /\ UNCHANGED <<gitVars, homes, queue, server, suite, receipt, measured, left>>

\* The queue last, then the record for the receipt.
Release(w) ==
  /\ aud[w].pc = "release" /\ Move(w, NoAudit)
  /\ queue' = IF w = "alone" /\ queue = "alone" THEN "none" ELSE queue
  /\ suite' = IF w = "suite" THEN [suite EXCEPT !.check = aud[w].out, !.base = aud[w].base] ELSE suite
  /\ UNCHANGED <<gitVars, homes, plock, server, receipt, measured, left>>

\* kill -9 of the command: its locks and its server stay behind; its suite sees a failure.
Kill(w) ==
  LET Left(holder) == IF holder = w THEN "dead" ELSE holder
  IN /\ aud[w] # NoAudit /\ Spend("kills") /\ Move(w, NoAudit)
     /\ plock' = Left(plock) /\ server' = [server EXCEPT !.by = Left(@)]
     /\ queue' = IF w = "alone" THEN Left(queue) ELSE queue
     /\ suite' = IF w = "suite" THEN [suite EXCEPT !.check = "failed"] ELSE suite
     /\ UNCHANGED <<gitVars, homes, receipt, measured>>

-----------------------------------------------------------------------------
(* The full suite that has this check.                                     *)
SuiteStart ==
  /\ ~suite.on /\ Free(queue) /\ queue' = "suite" /\ Spend("suites")
  /\ suite' = [NoSuite EXCEPT !.on = TRUE, !.commit = head]
  /\ UNCHANGED <<gitVars, homes, plock, server, aud, receipt, measured>>

SuiteEnd ==
  /\ suite.on /\ suite.check # "todo"
  /\ receipt' = [commit |-> suite.commit, ok |-> suite.check # "failed",
                 audited |-> suite.check = "ok", base |-> suite.base]
  /\ suite' = NoSuite /\ queue' = "none"
  /\ UNCHANGED <<gitVars, homes, plock, server, aud, measured, left>>

-----------------------------------------------------------------------------
(* The user: commits (not under his suite), previews; and the others.  An  *)
(* audit that has begun reads none of Git.                                 *)
Unread == \A w \in Side : aud[w].pc \in {"idle", "queue"}

Commit ==
  /\ ~suite.on /\ Unread /\ Spend("commits")
  /\ \E f \in File : \E v \in {head.n + 1, main[head.fork][f]} \ {head.files[f]} :
       head' = [head EXCEPT !.n = @ + 1, !.own = TRUE, !.files[f] = v]
  /\ UNCHANGED <<main, fetched, homes, queue, plock, server, suite, aud, receipt, measured>>

\* A merge of two versions of the files, file by file; none on a conflict.
Merges(base, ours, theirs) ==
  {m \in {[f \in File |-> IF ours[f] = base[f] THEN theirs[f] ELSE ours[f]]} :
     \A f \in File : ours[f] = base[f] \/ theirs[f] \in {base[f], ours[f]}}

Fetch ==
  /\ Unread /\ fetched # Len(main) /\ fetched' = Len(main)
  /\ UNCHANGED <<main, head, homes, queue, plock, server, suite, aud, receipt, measured, left>>

Rebase ==
  /\ ~suite.on /\ Unread /\ head.fork < fetched
  /\ \E m \in Merges(main[head.fork], head.files, main[fetched]) :
       head' = [head EXCEPT !.fork = fetched, !.files = m]
  /\ UNCHANGED <<main, fetched, homes, queue, plock, server, suite, aud, receipt, measured, left>>

\* A pull request of this branch, verified, or of others, whose audits are theirs.
Publish ==
  /\ Unread /\ Verified(head) /\ \E m \in Merges(main[head.fork], head.files, Last(main)) :
                         m # Last(main) /\ main' = Append(main, m)
  /\ UNCHANGED <<fetched, head, homes, queue, plock, server, suite, aud, receipt, measured, left>>

OthersPublish ==
  /\ Unread /\ Spend("others")
  /\ \E f \in File : main' = Append(main, [Last(main) EXCEPT ![f] = 100 + left["others"]])
  /\ measured' = measured \cup Shown(Last(main'))
  /\ UNCHANGED <<fetched, head, homes, queue, plock, server, suite, aud, receipt>>

\* A preview started or brought up to date; one stopped is one whose start failed.
UserTakesLock ==
  /\ Free(plock) /\ plock' = "user" /\ Spend("previews")
  /\ UNCHANGED <<gitVars, homes, queue, server, suite, aud, receipt, measured>>

UserPreviews ==
  /\ plock = "user" /\ plock' = "none"
  /\ Served("user", head)
  /\ UNCHANGED <<gitVars, homes, queue, suite, aud, receipt, measured, left>>

ServerDies ==
  /\ server # NoServer /\ (\E w \in Side : aud[w].pc \in {"serve", "measure"}) /\ server' = NoServer
  /\ UNCHANGED <<gitVars, homes, queue, plock, suite, aud, receipt, measured, left>>

Rest == ~suite.on /\ Free(plock) /\ (\A w \in Side : aud[w] = NoAudit) /\ UNCHANGED vars

Next ==
  \/ \E w \in Side :
       \/ \E withBase, light \in BOOLEAN : Begin(w, withBase, light)
       \/ EnterQueue(w) \/ TakeLock(w) \/ GiveUp(w) \/ Reuse(w) \/ Replace(w) \/ Measure(w)
       \/ Conclude(w) \/ Interrupt(w) \/ StopOwn(w) \/ Unlock(w) \/ Release(w) \/ Kill(w)
  \/ SuiteStart \/ SuiteEnd
  \/ Commit \/ Fetch \/ Rebase \/ Publish \/ OthersPublish
  \/ UserTakesLock \/ UserPreviews \/ ServerDies \/ Rest

-----------------------------------------------------------------------------
(* Every version of a file of the site that is published was measured and  *)
(* accepted, whatever the receipts left out as not required.               *)
PublishedWasMeasured == \A i \in DOMAIN main : Shown(main[i]) \subseteq measured

(* An accepted audit measured every page on every device, as often as      *)
(* asked, and at least half of the runs of each reach the threshold.       *)
AcceptedIsMeasured ==
  \A w \in Side : aud[w].pc = "stop" /\ aud[w].out = "ok" /\ ~aud[w].light =>
    \A i \in Item :
      /\ Len(aud[w].valid[i]) = Runs
      /\ 2 * Cardinality({k \in 1..Runs : aud[w].valid[i][k] >= Threshold}) >= Runs

(* While a side measures, no suite runs but its own, nobody else measures  *)
(* and the server on the port, if any, is not replaced; when no audit is   *)
(* under way, no server is one of an audit that ended, and neither lock is *)
(* kept from those that come: what a killed one leaves is for the taking.  *)
MeasuredInPeace ==
  /\ \A w \in Side : aud[w].pc = "measure" /\ ~aud[w].light =>
       /\ suite.on => w = "suite"
       /\ server.home \in {"none", homes[w]} /\ (server # NoServer => server.commit = aud[w].commit)
       /\ \A v \in Side : aud[v].pc = "measure" => v = w
  /\ (\A w \in Side : aud[w] = NoAudit) =>
       server.by \notin Side /\ plock \notin Side /\ (Free(queue) <=> ~suite.on)
=============================================================================
