-------------------------- MODULE TaskLedger_proofs --------------------------
(* For any number of runtimes, tasks and requests: a request has one task in  *)
(* the table. Every operation saves the receipt of a copy in memory, which    *)
(* may be of a row that has been deleted since; the argument is that a row    *)
(* comes into being, or comes back, only by a save that the unique index      *)
(* admits, and that everything else leaves absent rows absent.                *)
(*                                                                            *)
(* And for any number of runtimes: a copy that no other runtime has overtaken *)
(* agrees with its row, but where a boot has decided otherwise.  A save        *)
(* overtakes the copies of every other runtime, so that only saves of          *)
(* overtaken copies escape the argument; from it follow what may become of a   *)
(* settled task, of its owner and of its evidence.                             *)
EXTENDS TaskLedger, FiniteSetTheorems, TLAPS

\* The table has a row, present or absent, for every task.
Table == rows = [t \in Tasks |-> rows[t]]

\* What the proof of OneTaskPerRequest carries along.
IndexInv == Table /\ OneTaskPerRequest

\* No row comes into being.
NoneAppears ==
    Table' /\ \A t \in Tasks : Absent(rows[t]) => Absent(rows'[t])

\* Every present task stands for itself: a step by which no row comes into being
\* keeps the requests apart.
LEMMA NoneAppearsKeeps == IndexInv /\ NoneAppears => IndexInv'
  BY DEF IndexInv, NoneAppears, OneTaskPerRequest

\* save_task under the unique index keeps the requests apart.
LEMMA SaveKeeps ==
    ASSUME NEW t \in Tasks, NEW rec, IndexInv, SaveAdmits(t, rec), Saved(t, rec)
    PROVE  IndexInv'
<1>1. /\ rows' = [u \in Tasks |-> IF u = t THEN rec ELSE rows[u]]
      /\ \A u \in Tasks : u # t => rows'[u] = rows[u]
  BY DEF IndexInv, Table, Saved
<1>2. Table'
  BY <1>1 DEF Table
<1>3. \A u \in Tasks \ {t} : RequestOf[u] = RequestOf[t] => Absent(rows'[u])
  BY <1>1 DEF SaveAdmits
<1>4. OneTaskPerRequest'
  <2>1. SUFFICES ASSUME NEW a \in Tasks, NEW b \in Tasks, a # b,
                        RequestOf[a] = RequestOf[b]
                 PROVE  Absent(rows'[a]) \/ Absent(rows'[b])
    BY DEF OneTaskPerRequest
  <2>2. CASE a = t
    BY <1>3, <2>1, <2>2
  <2>3. CASE b = t
    BY <1>3, <2>1, <2>3
  <2>4. CASE a # t /\ b # t
    BY <1>1, <2>1, <2>4 DEF IndexInv, OneTaskPerRequest
  <2> QED BY <2>2, <2>3, <2>4
<1> QED BY <1>2, <1>4 DEF IndexInv

\* A table that is left alone.
LEMMA SameKeeps == IndexInv /\ rows' = rows => IndexInv'
  BY DEF IndexInv, Table, OneTaskPerRequest

\* The operations of a runtime on one task.
LEMMA LedgerStepKeeps ==
    ASSUME NEW r \in Runtimes, NEW t \in Tasks, IndexInv, LedgerStep(r, t)
    PROVE  IndexInv'
<1>1. ASSUME NEW rec, Commit(r, t, rec) PROVE IndexInv'
  BY <1>1, SaveKeeps DEF Commit
<1>2. CASE Enqueue(r, t)
  <2>1. PICK tree \in Trees :
          LET rec == NewReceipt("queued", tree,
                                Cardinality({u \in Tasks : rows[u].status # "unborn"}))
          IN  \/ SaveAdmits(t, rec) /\ Saved(t, rec)
              \/ rows' = rows
    BY <1>2 DEF Enqueue
  <2> QED BY <2>1, SaveKeeps, SameKeeps
<1>3. CASE BindExecution(r, t)
  BY <1>1, <1>3 DEF BindExecution
<1>4. CASE RollbackClaim(r, t)
  BY <1>1, <1>4 DEF RollbackClaim
<1>5. ASSUME NEW o \in Owners,
             \/ Start(r, t, o) \/ Resume(r, t, o)
             \/ \E l \in Leases : Reactivate(r, t, o, l)
             \/ \E s \in Asked \cap {"succeeded", "failed", "cancelled"} : Finish(r, t, s, o)
      PROVE  IndexInv'
  BY <1>1, <1>5 DEF Start, Resume, Reactivate, Finish
<1>6. ASSUME NEW s \in Asked, NEW o \in Owners \cup {None}, NEW l \in Leases \cup {None},
             NEW a \in Arguments, Transition(r, t, s, o, l, a.evidence, a.git, a.detail)
      PROVE  IndexInv'
  BY <1>1, <1>6 DEF Transition
<1>7. CASE BootStale(r, t)
  BY <1>1, <1>7 DEF BootStale
<1> QED BY <1>2, <1>3, <1>4, <1>5, <1>6, <1>7 DEF LedgerStep

\* A boot corrects rows that are there.
LEMMA BootKeeps ==
    ASSUME NEW r \in Runtimes, NEW mode \in Modes, IndexInv, Boot(r, mode)
    PROVE  IndexInv'
<1>1. PICK corrected \in [Tasks -> UNION {Corrections(t) : t \in Tasks}] :
        /\ \A t \in Tasks : corrected[t] \in Corrections(t)
        /\ rows' = corrected
  BY DEF Boot
<1>2. ASSUME NEW t \in Tasks, Absent(rows[t]) PROVE Absent(rows'[t])
  <2>1. rows[t].status # "succeeded"
    BY <1>2 DEF Absent
  <2>2. corrected[t] \in Corrections(t)
    BY <1>1
  <2>3. Corrections(t) = {rows[t]}
    BY <2>1 DEF Corrections
  <2> QED BY <1>1, <1>2, <2>2, <2>3
<1>3. Table'
  BY <1>1 DEF Table
<1> QED BY <1>2, <1>3, NoneAppearsKeeps DEF NoneAppears

\* The sweep of a recovering boot writes only rows that are in flight.
LEMMA SweepKeeps ==
    ASSUME NEW r \in Runtimes, IndexInv, BootSweep(r)
    PROVE  IndexInv'
<1>1. PICK known \in SUBSET {t \in Tasks : rows[t].tree = "session"} :
      \E recovered \in SUBSET {t \in known \cap live \cap Ledger(r) : rows[t].status \in InFlight} :
          rows' = [t \in Tasks |->
                     IF t \in recovered
                     THEN TakenUp(mem[r][t], "running", rows[t].owner, rows[t].lease)
                     ELSE IF t \in known /\ rows[t].status \in InFlight
                     THEN [rows[t] EXCEPT !.status = "stale"] ELSE rows[t]]
  BY DEF BootSweep
<1>2. PICK recovered \in SUBSET {t \in known \cap live \cap Ledger(r) : rows[t].status \in InFlight} :
          rows' = [t \in Tasks |->
                     IF t \in recovered
                     THEN TakenUp(mem[r][t], "running", rows[t].owner, rows[t].lease)
                     ELSE IF t \in known /\ rows[t].status \in InFlight
                     THEN [rows[t] EXCEPT !.status = "stale"] ELSE rows[t]]
  BY <1>1
<1>3. ASSUME NEW t \in Tasks, Absent(rows[t]) PROVE Absent(rows'[t])
  <2>1. rows[t].status \notin InFlight
    BY <1>3 DEF Absent, InFlight
  <2>2. rows'[t] = rows[t]
    BY <1>2, <2>1
  <2> QED BY <1>3, <2>2
<1>4. Table'
  BY <1>2 DEF Table
<1> QED BY <1>3, <1>4, NoneAppearsKeeps DEF NoneAppears

\* Every step keeps the requests apart.
LEMMA StepKeeps == IndexInv /\ [Next]_vars => IndexInv'
<1> SUFFICES ASSUME IndexInv, [Next]_vars PROVE IndexInv'
  OBVIOUS
<1>1. ASSUME NEW r \in Runtimes, NEW t \in Tasks, LedgerStep(r, t) PROVE IndexInv'
  BY <1>1, LedgerStepKeeps
<1>2. ASSUME NEW r \in Runtimes, NEW mode \in Modes, Boot(r, mode) PROVE IndexInv'
  BY <1>2, BootKeeps
<1>3. ASSUME NEW r \in Runtimes, BootSweep(r) PROVE IndexInv'
  BY <1>3, SweepKeeps
<1>4. ASSUME NEW r \in Runtimes, Crash(r) \/ BootDone(r) PROVE IndexInv'
  BY <1>4, SameKeeps DEF Crash, BootDone
<1>5. ASSUME NEW t \in Tasks, Cleanup(t) PROVE IndexInv'
  <2>1. NoneAppears
    BY <1>5 DEF Cleanup, NoneAppears, IndexInv, Table, NoRow, NewReceipt, Absent
  <2> QED BY <2>1, NoneAppearsKeeps
<1>6. ASSUME NEW t \in Tasks, LeaseChanges(t) PROVE IndexInv'
  BY <1>6, SameKeeps DEF LeaseChanges
<1>7. CASE UNCHANGED vars
  BY <1>7, SameKeeps DEF vars
<1> QED BY <1>1, <1>2, <1>3, <1>4, <1>5, <1>6, <1>7 DEF Next

\* TaskLedger.enqueue looks for a request in its own memory only, which trims and
\* restarts empty; however many runtimes enqueue it, a request has one task in the
\* table.
THEOREM RequestsAreEnqueuedOnce == Spec => []OneTaskPerRequest
<1>1. Init => IndexInv
  BY DEF Init, IndexInv, Table, OneTaskPerRequest, NoRow, NewReceipt, Absent
<1>2. IndexInv => OneTaskPerRequest
  BY DEF IndexInv
<1> QED BY <1>1, <1>2, StepKeeps, PTL DEF Spec

-----------------------------------------------------------------------------
(* What a copy of a task and its row say of each other.                      *)

\* The tasks that have ever had a row.
Born == {u \in Tasks : rows[u].status # "unborn"}

\* A copy says what the row says, but for the status: it may hold for stale a
\* task that was in flight when the runtime started, and for review-ready a
\* pushed task whose row is stale.
Agree(row, rec) ==
    /\ row.owner = rec.owner /\ row.tree = rec.tree
    /\ \/ rec.status = row.status
       \/ rec.status = "stale" /\ row.status \in InFlight
       \/ rec.status = "review_ready" /\ row.status = "stale" /\ rec.git = {"commit", "push"}

\* What holds of the copy of t in runtime r: the sweep of a recovering boot finds
\* every session's task stale in memory; and a copy that is not overtaken agrees
\* with the row that is there.
CopyOK(r, t) ==
    mem[r][t] # None =>
        /\ phase[r] = "recovering" /\ mem[r][t].tree = "session" =>
               mem[r][t].status \notin InFlight
        /\ <<r, t>> \notin overtaken =>
              /\ t \notin undone => mem[r][t].evidence \in {0, attempt[t]}
              /\ ~Absent(rows[t]) => Agree(rows[t], mem[r][t])

\* The inductive invariant.
LedgerInv ==
    /\ TypeOK
    /\ IsFiniteSet(Born)
    /\ \A t \in Tasks : t \notin undone => rows[t].evidence \in {0, attempt[t]}
    /\ \A r \in Runtimes, t \in Tasks : CopyOK(r, t)

-----------------------------------------------------------------------------
(* The receipts that operations make.                                        *)

LEMMA NewReceiptOK ==
    ASSUME NEW status \in Statuses \cup {"unborn", "deleted"},
           NEW tree \in {"none", "canonical", "session"}, NEW born \in Nat
    PROVE  /\ NewReceipt(status, tree, born) \in Receipts
           /\ NewReceipt(status, tree, born).status = status
           /\ NewReceipt(status, tree, born).evidence = 0
           /\ NewReceipt(status, tree, born).owner = None
           /\ NewReceipt(status, tree, born).tree = tree
BY DEF NewReceipt, Receipts

LEMMA MovedOK ==
    ASSUME NEW rec \in Receipts, NEW status \in Statuses, NEW o \in Owners \cup {None},
           NEW l \in Leases \cup {None}, NEW evidence, evidence \in Nat,
           NEW git \in SUBSET {"commit", "push"}, NEW detail \in {"", "text", "pushed"}
    PROVE  /\ Moved(rec, status, o, l, evidence, git, detail) \in Receipts
           /\ Moved(rec, status, o, l, evidence, git, detail).status \in {status}
           /\ Moved(rec, status, o, l, evidence, git, detail).owner \in {rec.owner, o}
           /\ o = None => Moved(rec, status, o, l, evidence, git, detail).owner \in {rec.owner}
           /\ Moved(rec, status, o, l, evidence, git, detail).evidence \in {rec.evidence, evidence}
<1> DEFINE a == [rec EXCEPT !.status = status]
           b == [a EXCEPT !.owner = IF o # None THEN o ELSE a.owner]
           c == [b EXCEPT !.lease = IF l # None THEN l ELSE b.lease]
           d == [c EXCEPT !.evidence = IF evidence # 0 THEN evidence ELSE c.evidence]
           e == [d EXCEPT !.git = d.git \cup git]
           f == [e EXCEPT !.detail = IF detail # "" THEN detail ELSE e.detail]
<1>1. /\ a \in Receipts /\ a.status = status /\ a.owner = rec.owner
      /\ a.evidence = rec.evidence
  BY DEF Receipts
<1> HIDE DEF a
<1>2. /\ b \in Receipts /\ b.status = status /\ b.owner \in {rec.owner, o}
      /\ (o = None => b.owner = rec.owner) /\ b.evidence = rec.evidence
  BY <1>1 DEF Receipts
<1> HIDE DEF b
<1>3. /\ c \in Receipts /\ c.status = status /\ c.owner = b.owner /\ c.evidence = b.evidence
  BY <1>2 DEF Receipts
<1> HIDE DEF c
<1>4. /\ d \in Receipts /\ d.status = status /\ d.owner = b.owner
      /\ d.evidence \in {b.evidence, evidence}
  BY <1>3 DEF Receipts
<1> HIDE DEF d
<1>5. /\ e \in Receipts /\ e.status = status /\ e.owner = b.owner /\ e.evidence = d.evidence
  BY <1>4 DEF Receipts
<1> HIDE DEF e
<1>6. /\ f \in Receipts /\ f.status = status /\ f.owner = b.owner /\ f.evidence = d.evidence
  BY <1>5 DEF Receipts
<1>7. f = Moved(rec, status, o, l, evidence, git, detail)
  BY DEF Moved, a, b, c, d, e, f
<1> HIDE DEF f
<1> QED BY <1>2, <1>4, <1>6, <1>7

LEMMA TakenUpOK ==
    ASSUME NEW rec \in Receipts, NEW status \in Statuses, NEW o \in Owners \cup {None},
           NEW l \in Leases \cup {None}
    PROVE  /\ TakenUp(rec, status, o, l) \in Receipts
           /\ TakenUp(rec, status, o, l).status = status
           /\ TakenUp(rec, status, o, l).owner = o
           /\ TakenUp(rec, status, o, l).evidence = 0
           /\ TakenUp(rec, status, o, l).tree = rec.tree
<1> DEFINE a == NewReceipt(status, rec.tree, rec.born)
           b == [a EXCEPT !.owner = o]
           c == [b EXCEPT !.lease = l]
<1>1. a \in Receipts /\ a.status = status /\ a.evidence = 0 /\ a.tree = rec.tree
  <2>1. rec.tree \in {"none", "canonical", "session"} /\ rec.born \in Nat
    BY DEF Receipts
  <2> QED BY <2>1, NewReceiptOK
<1> HIDE DEF a
<1>2. b \in Receipts /\ b.status = status /\ b.evidence = 0 /\ b.tree = rec.tree /\ b.owner = o
  BY <1>1 DEF Receipts
<1> HIDE DEF b
<1>3. c \in Receipts /\ c.status = status /\ c.evidence = 0 /\ c.tree = rec.tree /\ c.owner = o
  BY <1>2 DEF Receipts
<1>4. c = TakenUp(rec, status, o, l)
  BY DEF TakenUp, a, b, c
<1> HIDE DEF c
<1> QED BY <1>3, <1>4

\* What the ledger's operations save for a task they already hold as m: its
\* settled status does not change, its owner is kept or given up, and its
\* evidence is none or that of the attempt.
Lawful(m, rec, now) ==
    /\ rec \in Receipts
    /\ m.status \in Settled => rec.status = m.status
    /\ m.owner # None => rec.owner \in {m.owner, None}
    /\ m.evidence \in {0, now} => rec.evidence \in {0, now}

\* A task that is taken up again begins an attempt without evidence.
Renewed(m, rec) ==
    /\ rec \in Receipts /\ m.status = "stale" /\ rec.evidence = 0
    /\ m.owner # None => rec.owner \in {m.owner, None}

\* A save by a runtime of a task it holds.
HeldSave(r, t) ==
    \E rec \in Receipts :
        /\ t \in Ledger(r) /\ phase[r] \in {"up", "preserving"} /\ phase' = phase
        /\ Commit(r, t, rec)
        /\ \/ Lawful(mem[r][t], rec, attempt[t]) /\ attempt' = attempt
           \/ /\ Renewed(mem[r][t], rec)
              /\ attempt' = [attempt EXCEPT ![t] = @ + 1]

LEMMA Held ==
    ASSUME TypeOK, NEW r \in Runtimes, NEW t \in Tasks, t \in Ledger(r)
    PROVE  mem[r][t] \in Receipts
BY DEF TypeOK, Ledger

\* Every operation on a task the runtime holds is such a save.
LEMMA LedgerStepIs ==
    ASSUME TypeOK, NEW r \in Runtimes, NEW t \in Tasks, LedgerStep(r, t)
    PROVE  Enqueue(r, t) \/ HeldSave(r, t)
<1> DEFINE m == mem[r][t]
<1>1. attempt[t] \in Nat
  BY DEF TypeOK
<1>2. CASE BindExecution(r, t)
  <2>1. m \in Receipts
    BY <1>2, Held DEF BindExecution
  <2>2. Lawful(m, [m EXCEPT !.tree = "session"], attempt[t])
    <3> HIDE DEF m
    <3> QED BY <2>1 DEF Lawful, Receipts
  <2> QED BY <1>2, <2>2 DEF BindExecution, HeldSave, Lawful
<1>3. CASE RollbackClaim(r, t)
  <2>1. m \in Receipts
    BY <1>3, Held DEF RollbackClaim
  <2> DEFINE a == [m EXCEPT !.status = "ready"]
             b == [a EXCEPT !.owner = None]
             c == [b EXCEPT !.lease = None]
             d == [c EXCEPT !.tree = "none"]
  <2>2. a \in Receipts /\ a.evidence = m.evidence
    <3> HIDE DEF m
    <3> QED BY <2>1 DEF Receipts, Statuses
  <2> HIDE DEF a
  <2>3. b \in Receipts /\ b.evidence = m.evidence /\ b.owner = None
    BY <2>2 DEF Receipts
  <2> HIDE DEF b
  <2>4. c \in Receipts /\ c.evidence = m.evidence /\ c.owner = None
    BY <2>3 DEF Receipts
  <2> HIDE DEF c
  <2>5. d \in Receipts /\ d.evidence = m.evidence /\ d.owner = None
    BY <2>4 DEF Receipts
  <2>6. d = [m EXCEPT !.status = "ready", !.owner = None, !.lease = None, !.tree = "none"]
    BY DEF a, b, c, d
  <2>7. m.status \notin Settled
    BY <1>3 DEF RollbackClaim, Settled
  <2> HIDE DEF d
  <2>8. Lawful(m, d, attempt[t])
    BY <2>5, <2>7 DEF Lawful
  <2> QED BY <1>3, <2>5, <2>6, <2>8 DEF RollbackClaim, HeldSave
<1>4. ASSUME NEW o \in Owners, Start(r, t, o) PROVE HeldSave(r, t)
  <2>1. m \in Receipts
    BY <1>4, Held DEF Start
  <2> DEFINE rec == Moved(m, "running", o, None, 0, {}, "")
  <2>2. /\ rec \in Receipts /\ rec.status \in {"running"} /\ rec.owner \in {m.owner, o}
        /\ rec.evidence \in {m.evidence, 0}
    <3> HIDE DEF m
    <3>1. /\ "running" \in Statuses /\ o \in Owners \cup {None} /\ None \in Leases \cup {None}
          /\ 0 \in Nat /\ {} \in SUBSET {"commit", "push"} /\ "" \in {"", "text", "pushed"}
      BY DEF Statuses, InFlight
    <3> QED BY <2>1, <3>1, MovedOK
  <2>3. m.status \notin Settled /\ (o # None /\ m.owner # None => o = m.owner) /\ o # None
    BY <1>4, LedgerAssumption DEF Start, Settled, MayMove
  <2> HIDE DEF rec
  <2>4. Lawful(m, rec, attempt[t])
    BY <2>2, <2>3 DEF Lawful
  <2> QED BY <1>4, <2>2, <2>4 DEF Start, HeldSave, rec
<1>5. ASSUME NEW o \in Owners, Resume(r, t, o) PROVE HeldSave(r, t)
  <2>1. m \in Receipts
    BY <1>5, Held DEF Resume
  <2> DEFINE rec == TakenUp(m, "ready", None, None)
  <2>2. rec \in Receipts /\ rec.owner = None /\ rec.evidence = 0
    <3> HIDE DEF m
    <3> QED BY <2>1, TakenUpOK DEF Statuses
  <2> HIDE DEF rec
  <2>3. Renewed(m, rec)
    BY <1>5, <2>2 DEF Renewed, Resume
  <2> QED BY <1>5, <2>2, <2>3 DEF Resume, HeldSave, rec
<1>6. ASSUME NEW o \in Owners, NEW l \in Leases, Reactivate(r, t, o, l) PROVE HeldSave(r, t)
  <2>1. m \in Receipts
    BY <1>6, Held DEF Reactivate
  <2> DEFINE rec == TakenUp(m, "running", o, l)
  <2>2. rec \in Receipts /\ rec.owner = o /\ rec.evidence = 0
    <3> HIDE DEF m
    <3> QED BY <2>1, TakenUpOK DEF Statuses, InFlight
  <2> HIDE DEF rec
  <2>3. Renewed(m, rec)
    BY <1>6, <2>2 DEF Renewed, Reactivate
  <2> QED BY <1>6, <2>2, <2>3 DEF Reactivate, HeldSave, rec
<1>7. ASSUME NEW s \in Asked \cap {"succeeded", "failed", "cancelled"}, NEW o \in Owners,
             Finish(r, t, s, o)
      PROVE  HeldSave(r, t)
  <2>1. m \in Receipts
    BY <1>7, Held DEF Finish
  <2> DEFINE rec == Moved(m, s, None, None, 0, {}, "text")
  <2>2. rec \in Receipts /\ rec.owner \in {m.owner} /\ rec.evidence \in {m.evidence, 0}
    <3> HIDE DEF m
    <3>1. /\ s \in Statuses /\ None \in Owners \cup {None} /\ None \in Leases \cup {None}
          /\ 0 \in Nat /\ {} \in SUBSET {"commit", "push"} /\ "text" \in {"", "text", "pushed"}
      BY DEF Statuses, Terminal, Settled
    <3> QED BY <2>1, <3>1, MovedOK
  <2>3. m.status \notin Settled
    BY <1>7 DEF Finish, Settled
  <2> HIDE DEF rec
  <2>4. Lawful(m, rec, attempt[t])
    BY <2>2, <2>3 DEF Lawful
  <2> QED BY <1>7, <2>2, <2>4 DEF Finish, HeldSave, rec
<1>8. ASSUME NEW s \in Asked, NEW o \in Owners \cup {None}, NEW l \in Leases \cup {None},
             NEW a \in Arguments, Transition(r, t, s, o, l, a.evidence, a.git, a.detail)
      PROVE  HeldSave(r, t)
  <2>1. m \in Receipts
    BY <1>8, Held DEF Transition
  <2> DEFINE given == IF a.evidence THEN attempt[t] ELSE 0
             g == a.git
             d == a.detail
             rec == Moved(m, s, o, l, given, g, d)
  <2>2. given \in Nat /\ given \in {0, attempt[t]}
    BY <1>1
  <2>3. /\ g \in SUBSET {"commit", "push"} /\ d \in {"", "text", "pushed"}
        /\ s \in Statuses
    BY LedgerAssumption
  <2>4. /\ rec \in Receipts /\ rec.status \in {s} /\ rec.owner \in {m.owner, o}
        /\ o = None => rec.owner \in {m.owner}
        /\ rec.evidence \in {m.evidence, given}
    <3> HIDE DEF m, given, g, d
    <3> QED BY <2>1, <2>2, <2>3, MovedOK
  <2>5. /\ o # None /\ m.owner # None => o = m.owner
        /\ m.status # s => s \in Transitions[m.status]
    BY <1>8 DEF Transition, MayMove
  <2>6. m.status \in Settled => s = m.status
    BY <2>5 DEF Settled, Transitions
  <2>7. Commit(r, t, rec)
    BY <1>8 DEF Transition
  <2> HIDE DEF rec, given, g, d
  <2>8. Lawful(m, rec, attempt[t])
    BY <2>2, <2>4, <2>5, <2>6 DEF Lawful
  <2> QED BY <1>8, <2>4, <2>7, <2>8 DEF Transition, HeldSave
<1>9. CASE BootStale(r, t)
  <2>1. m \in Receipts
    BY <1>9, Held DEF BootStale
  <2> DEFINE rec == Moved(m, "stale", None, None, 0, {}, "text")
  <2>2. rec \in Receipts /\ rec.owner \in {m.owner} /\ rec.evidence \in {m.evidence, 0}
    <3> HIDE DEF m
    <3>1. /\ "stale" \in Statuses /\ None \in Owners \cup {None} /\ None \in Leases \cup {None}
          /\ 0 \in Nat /\ {} \in SUBSET {"commit", "push"} /\ "text" \in {"", "text", "pushed"}
      BY DEF Statuses, Terminal
    <3> QED BY <2>1, <3>1, MovedOK
  <2>3. m.status \notin Settled
    BY <1>9 DEF BootStale, Settled, InFlight
  <2> HIDE DEF rec
  <2>4. Lawful(m, rec, attempt[t])
    BY <2>2, <2>3 DEF Lawful
  <2> QED BY <1>9, <2>2, <2>4 DEF BootStale, HeldSave, rec
<1> QED BY <1>2, <1>3, <1>4, <1>5, <1>6, <1>7, <1>8, <1>9 DEF LedgerStep

-----------------------------------------------------------------------------
(* Every step preserves the invariant, and unless it saves an overtaken copy *)
(* it leaves settled tasks settled and passes no task from one owner to      *)
(* another.                                                                  *)

SettledStep(t) ==
    rows[t].status \in Settled =>
       \/ rows'[t].status \in {rows[t].status, "deleted"}
       \/ rows[t].status = "succeeded" /\ rows'[t].status \in {"failed", "blocked"}
       \/ SavesOvertaken(t)

OwnerStep(t) ==
    ~Absent(rows[t]) /\ ~Absent(rows'[t]) /\ rows[t].owner # None
       => rows'[t].owner \in {rows[t].owner, None} \/ SavesOvertaken(t)

\* What has to be shown of a step of runtime r, of one task and of r's own copy.
TaskOK(r, t) ==
    /\ SettledStep(t) /\ OwnerStep(t)
    /\ rows'[t] \in Receipts /\ mem'[r][t] \in Receipts \cup {None} /\ attempt'[t] \in Nat
    /\ t \notin undone' => rows'[t].evidence \in {0, attempt'[t]}
    /\ CopyOK(r, t)'

\* What Overtake does to single copies.
LEMMA OvertakeIs ==
    ASSUME TypeOK, NEW r \in Runtimes, NEW fresh \in SUBSET Tasks, NEW changed \in SUBSET Tasks,
           Overtake(r, fresh, changed)
    PROVE  /\ overtaken' \in SUBSET (Runtimes \X Tasks) /\ undone' \in SUBSET Tasks
           /\ \A t \in Tasks : t \in undone => t \in undone'
           /\ \A t \in fresh : <<r, t>> \notin overtaken'
           /\ \A t \in fresh \cap changed : <<r, t>> \in overtaken => t \in undone'
           /\ \A t \in Tasks \ fresh : <<r, t>> \in overtaken => <<r, t>> \in overtaken'
           /\ \A s \in Runtimes \ {r}, t \in Tasks :
                 /\ <<s, t>> \in overtaken => <<s, t>> \in overtaken'
                 /\ t \in changed /\ mem[s][t] # None => <<s, t>> \in overtaken'
<1>1. /\ overtaken \in SUBSET (Runtimes \X Tasks) /\ undone \in SUBSET Tasks
  BY DEF TypeOK
<1>2. /\ overtaken' = (overtaken \cup {p \in Runtimes \X changed : p[1] # r /\ p[2] \in Ledger(p[1])})
                         \ ({r} \X fresh)
      /\ undone' = undone \cup {t \in fresh \cap changed : <<r, t>> \in overtaken}
  BY DEF Overtake
<1>3. overtaken' \in SUBSET (Runtimes \X Tasks) /\ undone' \in SUBSET Tasks
  BY <1>1, <1>2
<1>4. ASSUME NEW s \in Runtimes \ {r}, NEW t \in Tasks
      PROVE  /\ <<s, t>> \in overtaken => <<s, t>> \in overtaken'
             /\ t \in changed /\ mem[s][t] # None => <<s, t>> \in overtaken'
  <2>1. <<s, t>> \notin {r} \X fresh
    OBVIOUS
  <2>2. ASSUME t \in changed, mem[s][t] # None
        PROVE  <<s, t>> \in {p \in Runtimes \X changed : p[1] # r /\ p[2] \in Ledger(p[1])}
    BY <2>2 DEF Ledger
  <2> QED BY <1>2, <2>1, <2>2
<1>5. \A t \in fresh : <<r, t>> \notin overtaken'
  BY <1>2
<1>6. \A t \in Tasks \ fresh : <<r, t>> \in overtaken => <<r, t>> \in overtaken'
  BY <1>2
<1> QED BY <1>2, <1>3, <1>4, <1>5, <1>6

\* It is enough to look at the acting runtime's own copies: those of the others are
\* of rows that the step leaves alone, or are overtaken by it.
LEMMA TasksKeep ==
    ASSUME LedgerInv, NEW r \in Runtimes,
           rows' = [t \in Tasks |-> rows'[t]],
           mem' = [mem EXCEPT ![r] = [t \in Tasks |-> mem'[r][t]]],
           attempt' = [t \in Tasks |-> attempt'[t]],
           NEW p \in {"up", "down"} \cup Modes, phase' = [phase EXCEPT ![r] = p],
           live' \in SUBSET Tasks,
           NEW fresh \in SUBSET Tasks, NEW changed \in SUBSET Tasks, Overtake(r, fresh, changed),
           \A t \in Tasks \ changed : rows'[t] = rows[t] /\ attempt'[t] = attempt[t],
           NEW t0, \A t \in Tasks \ {t0} : rows[t].status = "unborn" => rows'[t].status = "unborn",
           \A t \in Tasks : TaskOK(r, t)
    PROVE  LedgerInv' /\ \A t \in Tasks : SettledStep(t) /\ OwnerStep(t)
<1>1. /\ TypeOK /\ mem \in [Runtimes -> [Tasks -> Receipts \cup {None}]]
      /\ phase \in [Runtimes -> {"up", "down"} \cup Modes]
  BY DEF LedgerInv, TypeOK
<1>2. mem' \in [Runtimes -> [Tasks -> Receipts \cup {None}]] /\ \A s \in Runtimes \ {r} : mem'[s] = mem[s]
  <2>1. [t \in Tasks |-> mem'[r][t]] \in [Tasks -> Receipts \cup {None}]
    BY DEF TaskOK
  <2> DEFINE m == [t \in Tasks |-> mem'[r][t]]
  <2>2. mem' = [mem EXCEPT ![r] = m] /\ m \in [Tasks -> Receipts \cup {None}]
    BY <2>1
  <2> HIDE DEF m
  <2> QED BY <1>1, <2>2
<1>3. /\ phase' \in [Runtimes -> {"up", "down"} \cup Modes]
      /\ \A s \in Runtimes \ {r} : phase'[s] = phase[s]
  BY <1>1
<1>4. /\ overtaken' \in SUBSET (Runtimes \X Tasks) /\ undone' \in SUBSET Tasks
      /\ \A t \in Tasks : t \in undone => t \in undone'
      /\ \A s \in Runtimes \ {r}, t \in Tasks :
            /\ <<s, t>> \in overtaken => <<s, t>> \in overtaken'
            /\ t \in changed /\ mem[s][t] # None => <<s, t>> \in overtaken'
  BY <1>1, OvertakeIs
<1>5. TypeOK'
  BY <1>2, <1>3, <1>4 DEF TaskOK, TypeOK
<1>6. IsFiniteSet(Born')
  <2>1. Born' \in SUBSET (Born \cup {t0})
    BY DEF Born
  <2>2. IsFiniteSet(Born \cup {t0})
    BY FS_AddElement DEF LedgerInv
  <2> QED BY <2>1, <2>2, FS_Subset
<1>7. \A t \in Tasks : t \notin undone' => rows'[t].evidence \in {0, attempt'[t]}
  BY DEF TaskOK
<1>8. ASSUME NEW s \in Runtimes, NEW t \in Tasks PROVE CopyOK(s, t)'
  <2>1. CASE s = r
    BY <2>1 DEF TaskOK
  <2>2. CASE s # r
    <3>1. mem'[s][t] = mem[s][t] /\ phase'[s] = phase[s] /\ CopyOK(s, t)
      BY <1>2, <1>3, <2>2 DEF LedgerInv
    <3>2. CASE t \in changed
      <4>1. mem[s][t] # None => <<s, t>> \in overtaken'
        BY <1>4, <2>2, <3>2
      <4> QED BY <3>1, <4>1 DEF CopyOK
    <3>3. CASE t \notin changed
      <4>1. rows'[t] = rows[t] /\ attempt'[t] = attempt[t]
        BY <3>3
      <4>2. /\ <<s, t>> \in overtaken => <<s, t>> \in overtaken'
            /\ t \in undone => t \in undone'
        BY <1>4, <2>2
      <4> QED BY <3>1, <4>1, <4>2 DEF CopyOK, Absent, Agree
    <3> QED BY <3>2, <3>3
  <2> QED BY <2>1, <2>2
<1>9. \A t \in Tasks : SettledStep(t) /\ OwnerStep(t)
  BY DEF TaskOK
<1>10. LedgerInv'
  BY <1>5, <1>6, <1>7, <1>8 DEF LedgerInv
<1> QED BY <1>9, <1>10

\* A task that a step leaves alone, in the table and in memory.
LEMMA TaskStays ==
    ASSUME LedgerInv, NEW r \in Runtimes, NEW t \in Tasks,
           rows'[t] = rows[t], mem'[r][t] \in {mem[r][t], None}, attempt'[t] = attempt[t],
           phase'[r] = "recovering" => phase[r] = "recovering",
           t \in undone => t \in undone',
           <<r, t>> \in overtaken => <<r, t>> \in overtaken'
    PROVE  TaskOK(r, t)
<1>1. CopyOK(r, t)'
  BY DEF LedgerInv, CopyOK, Absent, Agree
<1>2. SettledStep(t) /\ OwnerStep(t)
  BY DEF SettledStep, OwnerStep
<1>3. rows'[t] \in Receipts /\ mem'[r][t] \in Receipts \cup {None} /\ attempt'[t] \in Nat
  BY DEF LedgerInv, TypeOK
<1>4. t \notin undone' => rows'[t].evidence \in {0, attempt'[t]}
  BY DEF LedgerInv
<1> QED BY <1>1, <1>2, <1>3, <1>4 DEF TaskOK

\* A save of a task: if the copy is not overtaken it agrees with its row.
LEMMA SavedTask ==
    ASSUME LedgerInv, NEW r \in Runtimes, NEW t \in Tasks, NEW rec \in Receipts,
           t \in Ledger(r), phase'[r] # "recovering",
           rows'[t] = rec, mem'[r][t] = rec,
           t \in undone => t \in undone',
           <<r, t>> \notin overtaken', <<r, t>> \in overtaken => t \in undone',
           \/ Lawful(mem[r][t], rec, attempt[t]) /\ attempt'[t] = attempt[t]
           \/ Renewed(mem[r][t], rec) /\ attempt'[t] = attempt[t] + 1
    PROVE  TaskOK(r, t)
<1> DEFINE m == mem[r][t]
<1>1. m \in Receipts /\ attempt[t] \in Nat /\ attempt'[t] \in Nat
  BY Held DEF LedgerInv, TypeOK
<1>2. Agree(rec, rec)
  BY DEF Agree
<1>3. CASE <<r, t>> \in overtaken
  <2>1. SavesOvertaken(t)
    BY <1>3 DEF SavesOvertaken
  <2>2. t \in undone'
    BY <1>3
  <2>3. SettledStep(t) /\ OwnerStep(t)
    BY <2>1 DEF SettledStep, OwnerStep
  <2>4. CopyOK(r, t)'
    BY <1>2, <2>2 DEF CopyOK, Agree, Absent
  <2> QED BY <1>1, <2>2, <2>3, <2>4 DEF TaskOK
<1>4. CASE <<r, t>> \notin overtaken
  <2>1. /\ t \notin undone => m.evidence \in {0, attempt[t]}
        /\ ~Absent(rows[t]) => Agree(rows[t], m)
    BY <1>4 DEF LedgerInv, CopyOK, Ledger
  <2>2. t \notin undone' => rec.evidence \in {0, attempt'[t]}
    BY <2>1 DEF Lawful, Renewed
  <2>3. SettledStep(t)
    <3>1. CASE rows[t].status \in Settled
      <4>1. ~Absent(rows[t])
        BY <3>1 DEF Absent, Settled
      <4>2. m.status = rows[t].status
        BY <2>1, <3>1, <4>1 DEF Agree, Settled, InFlight
      <4>3. rec.status = m.status
        BY <3>1, <4>2 DEF Lawful, Renewed, Settled
      <4> QED BY <4>2, <4>3 DEF SettledStep
    <3>2. CASE rows[t].status \notin Settled
      BY <3>2 DEF SettledStep
    <3> QED BY <3>1, <3>2
  <2>4. OwnerStep(t)
    BY <2>1 DEF OwnerStep, Agree, Lawful, Renewed
  <2>5. CopyOK(r, t)'
    BY <1>2, <2>2 DEF CopyOK, Agree, Absent
  <2> QED BY <1>1, <2>2, <2>3, <2>4, <2>5 DEF TaskOK
<1> QED BY <1>3, <1>4

Kept == LedgerInv' /\ \A t \in Tasks : SettledStep(t) /\ OwnerStep(t)

LEMMA HeldSaveKeeps ==
    ASSUME LedgerInv, NEW r \in Runtimes, NEW t \in Tasks, HeldSave(r, t)
    PROVE  Kept
<1>1. PICK rec \in Receipts :
        /\ t \in Ledger(r) /\ phase[r] \in {"up", "preserving"} /\ phase' = phase
        /\ Commit(r, t, rec)
        /\ \/ Lawful(mem[r][t], rec, attempt[t]) /\ attempt' = attempt
           \/ /\ Renewed(mem[r][t], rec)
              /\ attempt' = [attempt EXCEPT ![t] = @ + 1]
  BY DEF HeldSave
<1>2. /\ rows \in [Tasks -> Receipts] /\ mem \in [Runtimes -> [Tasks -> Receipts \cup {None}]]
      /\ attempt \in [Tasks -> Nat] /\ live \in SUBSET Tasks
      /\ phase \in [Runtimes -> {"up", "down"} \cup Modes]
  BY DEF LedgerInv, TypeOK
<1>3. /\ rows' = [rows EXCEPT ![t] = rec] /\ mem' = [mem EXCEPT ![r][t] = rec] /\ live' = live
      /\ Overtake(r, {t}, {t}) /\ phase' = [phase EXCEPT ![r] = phase[r]]
      /\ phase[r] \in {"up", "down"} \cup Modes
  BY <1>1, <1>2 DEF Commit, Saved
<1> DEFINE ts == {t}
<1>8. /\ ts \in SUBSET Tasks /\ Overtake(r, ts, ts)
  BY <1>3
<1>9. /\ \A u \in Tasks : u \in undone => u \in undone'
      /\ \A u \in ts : <<r, u>> \notin overtaken'
      /\ \A u \in ts \cap ts : <<r, u>> \in overtaken => u \in undone'
      /\ \A u \in Tasks \ ts : <<r, u>> \in overtaken => <<r, u>> \in overtaken'
  <2> HIDE DEF ts
  <2> QED BY <1>8, OvertakeIs DEF LedgerInv
<1>4. /\ rows' = [u \in Tasks |-> rows'[u]]
      /\ mem' = [mem EXCEPT ![r] = [u \in Tasks |-> mem'[r][u]]]
      /\ attempt' = [u \in Tasks |-> attempt'[u]]
  <2>1. rows' = [u \in Tasks |-> rows'[u]] /\ attempt' = [u \in Tasks |-> attempt'[u]]
    BY <1>1, <1>2, <1>3
  <2>2. mem'[r] = [mem[r] EXCEPT ![t] = rec] /\ mem' = [mem EXCEPT ![r] = mem'[r]]
    BY <1>2, <1>3
  <2>3. mem'[r] = [u \in Tasks |-> mem'[r][u]]
    BY <1>2, <2>2
  <2> QED BY <2>1, <2>2, <2>3
<1>5. TaskOK(r, t)
  <2>1. rows'[t] = rec /\ mem'[r][t] = rec /\ phase'[r] # "recovering"
    BY <1>1, <1>2, <1>3
  <2>2. \/ Lawful(mem[r][t], rec, attempt[t]) /\ attempt'[t] = attempt[t]
        \/ Renewed(mem[r][t], rec) /\ attempt'[t] = attempt[t] + 1
    BY <1>1, <1>2
  <2>3. /\ t \in undone => t \in undone'
        /\ <<r, t>> \notin overtaken' /\ (<<r, t>> \in overtaken => t \in undone')
    BY <1>9
  <2> QED BY <1>1, <2>1, <2>2, <2>3, SavedTask
<1>6. ASSUME NEW u \in Tasks \ ts
      PROVE  TaskOK(r, u) /\ rows'[u] = rows[u] /\ attempt'[u] = attempt[u]
  <2>1. rows'[u] = rows[u] /\ mem'[r][u] = mem[r][u] /\ attempt'[u] = attempt[u]
    BY <1>1, <1>2, <1>3
  <2>2. /\ u \in undone => u \in undone'
        /\ <<r, u>> \in overtaken => <<r, u>> \in overtaken'
    BY <1>9
  <2> QED BY <1>1, <2>1, <2>2, TaskStays
<1>7. /\ \A u \in Tasks : TaskOK(r, u)
      /\ \A u \in Tasks \ ts : rows'[u] = rows[u] /\ attempt'[u] = attempt[u]
      /\ \A u \in Tasks \ {t} : rows[u].status = "unborn" => rows'[u].status = "unborn"
  BY <1>5, <1>6
<1> HIDE DEF ts
<1> QED BY <1>1, <1>2, <1>3, <1>4, <1>7, <1>8, TasksKeep DEF Kept

\* Trimming only drops copies.
LEMMA TrimmedIs ==
    ASSUME NEW m
    PROVE  /\ Trimmed(m) = [u \in Tasks |-> Trimmed(m)[u]]
           /\ \A u \in Tasks : Trimmed(m)[u] \in {m[u], None}
<1> DEFINE held == {t \in Tasks : m[t] # None}
           spent == {t \in held : m[t].status \in Terminal}
           excess == Cardinality(held) - (MaxRecords - 1)
           dropped == CHOOSE S \in SUBSET spent :
                         /\ Cardinality(S) = IF excess > 0 THEN excess ELSE 0
                         /\ \A t \in S, u \in spent \ S : m[t].born <= m[u].born
<1>1. Trimmed(m) = [t \in Tasks |-> IF t \in dropped THEN None ELSE m[t]]
  BY DEF Trimmed
<1> HIDE DEF dropped
<1> QED BY <1>1

LEMMA EnqueueKeeps ==
    ASSUME LedgerInv, NEW r \in Runtimes, NEW t \in Tasks, Enqueue(r, t)
    PROVE  Kept
<1>1. PICK tree \in Trees :
        LET rec == NewReceipt("queued", tree, Cardinality(Born))
        IN  \/ /\ Saved(t, rec)
               /\ mem' = [mem EXCEPT ![r] = [Trimmed(mem[r]) EXCEPT ![t] = rec]]
               /\ Overtake(r, {t}, {t})
            \/ /\ mem' = [mem EXCEPT ![r] = Trimmed(mem[r])]
               /\ UNCHANGED <<rows, overtaken, undone>>
  BY DEF Enqueue, Born
<1> DEFINE rec == NewReceipt("queued", tree, Cardinality(Born))
<1>2. /\ rows \in [Tasks -> Receipts] /\ mem \in [Runtimes -> [Tasks -> Receipts \cup {None}]]
      /\ attempt \in [Tasks -> Nat] /\ live \in SUBSET Tasks
      /\ phase \in [Runtimes -> {"up", "down"} \cup Modes]
  BY DEF LedgerInv, TypeOK
<1>3. rec \in Receipts /\ rec.status \in {"queued"} /\ rec.evidence = 0
  <2>1. Cardinality(Born) \in Nat
    BY FS_CardinalityType DEF LedgerInv
  <2>2. tree \in {"none", "canonical", "session"}
    BY LedgerAssumption
  <2> HIDE DEF Born
  <2> QED BY <2>1, <2>2, NewReceiptOK DEF Statuses
<1> HIDE DEF rec
<1>4. /\ phase[r] = "up" /\ rows[t].status = "unborn" /\ UNCHANGED <<phase, live, attempt>>
  BY DEF Enqueue
<1>5. /\ rows' = [u \in Tasks |-> rows'[u]] /\ attempt' = [u \in Tasks |-> attempt'[u]]
      /\ \A u \in Tasks \ {t} : rows'[u] = rows[u]
  BY <1>1, <1>2, <1>4 DEF Saved, rec
<1>12. PICK ts \in SUBSET {t} :
          /\ Overtake(r, ts, ts)
          /\ t \notin ts => rows' = rows /\ mem' = [mem EXCEPT ![r] = Trimmed(mem[r])]
          /\ t \in ts => /\ rows' = [rows EXCEPT ![t] = rec]
                         /\ mem' = [mem EXCEPT ![r] = [Trimmed(mem[r]) EXCEPT ![t] = rec]]
  <2>1. CASE UNCHANGED <<overtaken, undone>> /\ rows' = rows /\ mem' = [mem EXCEPT ![r] = Trimmed(mem[r])]
    <3>1. Overtake(r, {}, {})
      BY <2>1 DEF Overtake
    <3> QED BY <2>1, <3>1
  <2>2. CASE /\ Overtake(r, {t}, {t}) /\ rows' = [rows EXCEPT ![t] = rec]
             /\ mem' = [mem EXCEPT ![r] = [Trimmed(mem[r]) EXCEPT ![t] = rec]]
    BY <2>2
  <2> QED BY <1>1, <2>1, <2>2 DEF Saved, rec
<1>13. /\ ts \in SUBSET Tasks
       /\ \A u \in Tasks : u \in undone => u \in undone'
       /\ \A u \in ts : <<r, u>> \notin overtaken'
       /\ \A u \in Tasks \ ts : <<r, u>> \in overtaken => <<r, u>> \in overtaken'
  BY <1>12, OvertakeIs DEF LedgerInv
<1>6. /\ mem' = [mem EXCEPT ![r] = [u \in Tasks |-> mem'[r][u]]]
      /\ \A u \in Tasks \ {t} : mem'[r][u] \in {mem[r][u], None}
  <2> DEFINE m == Trimmed(mem[r])
  <2>1. m = [u \in Tasks |-> m[u]] /\ \A u \in Tasks : m[u] \in {mem[r][u], None}
    BY TrimmedIs
  <2>2. mem' = [mem EXCEPT ![r] = [m EXCEPT ![t] = rec]] \/ mem' = [mem EXCEPT ![r] = m]
    BY <1>1 DEF rec
  <2> HIDE DEF m
  <2>3. CASE mem' = [mem EXCEPT ![r] = [m EXCEPT ![t] = rec]]
    <3>1. mem'[r] = [m EXCEPT ![t] = rec]
      BY <1>2, <2>3
    <3>2. mem'[r] = [u \in Tasks |-> mem'[r][u]]
      BY <2>1, <3>1
    <3>3. \A u \in Tasks \ {t} : mem'[r][u] \in {mem[r][u], None}
      BY <2>1, <3>1
    <3> QED BY <2>3, <3>1, <3>2, <3>3
  <2>4. CASE mem' = [mem EXCEPT ![r] = m]
    <3>1. mem'[r] = m
      BY <1>2, <2>4
    <3> QED BY <2>1, <2>4, <3>1
  <2> QED BY <2>2, <2>3, <2>4
<1>7. ASSUME NEW u \in Tasks \ {t} PROVE TaskOK(r, u)
  <2>1. rows'[u] = rows[u] /\ mem'[r][u] \in {mem[r][u], None} /\ attempt'[u] = attempt[u]
    BY <1>4, <1>5, <1>6
  <2>2. /\ u \in undone => u \in undone'
        /\ <<r, u>> \in overtaken => <<r, u>> \in overtaken'
    BY <1>12, <1>13
  <2> QED BY <1>4, <2>1, <2>2, TaskStays
<1>8. TaskOK(r, t)
  <2> DEFINE m == Trimmed(mem[r])
  <2>1. m = [u \in Tasks |-> m[u]] /\ \A u \in Tasks : m[u] \in {mem[r][u], None}
    BY TrimmedIs
  <2>2. /\ t \notin ts => rows' = rows /\ mem' = [mem EXCEPT ![r] = m]
        /\ t \in ts => rows' = [rows EXCEPT ![t] = rec] /\ mem' = [mem EXCEPT ![r] = [m EXCEPT ![t] = rec]]
    BY <1>12
  <2> HIDE DEF m
  <2>3. CASE t \in ts
    <3>1. mem'[r] = [m EXCEPT ![t] = rec] /\ rows'[t] = rec
      BY <1>2, <2>2, <2>3
    <3>2. mem'[r][t] = rec
      BY <2>1, <3>1
    <3>3. SettledStep(t) /\ OwnerStep(t)
      BY <1>4 DEF SettledStep, OwnerStep, Settled, Absent
    <3>4. Agree(rec, rec)
      BY DEF Agree
    <3>5. attempt'[t] \in Nat /\ phase'[r] # "recovering"
      BY <1>2, <1>4
    <3>6. CopyOK(r, t)'
      BY <1>3, <3>1, <3>2, <3>4, <3>5 DEF CopyOK, Agree, Absent
    <3> QED BY <1>3, <3>1, <3>2, <3>3, <3>5, <3>6 DEF TaskOK
  <2>4. CASE t \notin ts
    <3>1. mem'[r] = m /\ rows' = rows
      BY <1>2, <2>2, <2>4
    <3>2. /\ t \in undone => t \in undone'
          /\ <<r, t>> \in overtaken => <<r, t>> \in overtaken'
      BY <1>13, <2>4
    <3> QED BY <1>4, <2>1, <3>1, <3>2, TaskStays
  <2> QED BY <2>3, <2>4
<1>9. \A u \in Tasks : TaskOK(r, u)
  BY <1>7, <1>8
<1>10. \A u \in Tasks \ {t} : rows[u].status = "unborn" => rows'[u].status = "unborn"
  BY <1>5
<1>11. /\ phase' = [phase EXCEPT ![r] = phase[r]] /\ live' \in SUBSET Tasks
       /\ phase[r] \in {"up", "down"} \cup Modes
  BY <1>2, <1>4
<1>14. \A u \in Tasks \ ts : rows'[u] = rows[u] /\ attempt'[u] = attempt[u]
  BY <1>4, <1>5, <1>12
<1> QED BY <1>5, <1>6, <1>9, <1>10, <1>11, <1>12, <1>13, <1>14, TasksKeep DEF Kept

\* A correction withdraws a success and keeps the task's owner, tree and evidence.
LEMMA CorrectionIs ==
    ASSUME TypeOK, NEW t \in Tasks, NEW c \in Corrections(t)
    PROVE  /\ c \in Receipts /\ c.owner = rows[t].owner /\ c.evidence = rows[t].evidence
           /\ \/ c.status = rows[t].status
              \/ rows[t].status = "succeeded" /\ c.status \in {"failed", "blocked"}
<1>1. rows[t] \in Receipts
  BY DEF TypeOK
<1>2. CASE c = rows[t]
  BY <1>1, <1>2
<1>3. CASE c # rows[t]
  <2>1. rows[t].status = "succeeded" /\ c \in Withdrawn(t)
    BY <1>3 DEF Corrections
  <2>2. PICK o \in [status : {"failed", "blocked"}, receipt : rows[t].git] :
            c = [rows[t] EXCEPT !.status = o.status, !.git = @ \ {o.receipt}, !.detail = "text"]
    BY <2>1 DEF Withdrawn
  <2> DEFINE a == [rows[t] EXCEPT !.status = o.status]
             b == [a EXCEPT !.git = a.git \ {o.receipt}]
             d == [b EXCEPT !.detail = "text"]
  <2>3. /\ a \in Receipts /\ a.status = o.status /\ a.owner = rows[t].owner
        /\ a.evidence = rows[t].evidence
    BY <1>1 DEF Receipts, Statuses, Terminal, Settled
  <2>4. c = d
    BY <2>2
  <2> HIDE DEF a
  <2>5. /\ b \in Receipts /\ b.status = o.status /\ b.owner = rows[t].owner
        /\ b.evidence = rows[t].evidence
    BY <2>3 DEF Receipts
  <2> HIDE DEF b
  <2>6. /\ d \in Receipts /\ d.status = o.status /\ d.owner = rows[t].owner
        /\ d.evidence = rows[t].evidence
    BY <2>5 DEF Receipts
  <2> QED BY <2>1, <2>4, <2>6
<1> QED BY <1>2, <1>3

\* A copy that is made of a row agrees with it; a recovering boot takes every
\* session's task that was in flight for stale.
LEMMA HydratedIs ==
    ASSUME NEW rec \in Receipts, NEW mode, NEW matches
    PROVE  LET h == Hydrated(rec, mode, matches)
           IN  /\ h \in Receipts /\ h.evidence = rec.evidence
               /\ Agree(rec, h)
               /\ mode = "recovering" /\ h.tree = "session" => h.status \notin InFlight
<1> DEFINE canonical == rec.tree = "canonical"
           kept == /\ rec.status = "review_ready" /\ canonical /\ matches
                   /\ \/ rec.git = {"commit"}
                      \/ "commit" \notin rec.git /\ rec.evidence # 0
           lost == \/ rec.status = "review_ready" /\ ~kept
                   \/ rec.status \in InFlight \ {"review_ready"} /\ mode = "recovering"
           pushed == /\ rec.status \in {"review_ready", "stale"} /\ ~kept
                     /\ canonical /\ rec.git = {"commit", "push"} /\ rec.detail = "pushed"
           again == [rec EXCEPT !.status = "review_ready"]
           stale == [rec EXCEPT !.status = "stale"]
           h == Hydrated(rec, mode, matches)
<1>1. h = IF pushed THEN again ELSE IF lost THEN stale ELSE rec
  BY DEF Hydrated
<1>2. /\ again \in Receipts /\ again.status = "review_ready" /\ again.owner = rec.owner
      /\ again.tree = rec.tree /\ again.evidence = rec.evidence /\ again.git = rec.git
  BY DEF Receipts, Statuses, InFlight
<1>3. /\ stale \in Receipts /\ stale.status = "stale" /\ stale.owner = rec.owner
      /\ stale.tree = rec.tree /\ stale.evidence = rec.evidence
  BY DEF Receipts, Statuses, Terminal
<1> HIDE DEF again, stale, h
<1>4. ASSUME pushed
      PROVE  /\ h \in Receipts /\ h.evidence = rec.evidence /\ Agree(rec, h)
             /\ h.tree # "session"
  BY <1>1, <1>2, <1>4 DEF Agree
<1>5. ASSUME ~pushed, lost
      PROVE  /\ h \in Receipts /\ h.evidence = rec.evidence /\ Agree(rec, h)
             /\ h.status \notin InFlight
  BY <1>1, <1>3, <1>5 DEF Agree, InFlight
<1>6. ASSUME ~pushed, ~lost
      PROVE  /\ h \in Receipts /\ h.evidence = rec.evidence /\ Agree(rec, h)
             /\ mode = "recovering" /\ h.tree = "session" => h.status \notin InFlight
  <2>1. h = rec
    BY <1>1, <1>6
  <2>2. mode = "recovering" /\ rec.tree = "session" => rec.status \notin InFlight
    BY <1>6 DEF InFlight
  <2> QED BY <2>1, <2>2 DEF Agree
<1> HIDE DEF pushed, lost
<1>7. /\ h \in Receipts /\ h.evidence = rec.evidence /\ Agree(rec, h)
      /\ mode = "recovering" /\ h.tree = "session" => h.status \notin InFlight
  BY <1>4, <1>5, <1>6
<1> QED BY <1>7 DEF h

LEMMA RestoredIs ==
    ASSUME NEW rs, NEW mode, NEW matching
    PROVE  /\ Restored(rs, mode, matching) = [t \in Tasks |-> Restored(rs, mode, matching)[t]]
           /\ \A t \in Tasks :
                 Restored(rs, mode, matching)[t] \in {Hydrated(rs[t], mode, t \in matching), None}
<1> DEFINE newest == Newest({u \in Tasks : ~Absent(rows[u])})
<1>1. Restored(rs, mode, matching) =
          [t \in Tasks |-> IF t \in newest THEN Hydrated(rs[t], mode, t \in matching) ELSE None]
  BY DEF Restored
<1> HIDE DEF newest
<1> QED BY <1>1

LEMMA BootKeepsLedger ==
    ASSUME LedgerInv, NEW r \in Runtimes, NEW mode \in Modes, Boot(r, mode)
    PROVE  Kept
<1>1. PICK corrected \in [Tasks -> UNION {Corrections(t) : t \in Tasks}], matching \in SUBSET Tasks :
          /\ \A t \in Tasks : corrected[t] \in Corrections(t)
          /\ rows' = corrected
          /\ mem' = [mem EXCEPT ![r] = Restored(corrected, mode, matching)]
          /\ Overtake(r, Tasks, {t \in Tasks : corrected[t] # rows[t]})
  BY DEF Boot
<1> DEFINE changed == {t \in Tasks : corrected[t] # rows[t]}
           all == Tasks
<1>9. /\ changed \in SUBSET Tasks /\ all \in SUBSET Tasks /\ Overtake(r, all, changed)
  BY <1>1
<1>10. /\ \A t \in Tasks : t \in undone => t \in undone'
       /\ \A t \in all : <<r, t>> \notin overtaken'
  <2> HIDE DEF changed, all
  <2> QED BY <1>9, OvertakeIs DEF LedgerInv
<1>11. \A t \in Tasks \ changed : rows'[t] = rows[t]
  BY <1>1
<1>2. /\ TypeOK /\ mem \in [Runtimes -> [Tasks -> Receipts \cup {None}]]
      /\ attempt \in [Tasks -> Nat] /\ live \in SUBSET Tasks
      /\ phase \in [Runtimes -> {"up", "down"} \cup Modes]
  BY DEF LedgerInv, TypeOK
<1>3. phase' = [phase EXCEPT ![r] = mode] /\ UNCHANGED <<live, attempt>>
  BY DEF Boot
<1> DEFINE m == Restored(corrected, mode, matching)
<1>4. /\ m = [t \in Tasks |-> m[t]]
      /\ \A t \in Tasks : m[t] \in {Hydrated(corrected[t], mode, t \in matching), None}
  BY RestoredIs
<1>5. mem' = [mem EXCEPT ![r] = m]
  BY <1>1
<1> HIDE DEF m
<1>6. mem'[r] = m
  BY <1>2, <1>5
<1>7. /\ rows' = [t \in Tasks |-> rows'[t]] /\ attempt' = [t \in Tasks |-> attempt'[t]]
      /\ mem' = [mem EXCEPT ![r] = [t \in Tasks |-> mem'[r][t]]]
      /\ phase' \in [Runtimes -> {"up", "down"} \cup Modes] /\ live' \in SUBSET Tasks
      /\ phase'[r] = mode
  BY <1>1, <1>2, <1>3, <1>4, <1>5, <1>6
<1>8. ASSUME NEW t \in Tasks PROVE TaskOK(r, t) /\ (rows[t].status = "unborn" => rows'[t].status = "unborn")
  <2> DEFINE c == corrected[t]
             h == Hydrated(c, mode, t \in matching)
  <2>1. /\ c \in Receipts /\ c.owner = rows[t].owner /\ c.evidence = rows[t].evidence
        /\ \/ c.status = rows[t].status
           \/ rows[t].status = "succeeded" /\ c.status \in {"failed", "blocked"}
    BY <1>1, <1>2, CorrectionIs
  <2>2. rows'[t] = c
    BY <1>1
  <2> HIDE DEF c
  <2>3. /\ h \in Receipts /\ h.evidence = c.evidence /\ Agree(c, h)
        /\ mode = "recovering" /\ h.tree = "session" => h.status \notin InFlight
    BY <2>1, HydratedIs
  <2>4. mem'[r][t] \in {h, None}
    BY <1>4, <1>6 DEF c
  <2> HIDE DEF h
  <2>5. SettledStep(t) /\ OwnerStep(t)
    BY <2>1, <2>2 DEF SettledStep, OwnerStep
  <2>6. t \in undone => t \in undone'
    BY <1>10
  <2>7. attempt'[t] = attempt[t] /\ attempt[t] \in Nat
    BY <1>2, <1>3
  <2>8. t \notin undone' => c.evidence \in {0, attempt[t]}
    BY <2>1, <2>6 DEF LedgerInv
  <2>9. CopyOK(r, t)'
    BY <2>1, <2>2, <2>3, <2>4, <2>7, <2>8, <1>7 DEF CopyOK, Agree, Absent
  <2> QED BY <2>1, <2>2, <2>3, <2>4, <2>5, <2>7, <2>8, <2>9 DEF TaskOK
<1>12. /\ phase' = [phase EXCEPT ![r] = mode] /\ mode \in {"up", "down"} \cup Modes
       /\ \A t \in Tasks \ changed : rows'[t] = rows[t] /\ attempt'[t] = attempt[t]
  BY <1>3, <1>11
<1> HIDE DEF changed, all
<1> QED BY <1>7, <1>8, <1>9, <1>12, TasksKeep DEF Kept

LEMMA SweepKeepsLedger ==
    ASSUME LedgerInv, NEW r \in Runtimes, BootSweep(r)
    PROVE  Kept
<1> DEFINE again(t) == TakenUp(mem[r][t], "running", rows[t].owner, rows[t].lease)
<1>1. PICK known \in SUBSET {t \in Tasks : rows[t].tree = "session"} :
      \E recovered \in SUBSET {t \in known \cap live \cap Ledger(r) :
                                  /\ rows[t].status \in InFlight
                                  /\ mem[r][t].status = "stale"} :
          /\ rows' = [t \in Tasks |->
                            IF t \in recovered THEN again(t)
                            ELSE IF t \in known /\ rows[t].status \in InFlight
                            THEN [rows[t] EXCEPT !.status = "stale"] ELSE rows[t]]
          /\ mem' = [mem EXCEPT ![r] =
                            [t \in Tasks |-> IF t \in recovered THEN again(t) ELSE @[t]]]
          /\ attempt' = [t \in Tasks |-> IF t \in recovered THEN attempt[t] + 1 ELSE attempt[t]]
          /\ Overtake(r, recovered, {t \in known : rows[t].status \in InFlight})
  BY DEF BootSweep
<1> HIDE DEF again
<1>2. PICK recovered \in SUBSET {t \in known \cap live \cap Ledger(r) :
                                  /\ rows[t].status \in InFlight
                                  /\ mem[r][t].status = "stale"} :
          /\ rows' = [t \in Tasks |->
                            IF t \in recovered THEN again(t)
                            ELSE IF t \in known /\ rows[t].status \in InFlight
                            THEN [rows[t] EXCEPT !.status = "stale"] ELSE rows[t]]
          /\ mem' = [mem EXCEPT ![r] =
                            [t \in Tasks |-> IF t \in recovered THEN again(t) ELSE @[t]]]
          /\ attempt' = [t \in Tasks |-> IF t \in recovered THEN attempt[t] + 1 ELSE attempt[t]]
          /\ Overtake(r, recovered, {t \in known : rows[t].status \in InFlight})
  BY <1>1
<1>3. /\ rows \in [Tasks -> Receipts] /\ mem \in [Runtimes -> [Tasks -> Receipts \cup {None}]]
      /\ attempt \in [Tasks -> Nat] /\ live \in SUBSET Tasks
      /\ phase \in [Runtimes -> {"up", "down"} \cup Modes]
  BY DEF LedgerInv, TypeOK
<1>4. phase[r] = "recovering" /\ phase' = [phase EXCEPT ![r] = "up"] /\ live' = live
  BY DEF BootSweep
<1> DEFINE changed == {t \in known : rows[t].status \in InFlight}
<1>8. /\ recovered \in SUBSET Tasks /\ changed \in SUBSET Tasks /\ recovered \subseteq changed
      /\ Overtake(r, recovered, changed)
  BY <1>2
<1>9. /\ \A t \in Tasks : t \in undone => t \in undone'
      /\ \A t \in recovered : <<r, t>> \notin overtaken'
      /\ \A t \in Tasks \ recovered : <<r, t>> \in overtaken => <<r, t>> \in overtaken'
  <2> HIDE DEF changed
  <2> QED BY <1>8, OvertakeIs DEF LedgerInv
<1>5. mem'[r] = [t \in Tasks |-> IF t \in recovered THEN again(t) ELSE mem[r][t]]
  BY <1>2, <1>3
<1>6. /\ rows' = [t \in Tasks |-> rows'[t]] /\ attempt' = [t \in Tasks |-> attempt'[t]]
      /\ mem' = [mem EXCEPT ![r] = [t \in Tasks |-> mem'[r][t]]]
      /\ phase' \in [Runtimes -> {"up", "down"} \cup Modes] /\ live' \in SUBSET Tasks
      /\ phase'[r] = "up"
  <2>1. mem'[r] = [t \in Tasks |-> mem'[r][t]]
    BY <1>5
  <2>2. mem' = [mem EXCEPT ![r] = mem'[r]]
    BY <1>2, <1>3
  <2> QED BY <1>2, <1>3, <1>4, <2>1, <2>2
<1>7. ASSUME NEW t \in Tasks PROVE TaskOK(r, t) /\ (rows[t].status = "unborn" => rows'[t].status = "unborn")
  <2>1. rows[t] \in Receipts /\ attempt[t] \in Nat
    BY <1>3
  <2>2. CASE t \in recovered
    <3>1. rows'[t] = again(t) /\ mem'[r][t] = again(t) /\ attempt'[t] = attempt[t] + 1
      BY <1>2, <1>5, <2>2
    <3>2. mem[r][t] \in Receipts /\ rows[t].status \in InFlight
      BY <2>2, Held DEF LedgerInv
    <3>3. /\ again(t) \in Receipts /\ again(t).owner = rows[t].owner /\ again(t).evidence = 0
      <4>1. rows[t].owner \in Owners \cup {None} /\ rows[t].lease \in Leases \cup {None}
        BY <2>1 DEF Receipts
      <4>2. "running" \in Statuses
        BY DEF Statuses, InFlight
      <4> QED BY <3>2, <4>1, <4>2, TakenUpOK DEF again
    <3>4. SettledStep(t) /\ OwnerStep(t) /\ rows[t].status # "unborn"
      BY <3>1, <3>2, <3>3 DEF SettledStep, OwnerStep, InFlight, Settled
    <3>5. Agree(again(t), again(t))
      BY DEF Agree
    <3>6. CopyOK(r, t)'
      BY <1>6, <3>1, <3>3, <3>5 DEF CopyOK, Agree, Absent
    <3> QED BY <1>6, <2>1, <3>1, <3>3, <3>4, <3>6 DEF TaskOK
  <2>3. CASE t \notin recovered /\ t \in known /\ rows[t].status \in InFlight
    <3> DEFINE row == [rows[t] EXCEPT !.status = "stale"]
    <3>1. rows'[t] = row /\ mem'[r][t] = mem[r][t] /\ attempt'[t] = attempt[t]
      BY <1>2, <1>5, <2>3
    <3>2. /\ row \in Receipts /\ row.status = "stale" /\ row.owner = rows[t].owner
          /\ row.evidence = rows[t].evidence /\ row.tree = rows[t].tree /\ rows[t].tree = "session"
      BY <2>1, <2>3, <1>1 DEF Receipts, Statuses, Terminal
    <3> HIDE DEF row
    <3>3. /\ t \in undone => t \in undone'
          /\ <<r, t>> \in overtaken => <<r, t>> \in overtaken'
          /\ t \notin undone => rows[t].evidence \in {0, attempt[t]}
          /\ mem[r][t] \in Receipts \cup {None} /\ CopyOK(r, t)
      BY <1>3, <1>9, <2>3 DEF LedgerInv
    <3>4. SettledStep(t) /\ OwnerStep(t) /\ rows[t].status # "unborn"
      BY <2>3, <3>1, <3>2 DEF SettledStep, OwnerStep, InFlight, Settled
    <3>5. CopyOK(r, t)'
      <4>1. SUFFICES ASSUME mem[r][t] # None, <<r, t>> \notin overtaken
                     PROVE  /\ t \notin undone => mem[r][t].evidence \in {0, attempt[t]}
                            /\ Agree(row, mem[r][t])
        BY <1>6, <3>1, <3>3 DEF CopyOK, Agree, Absent
      <4>2. ~Absent(rows[t])
        BY <2>3 DEF Absent, InFlight
      <4>3. /\ t \notin undone => mem[r][t].evidence \in {0, attempt[t]}
            /\ Agree(rows[t], mem[r][t])
            /\ mem[r][t].tree = "session" => mem[r][t].status \notin InFlight
        BY <4>1, <4>2, <3>3, <1>4 DEF CopyOK
      <4>4. mem[r][t].status = "stale"
        BY <4>3, <2>3, <3>2 DEF Agree, InFlight
      <4> QED BY <4>3, <4>4, <3>2 DEF Agree
    <3> QED BY <1>6, <2>1, <3>1, <3>2, <3>3, <3>4, <3>5 DEF TaskOK
  <2>4. CASE t \notin recovered /\ ~(t \in known /\ rows[t].status \in InFlight)
    <3>1. rows'[t] = rows[t] /\ mem'[r][t] = mem[r][t] /\ attempt'[t] = attempt[t]
      BY <1>2, <1>5, <2>4
    <3>2. /\ t \in undone => t \in undone'
          /\ <<r, t>> \in overtaken => <<r, t>> \in overtaken'
      BY <1>9, <2>4
    <3> QED BY <1>6, <3>1, <3>2, TaskStays
  <2> QED BY <2>2, <2>3, <2>4
<1>10. /\ phase' = [phase EXCEPT ![r] = "up"] /\ "up" \in {"up", "down"} \cup Modes
       /\ \A t \in Tasks \ changed : rows'[t] = rows[t] /\ attempt'[t] = attempt[t]
  <2>1. \A t \in Tasks \ changed : t \notin recovered /\ ~(t \in known /\ rows[t].status \in InFlight)
    BY <1>8
  <2> QED BY <1>2, <1>4, <2>1
<1> HIDE DEF changed
<1> QED BY <1>6, <1>7, <1>8, <1>10, TasksKeep DEF Kept

\* What a step may do besides saving receipts: delete rows that are done with,
\* forget copies, and leave a recovering boot.
LEMMA ForgettingKeeps ==
    ASSUME LedgerInv, attempt' = attempt, live' \in SUBSET Tasks,
           rows' \in [Tasks -> Receipts],
           \A t \in Tasks :
              \/ rows'[t] = rows[t]
              \/ rows[t].status \in Terminal /\ rows'[t] = NoRow("deleted"),
           mem' \in [Runtimes -> [Tasks -> Receipts \cup {None}]],
           \A r \in Runtimes, t \in Tasks : mem'[r][t] \in {mem[r][t], None},
           phase' \in [Runtimes -> {"up", "down"} \cup Modes],
           \A r \in Runtimes : phase'[r] = "recovering" => phase[r] = "recovering",
           undone' = undone, overtaken' \in SUBSET (Runtimes \X Tasks),
           \A r \in Runtimes, t \in Tasks :
              <<r, t>> \in overtaken /\ mem'[r][t] # None => <<r, t>> \in overtaken'
    PROVE  Kept
<1>1. /\ NoRow("deleted").evidence = 0 /\ NoRow("deleted").status = "deleted"
      /\ Absent(NoRow("deleted"))
  BY DEF NoRow, NewReceipt, Absent
<1>2. TypeOK'
  BY DEF LedgerInv, TypeOK
<1>3. \A t \in Tasks : rows[t].status = "unborn" => rows'[t].status = "unborn"
  BY DEF Terminal, Settled
<1>4. IsFiniteSet(Born')
  <2>1. Born' \in SUBSET Born
    BY <1>3 DEF Born
  <2> QED BY <2>1, FS_Subset DEF LedgerInv
<1>5. \A t \in Tasks : t \notin undone' => rows'[t].evidence \in {0, attempt'[t]}
  BY <1>1 DEF LedgerInv
<1>6. ASSUME NEW r \in Runtimes, NEW t \in Tasks PROVE CopyOK(r, t)'
  <2>1. SUFFICES ASSUME mem'[r][t] # None PROVE CopyOK(r, t)'
    BY DEF CopyOK
  <2>2. mem'[r][t] = mem[r][t] /\ CopyOK(r, t) /\ (<<r, t>> \in overtaken => <<r, t>> \in overtaken')
    BY <2>1 DEF LedgerInv
  <2>3. rows'[t] = rows[t] \/ Absent(rows'[t])
    BY <1>1
  <2> QED BY <2>1, <2>2, <2>3 DEF CopyOK, Absent, Agree
<1>8. \A t \in Tasks : SettledStep(t) /\ OwnerStep(t)
  BY <1>1 DEF SettledStep, OwnerStep
<1>9. LedgerInv'
  BY <1>2, <1>4, <1>5, <1>6 DEF LedgerInv
<1> QED BY <1>8, <1>9 DEF Kept

\* Every step of a runtime, of the leases and of the cleanup.
LEMMA NextKeeps == LedgerInv /\ [Next]_vars => Kept
<1> SUFFICES ASSUME LedgerInv, [Next]_vars PROVE Kept
  OBVIOUS
<1>1. TypeOK
  BY DEF LedgerInv
<1>2. ASSUME NEW r \in Runtimes, NEW t \in Tasks, LedgerStep(r, t) PROVE Kept
  BY <1>1, <1>2, LedgerStepIs, EnqueueKeeps, HeldSaveKeeps
<1>3. ASSUME NEW r \in Runtimes, NEW mode \in Modes, Boot(r, mode) PROVE Kept
  BY <1>3, BootKeepsLedger
<1>4. ASSUME NEW r \in Runtimes, BootSweep(r) PROVE Kept
  BY <1>4, SweepKeepsLedger
<1>5. /\ rows \in [Tasks -> Receipts] /\ mem \in [Runtimes -> [Tasks -> Receipts \cup {None}]]
      /\ phase \in [Runtimes -> {"up", "down"} \cup Modes] /\ live \in SUBSET Tasks
      /\ overtaken \in SUBSET (Runtimes \X Tasks)
  BY <1>1 DEF TypeOK
<1>6. ASSUME NEW r \in Runtimes, Crash(r) PROVE Kept
  <2>1. /\ mem' = [mem EXCEPT ![r] = [t \in Tasks |-> None]]
        /\ phase' = [phase EXCEPT ![r] = "down"] /\ UNCHANGED <<rows, live, attempt>>
        /\ undone' = undone /\ overtaken' = overtaken \ ({r} \X Tasks)
    BY <1>6 DEF Crash, Overtake
  <2>2. /\ overtaken' \in SUBSET (Runtimes \X Tasks)
        /\ \A s \in Runtimes, t \in Tasks :
              <<s, t>> \in overtaken /\ mem'[s][t] # None => <<s, t>> \in overtaken'
    BY <1>5, <2>1
  <2>3. /\ mem' \in [Runtimes -> [Tasks -> Receipts \cup {None}]]
        /\ \A s \in Runtimes, t \in Tasks : mem'[s][t] \in {mem[s][t], None}
    BY <1>5, <2>1
  <2> QED BY <1>5, <2>1, <2>2, <2>3, ForgettingKeeps
<1>7. ASSUME NEW r \in Runtimes, BootDone(r) PROVE Kept
  <2>1. phase' = [phase EXCEPT ![r] = "up"] /\ UNCHANGED <<rows, mem, live, attempt, overtaken, undone>>
    BY <1>7 DEF BootDone
  <2> QED BY <1>5, <2>1, ForgettingKeeps
<1>8. ASSUME NEW t \in Tasks, Cleanup(t) PROVE Kept
  <2>1. /\ rows' = [rows EXCEPT ![t] = NoRow("deleted")] /\ rows[t].status \in Terminal
        /\ UNCHANGED <<mem, phase, live, attempt, overtaken, undone>>
    BY <1>8 DEF Cleanup
  <2>2. NoRow("deleted") \in Receipts
    BY NewReceiptOK DEF NoRow
  <2> QED BY <1>5, <2>1, <2>2, ForgettingKeeps
<1>9. ASSUME NEW t \in Tasks, LeaseChanges(t) PROVE Kept
  <2>1. live' \in SUBSET Tasks /\ UNCHANGED <<rows, mem, phase, attempt, overtaken, undone>>
    BY <1>5, <1>9 DEF LeaseChanges
  <2> QED BY <1>5, <2>1, ForgettingKeeps
<1>10. CASE UNCHANGED vars
  BY <1>5, <1>10, ForgettingKeeps DEF vars
<1> QED BY <1>2, <1>3, <1>4, <1>6, <1>7, <1>8, <1>9, <1>10 DEF Next

LEMMA InitHolds == Init => LedgerInv
<1> SUFFICES ASSUME Init PROVE LedgerInv
  OBVIOUS
<1>1. NoRow("unborn") \in Receipts /\ NoRow("unborn").evidence = 0 /\ NoRow("unborn").status = "unborn"
  BY NewReceiptOK DEF NoRow
<1>2. \A t \in Tasks : rows[t] = NoRow("unborn") /\ attempt[t] = 1
  BY DEF Init
<1>3. \A r \in Runtimes : Ledger(r) = {}
  BY DEF Init, Ledger
<1>4. TypeOK
  BY <1>1 DEF Init, TypeOK
<1>5. IsFiniteSet(Born)
  BY <1>1, <1>2, FS_EmptySet DEF Born
<1>6. \A t \in Tasks : rows[t].evidence \in {0, attempt[t]}
  BY <1>1, <1>2
<1>7. \A r \in Runtimes, t \in Tasks : CopyOK(r, t)
  BY DEF Init, CopyOK
<1> QED BY <1>4, <1>5, <1>6, <1>7 DEF LedgerInv

LEMMA LedgerInvHolds == Spec => []LedgerInv
<1>1. LedgerInv /\ [Next]_vars => LedgerInv'
  BY NextKeeps DEF Kept
<1> QED BY <1>1, InitHolds, PTL DEF Spec

\* However many runtimes share the table, a copy in memory is never ahead of its row
\* until another runtime has changed the row: it says what the row says, or holds for
\* stale a task that was in flight, or for review-ready one whose push receipt is
\* recorded.
THEOREM LedgerTheorem == Spec => []LedgerIsSound
<1>1. LedgerInv => LedgerIsSound
  BY DEF LedgerInv, LedgerIsSound, MemoryNotAhead, CopyOK, Agree, Ledger
<1> QED BY <1>1, LedgerInvHolds, PTL

\* No task that resume, a lease's reactivation or a checkpointed recovery takes up
\* again carries evidence of an earlier attempt, in the table or in a memory, unless a
\* runtime has saved a copy that another runtime had overtaken.
THEOREM EvidenceTheorem == Spec => []EvidenceIsOfThisAttempt
<1>1. LedgerInv => EvidenceIsOfThisAttempt
  BY DEF LedgerInv, EvidenceIsOfThisAttempt, CopyOK, Ledger
<1> QED BY <1>1, LedgerInvHolds, PTL

\* No transition, restart, recovery or rebuild of any runtime takes up a settled task
\* again, but the save of an overtaken copy; only the start-up correction turns a
\* success into a failure.
THEOREM SettledTheorem == Spec => SettledStaysSettled
<1>1. LedgerInv /\ [Next]_vars =>
          [\A t \in Tasks :
              rows[t].status \in Settled =>
                 \/ rows'[t].status \in {rows[t].status, "deleted"}
                 \/ rows[t].status = "succeeded" /\ rows'[t].status \in {"failed", "blocked"}
                 \/ SavesOvertaken(t)]_vars
  BY NextKeeps DEF Kept, SettledStep
<1> QED BY <1>1, LedgerInvHolds, PTL DEF Spec, SettledStaysSettled

\* No operation, boot or sweep of any runtime hands a task from one owner to another,
\* in between it is unowned, but the save of an overtaken copy.
THEOREM OwnerTheorem == Spec => OwnerIsGivenUpFirst
<1>1. LedgerInv /\ [Next]_vars =>
          [\A t \in Tasks :
              ~Absent(rows[t]) /\ ~Absent(rows'[t]) /\ rows[t].owner # None
                 => rows'[t].owner \in {rows[t].owner, None} \/ SavesOvertaken(t)]_vars
  BY NextKeeps DEF Kept, OwnerStep
<1> QED BY <1>1, LedgerInvHolds, PTL DEF Spec, OwnerIsGivenUpFirst
=============================================================================
