------------------------ MODULE GitDelivery_proofs ------------------------
(***************************************************************************)
(* Proofs about GitDelivery, for any runtimes, preflights, paths, scope    *)
(* and bounds.                                                             *)
(***************************************************************************)
EXTENDS GitDelivery, TLAPS, SequenceTheorems

\* A preflight that is in use has a plan, made at a head the log still has; a
\* call that is under way is about such a preflight, and knows its verdict
\* once it has one to record.
Planned ==
    /\ \A p \in Preflights :
          auth[p] # "none" => plan[p] \in Plans /\ plan[p].snap.head <= HEAD
    /\ \A r \in Runtimes :
          call[r].step # "idle" =>
              /\ call[r].pre \in Preflights
              /\ auth[call[r].pre] # "none"
    /\ \A r \in Runtimes :
          call[r].step \in {"settled", "recorded", "finished", "bound"} =>
              call[r].verdict \in Verdicts

TypeInv == TypeOK /\ Planned

CallRecords == [step : Steps, pre : Preflights \cup {None},
                verdict : Verdicts \cup {None}, at : 0..MaxLog, rid : Nat]

Entries == [tree : Trees, subject : Preflights \cup {"title", None}]

-----------------------------------------------------------------------------
(* The trees and verdicts the operators make.                              *)

\* git add makes an index of the contents there are.
LEMMA AddedIsTree ==
    ASSUME work \in Trees, index \in Trees, NEW S
    PROVE  Added(S) \in Trees
  BY DEF Added, Trees

\* The head's tree is a tree.
LEMMA HeadIsTree ==
    ASSUME TypeOK
    PROVE  HeadTree \in Trees
  <1>1. log \in Seq(Entries) /\ HEAD \in 1..Len(log)
    BY GitAssumption DEF TypeOK, HEAD, Entries
  <1>2. log[HEAD] \in Entries
    BY <1>1
  <1> QED
    BY <1>2 DEF HeadTree, Entries

\* So is the tree of any earlier head.
LEMMA OldHeadIsTree ==
    ASSUME TypeInv, NEW p \in Preflights, auth[p] # "none"
    PROVE  /\ plan[p] \in Plans
           /\ plan[p].snap.head \in 1..HEAD
           /\ log[plan[p].snap.head].tree \in Trees
  <1>1. plan[p] \in Plans /\ plan[p].snap.head <= HEAD
    BY DEF TypeInv, Planned
  <1>2. plan[p].snap.head \in 1..HEAD
    <2>1. plan[p].snap \in Snapshots
      BY <1>1 DEF Plans
    <2>2. plan[p].snap.head \in 1..MaxLog /\ HEAD \in 1..MaxLog
      BY <2>1 DEF Snapshots, TypeInv, TypeOK
    <2> QED
      BY <1>1, <2>2, GitAssumption
  <1>3. log[plan[p].snap.head] \in Entries
    <2>1. log \in Seq(Entries) /\ plan[p].snap.head \in 1..Len(log)
      BY <1>2 DEF TypeInv, TypeOK, HEAD, Entries
    <2> QED
      BY <2>1
  <1> QED
    BY <1>1, <1>2, <1>3 DEF Entries

\* The tree of a commit, and the index after it, are trees.
LEMMA CommittedIsTree ==
    ASSUME TypeInv, NEW p \in Preflights, auth[p] # "none"
    PROVE  CommittedTree(p) \in Trees
  <1>1. log[plan[p].snap.head].tree \in Trees
    BY OldHeadIsTree
  <1>2. index \in Trees
    BY DEF TypeInv, TypeOK
  <1> QED
    BY <1>1, <1>2 DEF CommittedTree, Trees

LEMMA RestoredIsTree ==
    ASSUME TypeInv, NEW p \in Preflights
    PROVE  Restored(p) \in Trees
  <1>1. HeadTree \in Trees
    BY HeadIsTree DEF TypeInv
  <1>2. index \in Trees
    BY DEF TypeInv, TypeOK
  <1> QED
    BY <1>1, <1>2 DEF Restored, Trees

\* A recovery comes to one of the three verdicts.
LEMMA RecoveredIsVerdict ==
    ASSUME TypeInv, NEW p \in Preflights, auth[p] # "none"
    PROVE  Recovered(p) \in Verdicts
  <1>1. plan[p].op \in Operations
    BY OldHeadIsTree DEF Plans
  <1> QED
    BY <1>1 DEF Recovered, Verdicts, Operations, Stages, Commits

\* finish leaves states of an authority, and takes none back to the start.
LEMMA FinishedIsState ==
    ASSUME TypeInv, NEW p \in Preflights, NEW s \in Over
    PROVE  /\ Finished(p, s) \in [Preflights -> AuthorityStates]
           /\ \A q \in Preflights : Finished(p, s)[q] = "none" <=> auth[q] = "none"
  BY DEF TypeInv, TypeOK, Finished, AuthorityStates, Over, Verdicts

\* A Decide gives the call of r a verdict.
LEMMA DecideType ==
    ASSUME TypeInv, NEW r \in Runtimes, NEW from, NEW v \in Verdicts, NEW b,
           Decide(r, from, v, b)
    PROVE  /\ call' \in [Runtimes -> CallRecords]
           /\ call'[r].pre = call[r].pre
           /\ call'[r].verdict = v
           /\ call'[r].step \in {"settled", "recorded"}
           /\ \A s \in Runtimes \ {r} : call'[s] = call[s]
  <1>1. HEAD \in 0..MaxLog /\ 0 \in 0..MaxLog
    BY GitAssumption DEF TypeInv, TypeOK
  <1>2. call \in [Runtimes -> CallRecords]
    BY DEF TypeInv, TypeOK, CallRecords
  <1> DEFINE step == IF b THEN "settled" ELSE "recorded"
             at == IF v = "succeeded" THEN HEAD ELSE 0
             rec == [call[r] EXCEPT !.step = step, !.verdict = v, !.at = at]
  <1>3. step \in Steps /\ step \in {"settled", "recorded"} /\ at \in 0..MaxLog
    BY <1>1 DEF Steps
  <1>4. call' = [call EXCEPT ![r].step = step, ![r].verdict = v, ![r].at = at]
    BY DEF Decide
  <1> HIDE DEF step, at
  <1>5. call' = [call EXCEPT ![r] = rec]
    BY <1>2, <1>4 DEF CallRecords
  <1>6. /\ rec \in CallRecords /\ rec.pre = call[r].pre
        /\ rec.verdict = v /\ rec.step = step
    BY <1>2, <1>3 DEF CallRecords
  <1> HIDE DEF rec
  <1> QED
    BY <1>2, <1>3, <1>5, <1>6

\* A Go moves the call of r and nothing else.
LEMMA GoType ==
    ASSUME TypeInv, NEW r \in Runtimes, NEW from, NEW to \in Steps,
           Go(r, from, to)
    PROVE  /\ call' \in [Runtimes -> CallRecords]
           /\ call'[r].pre = call[r].pre
           /\ call'[r].verdict = call[r].verdict
           /\ call'[r].step = to
           /\ \A s \in Runtimes \ {r} : call'[s] = call[s]
  <1>1. call \in [Runtimes -> CallRecords]
    BY DEF TypeInv, TypeOK, CallRecords
  <1> QED
    BY <1>1 DEF Go, CallRecords

-----------------------------------------------------------------------------
(* Steps that change only the calls, only the store, only the tree.        *)

\* The calls are as TypeInv wants them.
CallsFit(c) ==
    /\ c \in [Runtimes -> CallRecords]
    /\ \A r \in Runtimes :
          c[r].step # "idle" => c[r].pre \in Preflights /\ auth[c[r].pre] # "none"
    /\ \A r \in Runtimes :
          c[r].step \in {"settled", "recorded", "finished", "bound"} => c[r].verdict \in Verdicts

\* A call that moves on with the preflight it has fits.
LEMMA MovedCallFits ==
    ASSUME TypeInv, NEW r \in Runtimes, call[r].step # "idle",
           NEW c \in [Runtimes -> CallRecords],
           c[r].pre = call[r].pre,
           c[r].step \in {"settled", "recorded", "finished", "bound"} => c[r].verdict \in Verdicts,
           \A s \in Runtimes \ {r} : c[s] = call[s]
    PROVE  CallsFit(c)
  BY DEF TypeInv, Planned, CallsFit

\* An idle call fits.
LEMMA IdleIsCall == Idle \in CallRecords /\ Idle.step = "idle"
  BY GitAssumption DEF Idle, CallRecords, Steps

LEMMA IdleCallFits ==
    ASSUME TypeInv, NEW r \in Runtimes
    PROVE  CallsFit([call EXCEPT ![r] = Idle])
  <1>1. Idle \in CallRecords /\ Idle.step = "idle"
    BY IdleIsCall
  <1>2. call \in [Runtimes -> CallRecords]
    BY DEF TypeInv, TypeOK, CallRecords
  <1> QED
    BY <1>1, <1>2 DEF TypeInv, Planned, CallsFit

Tasks == [status : {"review_ready", "failed", "blocked"},
          commit : ReceiptIds \cup {None}, push : ReceiptIds \cup {None}]

\* What a step has to keep up for TypeInv, when it leaves the plans alone.
LEMMA Assembled ==
    ASSUME TypeInv, plan' = plan,
           work' \in Trees, index' \in Trees, log' \in Seq(Entries),
           HEAD' \in 1..MaxLog, HEAD <= HEAD', remote' \in 1..HEAD',
           auth' \in [Preflights -> AuthorityStates],
           \A p \in Preflights : auth'[p] = "none" <=> auth[p] = "none",
           receipts' \in [Preflights -> Seq(Receipts)],
           closeouts' \subseteq ReceiptIds, task' \in Tasks,
           outside' \in 0..MaxOutside, runs' \in [Preflights -> Nat],
           applied' \subseteq Preflights, overtaken' \subseteq Preflights,
           CallsFit(call')
    PROVE  TypeInv'
  <1>1. TypeOK'
    BY DEF TypeOK, TypeInv, Entries, Tasks, CallsFit, CallRecords
  <1>2. ASSUME NEW p \in Preflights, auth'[p] # "none"
        PROVE  plan'[p] \in Plans /\ plan'[p].snap.head <= HEAD'
    <2>1. plan[p] \in Plans /\ plan[p].snap.head \in 1..HEAD
      BY <1>2, OldHeadIsTree
    <2>2. HEAD \in Nat /\ HEAD' \in Nat
      BY GitAssumption DEF TypeInv, TypeOK
    <2> QED
      BY <2>1, <2>2
  <1>3. \A r \in Runtimes :
          call'[r].step # "idle" => call'[r].pre \in Preflights /\ auth'[call'[r].pre] # "none"
    BY DEF CallsFit
  <1>4. \A r \in Runtimes :
          call'[r].step \in {"settled", "recorded", "finished", "bound"} =>
              call'[r].verdict \in Verdicts
    BY DEF CallsFit
  <1> QED
    BY <1>1, <1>2, <1>3, <1>4 DEF TypeInv, Planned

\* What TypeInv says of the parts, in one place.
LEMMA Parts ==
    ASSUME TypeInv
    PROVE  /\ work \in Trees /\ index \in Trees /\ log \in Seq(Entries)
           /\ HEAD \in 1..MaxLog /\ HEAD \in Nat /\ remote \in 1..HEAD
           /\ auth \in [Preflights -> AuthorityStates]
           /\ receipts \in [Preflights -> Seq(Receipts)]
           /\ closeouts \subseteq ReceiptIds /\ task \in Tasks
           /\ outside \in 0..MaxOutside /\ runs \in [Preflights -> Nat]
           /\ applied \subseteq Preflights /\ overtaken \subseteq Preflights
           /\ call \in [Runtimes -> CallRecords]
           /\ CallsFit(call)
  BY GitAssumption DEF TypeInv, TypeOK, Planned, Entries, Tasks, CallsFit, CallRecords

\* A step that leaves the tree, the plans and the history alone.
LEMMA StoreStep ==
    ASSUME TypeInv, UNCHANGED <<repo, plan, outside, runs, applied>>,
           auth' \in [Preflights -> AuthorityStates],
           \A p \in Preflights : auth'[p] = "none" <=> auth[p] = "none",
           receipts' \in [Preflights -> Seq(Receipts)],
           closeouts' \subseteq ReceiptIds, task' \in Tasks,
           overtaken' \subseteq Preflights,
           CallsFit(call')
    PROVE  TypeInv'
  <1>1. HEAD' = HEAD /\ work' = work /\ index' = index /\ log' = log /\ remote' = remote
    BY DEF HEAD, repo
  <1>2. HEAD <= HEAD
    BY Parts
  <1> QED
    BY ONLY TypeInv, Parts, Assembled, <1>1, <1>2,
            UNCHANGED <<repo, plan, outside, runs, applied>>,
            auth' \in [Preflights -> AuthorityStates],
            \A p \in Preflights : auth'[p] = "none" <=> auth[p] = "none",
            receipts' \in [Preflights -> Seq(Receipts)],
            closeouts' \subseteq ReceiptIds, task' \in Tasks,
            overtaken' \subseteq Preflights,
            CallsFit(call')

\* A step that changes the calls only.
LEMMA CallOnlyStep ==
    ASSUME TypeInv, UNCHANGED <<repo, store, outside, runs, applied>>,
           overtaken' \subseteq Preflights, CallsFit(call')
    PROVE  TypeInv'
  <1>1. UNCHANGED <<auth, plan, receipts, closeouts, task>>
    BY DEF store
  <1>2. UNCHANGED <<repo, plan, outside, runs, applied>>
    BY <1>1
  <1> QED
    BY <1>1, <1>2, Parts, StoreStep

\* A step of the working tree, the index, the log or the remote.
LEMMA RepoStep ==
    ASSUME TypeInv, UNCHANGED store,
           work' \in Trees, index' \in Trees, log' \in Seq(Entries),
           HEAD' \in 1..MaxLog, HEAD <= HEAD', remote' \in 1..HEAD',
           outside' \in 0..MaxOutside, runs' \in [Preflights -> Nat],
           applied' \subseteq Preflights, overtaken' \subseteq Preflights,
           CallsFit(call')
    PROVE  TypeInv'
  <1>1. UNCHANGED <<auth, plan, receipts, closeouts, task>>
    BY DEF store
  <1> QED
    BY <1>1, Parts, Assembled

-----------------------------------------------------------------------------
(* Every step keeps TypeInv, one lemma per action.                         *)

LEMMA InitType == Init => TypeInv
  <1> SUFFICES ASSUME Init PROVE TypeInv
    OBVIOUS
  <1>1. work \in Trees /\ index \in Trees
    BY GitAssumption DEF Init, Trees, Contents
  <1>2. [tree |-> [q \in Paths |-> 0], subject |-> None] \in Entries
    BY GitAssumption DEF Entries, Trees, Contents
  <1>3. log \in Seq(Entries) /\ HEAD = 1 /\ HEAD \in 1..MaxLog
    BY <1>2, GitAssumption DEF Init, HEAD
  <1>4. Idle \in CallRecords /\ Idle.step = "idle"
    BY IdleIsCall
  <1>5. call \in [Runtimes -> CallRecords] /\ \A r \in Runtimes : call[r].step = "idle"
    BY <1>4 DEF Init
  <1>6. auth \in [Preflights -> AuthorityStates] /\ \A p \in Preflights : auth[p] = "none"
    BY DEF Init, AuthorityStates
  <1>7. receipts \in [Preflights -> Seq(Receipts)] /\ plan \in [Preflights -> Plans \cup {None}]
    BY DEF Init
  <1>8. /\ closeouts \subseteq ReceiptIds /\ task \in Tasks /\ outside \in 0..MaxOutside
        /\ runs \in [Preflights -> Nat] /\ applied \subseteq Preflights
        /\ overtaken \subseteq Preflights
    BY GitAssumption DEF Init, Tasks
  <1>9. remote \in 1..HEAD
    BY <1>3 DEF Init
  <1>10. TypeOK
    BY <1>1, <1>3, <1>5, <1>6, <1>7, <1>8, <1>9 DEF TypeOK, Entries, Tasks, CallRecords
  <1> QED
    BY <1>5, <1>6, <1>10 DEF TypeInv, Planned

LEMMA PreflightType ==
    ASSUME TypeInv, NEW p \in Preflights, NEW op \in Operations, Preflight(p, op)
    PROVE  TypeInv'
  <1>1. PICK S \in Candidates(op) :
           plan' = [plan EXCEPT ![p] = [op |-> op, snap |-> Snapshot, paths |-> S,
                                        want |-> Added(S), remote |-> remote]]
    BY DEF Preflight
  <1>2. S \subseteq Paths
    BY <1>1 DEF Candidates, Operations, Stages, Commits, Unstaged, Staged, Differ
  <1>3. Snapshot \in Snapshots /\ Snapshot.head = HEAD
    BY Parts DEF Snapshot, Snapshots, Unstaged, Differ
  <1>4. Added(S) \in Trees /\ remote \in 1..MaxLog
    BY Parts, AddedIsTree, GitAssumption
  <1> DEFINE new == [op |-> op, snap |-> Snapshot, paths |-> S,
                     want |-> Added(S), remote |-> remote]
  <1>5. new \in Plans /\ new.snap.head <= HEAD
    BY <1>2, <1>3, <1>4, Parts DEF Plans
  <1>6. plan \in [Preflights -> Plans \cup {None}]
    BY DEF TypeInv, TypeOK
  <1> HIDE DEF new
  <1>7. plan' = [plan EXCEPT ![p] = new]
    BY <1>1 DEF new
  <1>8. plan' \in [Preflights -> Plans \cup {None}]
    BY <1>5, <1>6, <1>7
  <1>9. auth' = [auth EXCEPT ![p] = "ready"] /\ auth' \in [Preflights -> AuthorityStates]
    BY Parts DEF Preflight, AuthorityStates
  <1>10. UNCHANGED <<work, index, log, remote, receipts, closeouts, task, call, outside,
                     runs, applied, overtaken>> /\ HEAD' = HEAD
    BY DEF Preflight, repo, history, HEAD
  <1>11. TypeOK'
    BY <1>8, <1>9, <1>10, Parts DEF TypeOK, Entries, Tasks, CallRecords
  <1>12. ASSUME NEW q \in Preflights, auth'[q] # "none"
         PROVE  plan'[q] \in Plans /\ plan'[q].snap.head <= HEAD'
    <2>1. CASE q = p
      BY <1>5, <1>6, <1>7, <1>10, <2>1
    <2>2. CASE q # p
      BY <1>6, <1>7, <1>9, <1>10, <1>12, <2>2, Parts DEF TypeInv, Planned
    <2> QED
      BY <2>1, <2>2
  <1>13. \A r \in Runtimes :
           call'[r].step # "idle" => call'[r].pre \in Preflights /\ auth'[call'[r].pre] # "none"
    BY <1>9, <1>10, Parts DEF CallsFit
  <1>14. \A r \in Runtimes :
           call'[r].step \in {"settled", "recorded", "finished", "bound"} =>
               call'[r].verdict \in Verdicts
    BY <1>10, Parts DEF CallsFit
  <1> QED
    BY <1>11, <1>12, <1>13, <1>14 DEF TypeInv, Planned

\* Begin and Mismatch set up a call of the preflight.
LEMMA BegunCall ==
    ASSUME TypeInv, NEW r \in Runtimes, NEW p \in Preflights, Begin(r, p) \/ Mismatch(r, p)
    PROVE  \E c \in CallRecords :
              /\ call' = [call EXCEPT ![r] = c]
              /\ c.pre = p
              /\ c.step \in {"begun", "recovering", "recorded", "rejected"}
              /\ c.step = "recorded" => c.verdict \in Verdicts
  <1>1. CASE /\ receipts[p] # <<>>
             /\ call' = [call EXCEPT ![r] = [Idle EXCEPT
                   !.step = "recorded", !.pre = p, !.rid = Len(receipts[p]),
                   !.verdict = receipts[p][Len(receipts[p])].status]]
    <2>1. receipts[p] \in Seq(Receipts) /\ Len(receipts[p]) \in 1..Len(receipts[p])
      BY <1>1, Parts
    <2>2. receipts[p][Len(receipts[p])] \in Receipts /\ Len(receipts[p]) \in Nat
      BY <2>1
    <2>3. receipts[p][Len(receipts[p])].status \in Verdicts
      BY <2>2 DEF Receipts
    <2> DEFINE c == [Idle EXCEPT !.step = "recorded", !.pre = p, !.rid = Len(receipts[p]),
                                 !.verdict = receipts[p][Len(receipts[p])].status]
    <2>4. c \in CallRecords /\ c.pre = p /\ c.step = "recorded" /\ c.verdict \in Verdicts
      <3>1. Idle \in CallRecords /\ "recorded" \in Steps
        BY IdleIsCall DEF Steps
      <3> QED
        BY <2>2, <2>3, <3>1 DEF CallRecords
    <2> QED
      BY <1>1, <2>4
  <1>2. CASE \E st \in {"begun", "recovering", "rejected"} :
                call' = [call EXCEPT ![r] = [Idle EXCEPT !.step = st, !.pre = p]]
    <2>1. PICK st \in {"begun", "recovering", "rejected"} :
                call' = [call EXCEPT ![r] = [Idle EXCEPT !.step = st, !.pre = p]]
      BY <1>2
    <2> DEFINE c == [Idle EXCEPT !.step = st, !.pre = p]
    <2>2. c \in CallRecords /\ c.pre = p /\ c.step = st
      <3>1. Idle \in CallRecords /\ st \in Steps
        BY IdleIsCall DEF Steps
      <3> QED
        BY <3>1 DEF CallRecords
    <2> QED
      BY <2>1, <2>2
  <1> QED
    BY <1>1, <1>2 DEF Begin, Mismatch

LEMMA BeginType ==
    ASSUME TypeInv, NEW r \in Runtimes, NEW p \in Preflights, Begin(r, p) \/ Mismatch(r, p)
    PROVE  TypeInv'
  <1>1. UNCHANGED <<repo, store, outside, runs, applied, overtaken>>
    BY DEF Begin, Mismatch, history
  <1>2. PICK c \in CallRecords :
           /\ call' = [call EXCEPT ![r] = c]
           /\ c.pre = p
           /\ c.step \in {"begun", "recovering", "recorded", "rejected"}
           /\ c.step = "recorded" => c.verdict \in Verdicts
    BY BegunCall
  <1>3. auth[p] # "none"
    BY DEF Begin, Mismatch
  <1>4. CallsFit(call')
    BY <1>2, <1>3, Parts DEF CallsFit
  <1> QED
    BY <1>1, <1>4, Parts, CallOnlyStep

\* A call that goes on or is decided fits.
LEMMA GoFits ==
    ASSUME TypeInv, NEW r \in Runtimes, NEW from, NEW to \in Steps, from # "idle",
           Go(r, from, to),
           to \in {"settled", "recorded", "finished", "bound"} => call[r].verdict \in Verdicts
    PROVE  CallsFit(call')
  <1>1. /\ call' \in [Runtimes -> CallRecords] /\ call'[r].pre = call[r].pre
        /\ call'[r].verdict = call[r].verdict /\ call'[r].step = to
        /\ \A s \in Runtimes \ {r} : call'[s] = call[s]
    BY GoType
  <1>2. call[r].step # "idle"
    BY DEF Go
  <1> QED
    BY <1>1, <1>2, MovedCallFits

LEMMA DecideFits ==
    ASSUME TypeInv, NEW r \in Runtimes, NEW from, NEW v \in Verdicts, NEW b, from # "idle",
           Decide(r, from, v, b)
    PROVE  CallsFit(call')
  <1>1. /\ call' \in [Runtimes -> CallRecords] /\ call'[r].pre = call[r].pre
        /\ call'[r].verdict \in Verdicts
        /\ \A s \in Runtimes \ {r} : call'[s] = call[s]
    BY DecideType
  <1>2. call[r].step # "idle"
    BY DEF Decide
  <1> QED
    BY <1>1, <1>2, MovedCallFits

LEMMA EndType ==
    ASSUME TypeInv, NEW r \in Runtimes, RefuseBinding(r) \/ Crash(r)
    PROVE  TypeInv'
  <1>1. UNCHANGED <<repo, store, outside, runs, applied, overtaken>>
    BY DEF RefuseBinding, Crash, history
  <1>2. call' = [call EXCEPT ![r] = Idle]
    BY DEF RefuseBinding, Crash
  <1> QED
    BY <1>1, <1>2, Parts, IdleCallFits, CallOnlyStep

LEMMA VerifyType ==
    ASSUME TypeInv, NEW r \in Runtimes, Verify(r)
    PROVE  TypeInv'
  <1>1. UNCHANGED <<repo, store, outside, runs, applied, overtaken>>
    BY DEF Verify, history
  <1>2. \E to \in {"verified", "rejected"} : Go(r, "begun", to)
    BY DEF Verify
  <1>3. CallsFit(call')
    BY <1>2, GoFits DEF Steps
  <1> QED
    BY <1>1, <1>3, Parts, CallOnlyStep

LEMMA CheckAddedType ==
    ASSUME TypeInv, NEW r \in Runtimes, CheckAdded(r)
    PROVE  TypeInv'
  <1>1. UNCHANGED <<repo, store, outside, runs, applied, overtaken>>
    BY DEF CheckAdded, history
  <1>2. Go(r, "added", "checked") \/ Decide(r, "added", "outcome_unknown", FALSE)
    BY DEF CheckAdded
  <1>3. CallsFit(call')
    <2>1. CASE Go(r, "added", "checked")
      BY <2>1, GoFits DEF Steps
    <2>2. CASE Decide(r, "added", "outcome_unknown", FALSE)
      BY <2>2, DecideFits DEF Verdicts
    <2> QED
      BY <1>2, <2>1, <2>2
  <1> QED
    BY <1>1, <1>3, Parts, CallOnlyStep

LEMMA RecoverType ==
    ASSUME TypeInv, NEW r \in Runtimes, Recover(r)
    PROVE  TypeInv'
  <1>1. UNCHANGED <<repo, store, outside, runs, applied>>
    BY DEF Recover
  <1>2. call[r].pre \in Preflights /\ auth[call[r].pre] # "none"
    BY Parts DEF Recover, CallsFit
  <1>3. overtaken' \subseteq Preflights
    BY <1>2, Parts DEF Recover
  <1>4. Recovered(call[r].pre) \in Verdicts
    BY <1>2, RecoveredIsVerdict
  <1>5. CallsFit(call')
    BY <1>4, DecideFits DEF Recover
  <1> QED
    BY <1>1, <1>3, <1>5, CallOnlyStep

LEMMA ClaimType ==
    ASSUME TypeInv, NEW r \in Runtimes, Claim(r)
    PROVE  TypeInv'
  <1>1. UNCHANGED <<repo, plan, receipts, closeouts, task, outside, runs, applied, overtaken>>
    BY DEF Claim, history
  <1>2. \E to \in {"claimed", "rejected"} : Go(r, "verified", to)
    BY DEF Claim
  <1>3. CallsFit(call')
    BY <1>2, GoFits DEF Steps
  <1>4. \/ auth' = auth
        \/ /\ auth[call[r].pre] = "ready"
           /\ \E s \in {"executing", "expired"} : auth' = [auth EXCEPT ![call[r].pre] = s]
    BY DEF Claim, Claimable
  <1>5. /\ auth' \in [Preflights -> AuthorityStates]
        /\ \A p \in Preflights : auth'[p] = "none" <=> auth[p] = "none"
    BY <1>4, Parts DEF AuthorityStates, Over
  <1> QED
    BY <1>1, <1>3, <1>5, Parts, StoreStep

LEMMA FinishType ==
    ASSUME TypeInv, NEW r \in Runtimes, Finish(r)
    PROVE  TypeInv'
  <1>1. UNCHANGED <<repo, plan, receipts, closeouts, task, outside, runs, applied, overtaken>>
    BY DEF Finish, history
  <1>2. /\ call[r].pre \in Preflights /\ call[r].verdict \in Verdicts
        /\ call[r].step = "recorded"
    BY Parts DEF Finish, CallsFit, Go
  <1>3. CallsFit(call')
    BY <1>2, GoFits DEF Finish, Steps
  <1>4. call[r].verdict \in Over
    BY <1>2 DEF Over
  <1>5. /\ auth' \in [Preflights -> AuthorityStates]
        /\ \A p \in Preflights : auth'[p] = "none" <=> auth[p] = "none"
    BY <1>2, <1>4, FinishedIsState DEF Finish
  <1> QED
    BY <1>1, <1>3, <1>5, Parts, StoreStep

LEMMA RetireType ==
    ASSUME TypeInv, NEW r \in Runtimes, Retire(r)
    PROVE  TypeInv'
  <1>1. UNCHANGED <<repo, plan, receipts, closeouts, task, outside, runs, applied, overtaken>>
    BY DEF Retire, history
  <1>2. call[r].pre \in Preflights /\ "invalidated" \in Over
    BY Parts DEF Retire, CallsFit, Over
  <1>3. CallsFit(call')
    BY IdleCallFits DEF Retire
  <1>5. /\ auth' \in [Preflights -> AuthorityStates]
        /\ \A p \in Preflights : auth'[p] = "none" <=> auth[p] = "none"
    BY <1>2, FinishedIsState DEF Retire
  <1> QED
    BY <1>1, <1>3, <1>5, Parts, StoreStep

LEMMA RecordType ==
    ASSUME TypeInv, NEW r \in Runtimes, Record(r)
    PROVE  TypeInv'
  <1> DEFINE p == call[r].pre
             rec == [call[r] EXCEPT !.step = "recorded", !.rid = Len(receipts[p]) + 1]
  <1>1. UNCHANGED <<repo, auth, plan, closeouts, task, outside, runs, applied, overtaken>>
    BY DEF Record, history
  <1>2. /\ p \in Preflights /\ call[r].verdict \in Verdicts
        /\ call[r] \in CallRecords /\ call[r].step = "settled"
    BY Parts DEF Record, CallsFit
  <1>3. receipts[p] \in Seq(Receipts) /\ Len(receipts[p]) + 1 \in Nat
    BY <1>2, Parts
  <1>4. [status |-> call[r].verdict, head |-> call[r].at] \in Receipts
    BY <1>2 DEF CallRecords, Receipts
  <1>5. Append(receipts[p], [status |-> call[r].verdict, head |-> call[r].at]) \in Seq(Receipts)
    BY <1>3, <1>4
  <1>6. receipts' \in [Preflights -> Seq(Receipts)]
    BY <1>2, <1>5, Parts DEF Record
  <1>7. /\ rec \in CallRecords /\ rec.pre = call[r].pre
        /\ rec.verdict = call[r].verdict
    <2>1. "recorded" \in Steps
      BY DEF Steps
    <2> QED
      BY <1>2, <1>3, <2>1 DEF CallRecords
  <1>8. call' = [call EXCEPT ![r] = rec]
    BY Parts DEF Record, CallRecords
  <1> HIDE DEF rec
  <1>9. CallsFit(call')
    BY <1>2, <1>7, <1>8, Parts, MovedCallFits
  <1> QED
    BY <1>1, <1>6, <1>9, Parts, StoreStep

LEMMA BindType ==
    ASSUME TypeInv, NEW r \in Runtimes, Bind(r)
    PROVE  TypeInv'
  <1>1. UNCHANGED <<repo, auth, plan, receipts, closeouts, outside, runs, applied, overtaken>>
    BY DEF Bind, history
  <1>2. /\ call[r].pre \in Preflights /\ call[r].verdict \in Verdicts
        /\ call[r] \in CallRecords
    BY Parts DEF Bind, Go, CallsFit
  <1>3. CallsFit(call')
    BY <1>2, GoFits DEF Bind, Steps
  <1>4. ReceiptId(r) \in ReceiptIds
    BY <1>2 DEF ReceiptId, ReceiptIds, CallRecords
  <1>5. task' \in Tasks
    BY <1>4, Parts DEF Bind, Tasks
  <1> QED
    BY <1>1, <1>3, <1>5, Parts, StoreStep

LEMMA CloseOutType ==
    ASSUME TypeInv, NEW r \in Runtimes, CloseOut(r)
    PROVE  TypeInv'
  <1>1. UNCHANGED <<repo, auth, plan, receipts, task, outside, runs, applied, overtaken>>
    BY DEF CloseOut, history
  <1>2. call[r].pre \in Preflights /\ call[r] \in CallRecords
    BY Parts DEF CloseOut, CallsFit
  <1>3. ReceiptId(r) \in ReceiptIds
    BY <1>2 DEF ReceiptId, ReceiptIds, CallRecords
  <1>4. closeouts' \subseteq ReceiptIds
    BY <1>3, Parts DEF CloseOut
  <1>5. CallsFit(call')
    BY IdleCallFits DEF CloseOut
  <1> QED
    BY <1>1, <1>4, <1>5, Parts, StoreStep

LEMMA CloseOutFailureType ==
    ASSUME TypeInv, NEW r \in Runtimes, CloseOutFailure(r)
    PROVE  TypeInv'
  <1>1. UNCHANGED <<repo, auth, plan, receipts, outside, runs, applied, overtaken>>
    BY DEF CloseOutFailure, history
  <1>2. call[r].pre \in Preflights /\ call[r] \in CallRecords
    BY Parts DEF CloseOutFailure, CallsFit
  <1>3. ReceiptId(r) \in ReceiptIds
    BY <1>2 DEF ReceiptId, ReceiptIds, CallRecords
  <1>4. closeouts' \subseteq ReceiptIds
    BY <1>3, Parts DEF CloseOutFailure
  <1>5. task' = task \/ \E st \in {"failed", "blocked"} : task' = [task EXCEPT !.status = st]
    BY DEF CloseOutFailure
  <1>6. task' \in Tasks
    BY <1>5, Parts DEF Tasks
  <1>7. CallsFit(call')
    <2>1. CASE call' = [call EXCEPT ![r] = Idle]
      BY <2>1, IdleCallFits
    <2>2. CASE Go(r, "finished", "rejected")
      BY <2>2, GoFits DEF Steps
    <2> QED
      BY <2>1, <2>2 DEF CloseOutFailure
  <1> QED
    BY <1>1, <1>4, <1>6, <1>7, Parts, StoreStep

\* A commit adds an entry to the log.
LEMMA Extended ==
    ASSUME TypeInv, NEW e \in Entries, HEAD < MaxLog, log' = Append(log, e)
    PROVE  /\ log' \in Seq(Entries) /\ HEAD' \in 1..MaxLog /\ HEAD <= HEAD'
           /\ remote \in 1..HEAD'
  <1>1. log \in Seq(Entries) /\ HEAD \in 1..MaxLog /\ HEAD \in Nat /\ remote \in 1..HEAD
    BY Parts
  <1>2. log' \in Seq(Entries) /\ Len(log') = Len(log) + 1
    BY <1>1
  <1>3. HEAD' = HEAD + 1
    BY <1>2 DEF HEAD
  <1> QED
    BY <1>1, <1>2, <1>3, GitAssumption

\* What a Git command of a claimed call leaves behind.
LEMMA EffectType ==
    ASSUME TypeInv, NEW p \in Preflights, auth[p] # "none", NEW step,
           Effect(p, step) \/ UNCHANGED <<repo, applied>>
    PROVE  /\ work' \in Trees /\ index' \in Trees /\ log' \in Seq(Entries)
           /\ HEAD' \in 1..MaxLog /\ HEAD <= HEAD' /\ remote' \in 1..HEAD'
           /\ applied' \subseteq Preflights
  <1>1. CASE UNCHANGED <<repo, applied>>
    <2>1. UNCHANGED <<work, index, log, remote, applied>> /\ HEAD' = HEAD
      BY <1>1 DEF repo, HEAD
    <2> QED
      BY <2>1, Parts
  <1>2. CASE AddEffect(p) /\ UNCHANGED applied
    <2>1. UNCHANGED <<work, log, remote, applied>> /\ HEAD' = HEAD
      BY <1>2 DEF AddEffect, HEAD
    <2>2. index' \in Trees
      BY <1>2, Parts, AddedIsTree DEF AddEffect
    <2> QED
      BY <2>1, <2>2, Parts
  <1>3. CASE PushEffect /\ applied' = applied \cup {p}
    <2>1. UNCHANGED <<work, index, log>> /\ HEAD' = HEAD /\ remote' = HEAD
      BY <1>3 DEF PushEffect, HEAD
    <2> QED
      BY <1>3, <2>1, Parts
  <1>4. CASE CommitEffect(p) /\ applied' = applied \cup {p}
    <2> DEFINE e == [tree |-> CommittedTree(p), subject |-> Subject(p)]
    <2>1. e \in Entries
      BY CommittedIsTree DEF Entries, Subject
    <2>2. log' = Append(log, e) /\ HEAD < MaxLog /\ UNCHANGED <<work, index, remote>>
      BY <1>4 DEF CommitEffect, Committable
    <2> HIDE DEF e
    <2> QED
      BY <1>4, <2>1, <2>2, Extended, Parts
  <1> QED
    BY <1>1, <1>2, <1>3, <1>4 DEF Effect

LEMMA RunGitType ==
    ASSUME TypeInv, NEW r \in Runtimes, RunGit(r)
    PROVE  TypeInv'
  <1> DEFINE p == call[r].pre
             step == call[r].step
             next == IF Op(p) = "verified_commit" /\ step = "claimed" THEN "added" ELSE "ran"
             bad == IF Decisive(p, step) THEN "failed" ELSE "outcome_unknown"
  <1>1. /\ step \in {"claimed", "checked"} /\ p \in Preflights /\ auth[p] # "none"
        /\ UNCHANGED store /\ outside' = outside /\ overtaken' = overtaken
    BY Parts DEF RunGit, CallsFit
  <1>2. Effect(p, step) \/ UNCHANGED <<repo, applied>>
    BY DEF RunGit
  <1>3. \/ Go(r, step, next)
        \/ \E v \in Verdicts, b \in {TRUE, FALSE, Decisive(p, step)} : Decide(r, step, v, b)
    <2>1. {"outcome_unknown", "failed", bad} \subseteq Verdicts
      BY DEF Verdicts
    <2>2. \/ Go(r, step, next) \/ Decide(r, step, bad, Decisive(p, step))
          \/ Decide(r, step, "outcome_unknown", Decisive(p, step))
          \/ Decide(r, step, "failed", FALSE)
      BY DEF RunGit
    <2> QED
      BY <2>1, <2>2
  <1>4. next \in Steps /\ next \notin {"settled", "recorded", "finished", "bound"}
    BY DEF Steps
  <1> HIDE DEF next, bad
  <1>5. CallsFit(call')
    BY <1>1, <1>3, <1>4, GoFits, DecideFits
  <1>6. runs' \in [Preflights -> Nat]
    <2>1. runs' = runs \/ runs' = [runs EXCEPT ![p] = @ + 1]
      BY DEF RunGit, Counted
    <2>2. runs \in [Preflights -> Nat] /\ p \in Preflights
      BY <1>1, Parts
    <2> HIDE DEF p
    <2> QED
      BY <2>1, <2>2
  <1> HIDE DEF p, step
  <1> QED
    BY <1>1, <1>2, <1>5, <1>6, EffectType, Parts, RepoStep

LEMMA ReadBackType ==
    ASSUME TypeInv, NEW r \in Runtimes, ReadBack(r)
    PROVE  TypeInv'
  <1>1. /\ call[r].pre \in Preflights
        /\ UNCHANGED <<work, log, remote, outside, runs, applied, overtaken>>
        /\ UNCHANGED store /\ HEAD' = HEAD
    BY Parts DEF ReadBack, CallsFit, history, HEAD
  <1>2. index' \in Trees
    BY <1>1, RestoredIsTree, Parts DEF ReadBack
  <1>3. \E v \in Verdicts, b \in {TRUE, Op(call[r].pre) \notin Stages} : Decide(r, "ran", v, b)
    BY DEF ReadBack, Verdicts
  <1>4. CallsFit(call')
    BY <1>3, DecideFits
  <1> QED
    BY <1>1, <1>2, <1>4, Parts, RepoStep

LEMMA PersonType ==
    ASSUME TypeInv, PersonStep
    PROVE  TypeInv'
  <1>1. /\ UNCHANGED store /\ UNCHANGED <<call, runs, applied, overtaken>>
        /\ outside' \in 0..MaxOutside
    <2>1. Person
      BY DEF PersonStep, PersonAdds, Edit, PersonCommits, PersonPushes
    <2> QED
      BY <2>1, Parts, GitAssumption DEF Person, history
  <1>2. CallsFit(call')
    BY <1>1, Parts
  <1>3. CASE \E q \in Paths : PersonAdds(q)
    <2>1. PICK q \in Paths : PersonAdds(q)
      BY <1>3
    <2>2. UNCHANGED <<work, log, remote>> /\ HEAD' = HEAD /\ index' = Added({q})
      BY <2>1 DEF PersonAdds, HEAD
    <2>3. index' \in Trees
      BY <2>2, Parts, AddedIsTree
    <2> QED
      BY <1>1, <1>2, <2>2, <2>3, Parts, RepoStep
  <1>4. CASE \E q \in Paths, c \in Contents : Edit(q, c)
    <2>1. PICK q \in Paths, c \in Contents : Edit(q, c)
      BY <1>4
    <2>2. UNCHANGED <<index, log, remote>> /\ HEAD' = HEAD
      BY <2>1 DEF Edit, HEAD
    <2>3. work' \in Trees
      BY <2>1, Parts DEF Edit, Trees
    <2> QED
      BY <1>1, <1>2, <2>2, <2>3, Parts, RepoStep
  <1>5. CASE PersonCommits
    <2> DEFINE e == [tree |-> index, subject |-> None]
    <2>1. e \in Entries
      BY Parts DEF Entries
    <2>2. log' = Append(log, e) /\ HEAD < MaxLog /\ UNCHANGED <<work, index, remote>>
      BY <1>5 DEF PersonCommits
    <2> HIDE DEF e
    <2> QED
      BY <1>1, <1>2, <2>1, <2>2, Extended, Parts, RepoStep
  <1>6. CASE PersonPushes
    <2>1. UNCHANGED <<work, index, log>> /\ HEAD' = HEAD /\ remote' = HEAD
      BY <1>6 DEF PersonPushes, HEAD
    <2> QED
      BY <1>1, <1>2, <2>1, Parts, RepoStep
  <1> QED
    BY <1>3, <1>4, <1>5, <1>6 DEF PersonStep

\* TypeInv is kept by every step.
LEMMA TypeStep == TypeInv /\ [Next]_vars => TypeInv'
  <1> SUFFICES ASSUME TypeInv, [Next]_vars PROVE TypeInv'
    OBVIOUS
  <1>1. CASE UNCHANGED vars
    BY <1>1, Parts, CallOnlyStep DEF vars, history
  <1>2. CASE \E p \in Preflights, op \in Operations : Preflight(p, op)
    BY <1>2, PreflightType
  <1>3. CASE \E r \in Runtimes : CallStep(r)
    BY <1>3, BeginType, EndType, VerifyType, ClaimType, RunGitType, CheckAddedType,
       ReadBackType, RecoverType, RecordType, FinishType, BindType, CloseOutType,
       CloseOutFailureType, RetireType DEF CallStep
  <1>4. CASE PersonStep
    BY <1>4, PersonType
  <1> QED
    BY <1>1, <1>2, <1>3, <1>4 DEF Next

\* Every variable keeps its type.
THEOREM TypeCorrect == Spec => []TypeOK
  <1>1. TypeInv => TypeOK
    BY DEF TypeInv
  <1> QED
    BY <1>1, InitType, TypeStep, PTL DEF Spec

-----------------------------------------------------------------------------
(* A preflight's command is run at most once.                              *)

\* Runtime r has claimed p and its command is still to come.
Holds(r, p) == call[r].pre = p /\ call[r].step \in {"claimed", "added", "checked"}

Unclaimed == {"none", "ready"}

\* Before the claim nothing has been run; there is one holder of the claim,
\* and while it holds it nothing has been run either.
ClaimedOnce ==
    /\ \A p \in Preflights : auth[p] \in Unclaimed => runs[p] = 0
    /\ \A r \in Runtimes, p \in Preflights :
          Holds(r, p) => auth[p] \notin Unclaimed /\ runs[p] = 0
    /\ \A r, s \in Runtimes, p \in Preflights : Holds(r, p) /\ Holds(s, p) => r = s

OnceInv == RunAtMostOnce /\ ClaimedOnce

\* Steps that run nothing, make no holder and give no claim back.
QuietStep ==
    /\ runs' = runs
    /\ \A r \in Runtimes, p \in Preflights : Holds(r, p)' => Holds(r, p)
    /\ \A p \in Preflights : auth'[p] \in Unclaimed => auth[p] \in Unclaimed

LEMMA QuietOnce ==
    ASSUME OnceInv, QuietStep
    PROVE  OnceInv'
  BY DEF OnceInv, QuietStep, ClaimedOnce, RunAtMostOnce

\* A call that moves elsewhere than to a claim makes no holder.
LEMMA MovedIsNoHolder ==
    ASSUME TypeInv, NEW r \in Runtimes, NEW c,
           call' = [call EXCEPT ![r] = c],
           c.step \notin {"claimed", "added", "checked"}
    PROVE  \A s \in Runtimes, p \in Preflights : Holds(s, p)' => Holds(s, p)
  BY Parts DEF Holds

LEMMA GoIsNoHolder ==
    ASSUME TypeInv, NEW r \in Runtimes, NEW from, NEW to \in Steps, Go(r, from, to),
           to \notin {"claimed", "added", "checked"}
    PROVE  \A s \in Runtimes, p \in Preflights : Holds(s, p)' => Holds(s, p)
  <1>1. call'[r].step = to /\ \A s \in Runtimes \ {r} : call'[s] = call[s]
    BY GoType
  <1> QED
    BY <1>1 DEF Holds

LEMMA DecideIsNoHolder ==
    ASSUME TypeInv, NEW r \in Runtimes, NEW from, NEW v \in Verdicts, NEW b,
           Decide(r, from, v, b)
    PROVE  \A s \in Runtimes, p \in Preflights : Holds(s, p)' => Holds(s, p)
  <1>1. call'[r].step \in {"settled", "recorded"} /\ \A s \in Runtimes \ {r} : call'[s] = call[s]
    BY DecideType
  <1> QED
    BY <1>1 DEF Holds

\* finish gives no claim back.
LEMMA FinishedIsClaimed ==
    ASSUME TypeInv, NEW p \in Preflights, NEW s \in Over, auth' = Finished(p, s)
    PROVE  \A q \in Preflights : auth'[q] \in Unclaimed => auth'[q] = auth[q]
  BY Parts DEF Finished, Unclaimed, Over, Verdicts

\* The claim: the authority was ready, so nobody held it and nothing had run.
LEMMA ClaimOnce ==
    ASSUME TypeInv, OnceInv, NEW r \in Runtimes, Claim(r)
    PROVE  OnceInv'
  <1> DEFINE p == call[r].pre
  <1>1. p \in Preflights /\ runs' = runs
    BY Parts DEF Claim, CallsFit, history
  <1>2. CASE /\ auth[p] = "ready" /\ Go(r, "verified", "claimed")
             /\ auth' = [auth EXCEPT ![p] = "executing"]
    <2>1. /\ call'[r].pre = p /\ call'[r].step = "claimed"
          /\ \A s \in Runtimes \ {r} : call'[s] = call[s]
      BY <1>2, GoType DEF Steps
    <2>2. runs[p] = 0 /\ \A s \in Runtimes : ~Holds(s, p)
      BY <1>1, <1>2 DEF OnceInv, ClaimedOnce, Unclaimed
    <2>3. /\ auth'[p] = "executing"
          /\ \A q \in Preflights \ {p} : auth'[q] = auth[q]
      BY <1>1, <1>2, Parts
    <2>4. \A s \in Runtimes, q \in Preflights :
            Holds(s, q)' => (s = r /\ q = p) \/ (s # r /\ q # p /\ Holds(s, q))
      BY <2>1, <2>2 DEF Holds
    <2>5. "executing" \notin Unclaimed
      BY DEF Unclaimed
    <2> HIDE DEF p
    <2>6. \A q \in Preflights : auth'[q] \in Unclaimed => runs'[q] = 0
      BY <1>1, <2>3, <2>5 DEF OnceInv, ClaimedOnce
    <2>7. \A s \in Runtimes, q \in Preflights :
            Holds(s, q)' => auth'[q] \notin Unclaimed /\ runs'[q] = 0
      BY <1>1, <2>2, <2>3, <2>4, <2>5 DEF OnceInv, ClaimedOnce
    <2>8. \A s, t \in Runtimes, q \in Preflights : Holds(s, q)' /\ Holds(t, q)' => s = t
      BY <2>4 DEF OnceInv, ClaimedOnce
    <2> QED
      BY <1>1, <2>6, <2>7, <2>8 DEF OnceInv, ClaimedOnce, RunAtMostOnce
  <1>3. CASE /\ Go(r, "verified", "rejected")
             /\ auth' = auth \/ auth' = [auth EXCEPT ![p] = "expired"]
    <2>1. \A s \in Runtimes, q \in Preflights : Holds(s, q)' => Holds(s, q)
      BY <1>3, GoIsNoHolder DEF Steps
    <2>2. \A q \in Preflights : auth'[q] \in Unclaimed => auth[q] \in Unclaimed
      BY <1>1, <1>3, Parts DEF Unclaimed
    <2> QED
      BY <1>1, <2>1, <2>2, QuietOnce DEF QuietStep
  <1> QED
    BY <1>2, <1>3 DEF Claim, Claimable

\* The command: the one holder runs it and holds it no longer, or has only
\* staged the candidate of a verified commit.
LEMMA RunGitOnce ==
    ASSUME TypeInv, OnceInv, NEW r \in Runtimes, RunGit(r)
    PROVE  OnceInv'
  <1> DEFINE p == call[r].pre
             step == call[r].step
             first == Op(p) = "verified_commit" /\ step = "claimed"
  <1>1. /\ step \in {"claimed", "checked"} /\ p \in Preflights
        /\ auth' = auth
    BY Parts DEF RunGit, CallsFit, store
  <1>2. /\ Holds(r, p) /\ runs[p] = 0 /\ auth[p] \notin Unclaimed
        /\ \A s \in Runtimes \ {r} : ~Holds(s, p)
    BY <1>1 DEF Holds, OnceInv, ClaimedOnce
  <1>3. runs' = IF first THEN runs ELSE [runs EXCEPT ![p] = @ + 1]
    BY DEF RunGit, Counted
  <1>4. \/ Go(r, step, IF first THEN "added" ELSE "ran")
        \/ \E v \in Verdicts, b \in {TRUE, FALSE, Decisive(p, step)} : Decide(r, step, v, b)
    BY DEF RunGit, Verdicts
  <1>5. /\ \A s \in Runtimes \ {r} : call'[s] = call[s]
        /\ call'[r].pre = p
        /\ call'[r].step \in {"claimed", "added", "checked"} => first
    <2>1. CASE Go(r, step, IF first THEN "added" ELSE "ran")
      <3>1. (IF first THEN "added" ELSE "ran") \in Steps
        BY DEF Steps
      <3> HIDE DEF first
      <3> QED
        BY <2>1, <3>1, GoType
    <2>2. CASE \E v \in Verdicts, b \in {TRUE, FALSE, Decisive(p, step)} : Decide(r, step, v, b)
      BY <2>2, DecideType
    <2> QED
      BY <1>4, <2>1, <2>2
  <1>6. runs \in [Preflights -> Nat]
    BY Parts
  <1> HIDE DEF p, step, first
  <1>7. CASE first
    <2>1. \A s \in Runtimes, q \in Preflights : Holds(s, q)' => Holds(s, q)
      BY <1>2, <1>5 DEF Holds
    <2> QED
      BY <1>1, <1>3, <1>7, <2>1, QuietOnce DEF QuietStep
  <1>8. CASE ~first
    <2>1. \A s \in Runtimes, q \in Preflights : Holds(s, q)' => q # p /\ Holds(s, q)
      BY <1>2, <1>5, <1>8 DEF Holds
    <2>2. runs'[p] = 1 /\ \A q \in Preflights \ {p} : runs'[q] = runs[q]
      BY <1>1, <1>2, <1>3, <1>6, <1>8
    <2>3. RunAtMostOnce'
      BY <2>2 DEF OnceInv, RunAtMostOnce
    <2>4. ClaimedOnce'
      BY <1>1, <1>2, <2>1, <2>2 DEF OnceInv, ClaimedOnce
    <2> QED
      BY <2>3, <2>4 DEF OnceInv
  <1> QED
    BY <1>7, <1>8

\* Every other step of a call is quiet.
LEMMA OtherStepIsQuiet ==
    ASSUME TypeInv, NEW r \in Runtimes, CallStep(r), ~Claim(r), ~RunGit(r)
    PROVE  QuietStep
  <1>1. runs' = runs
    BY DEF CallStep, RefuseBinding, Verify, CheckAdded, ReadBack, Recover, Record, Finish,
           Bind, CloseOut, CloseOutFailure, Retire, Crash, Begin, Mismatch, history
  <1>2. \A p \in Preflights : auth'[p] \in Unclaimed => auth[p] \in Unclaimed
    <2>1. CASE Finish(r)
      <3>1. call[r].pre \in Preflights /\ call[r].verdict \in Over
        BY <2>1, Parts DEF Finish, Go, CallsFit, Over
      <3> QED
        BY <2>1, <3>1, FinishedIsClaimed DEF Finish
    <2>2. CASE Retire(r)
      <3>1. call[r].pre \in Preflights /\ "invalidated" \in Over
        BY <2>2, Parts DEF Retire, CallsFit, Over
      <3> QED
        BY <2>2, <3>1, FinishedIsClaimed DEF Retire
    <2>3. CASE ~Finish(r) /\ ~Retire(r)
      <3>1. auth' = auth
        BY <2>3 DEF CallStep, RefuseBinding, Verify, CheckAdded, ReadBack, Recover, Record,
                    Bind, CloseOut, CloseOutFailure, Crash, Begin, Mismatch, store
      <3> QED
        BY <3>1
    <2> QED
      BY <2>1, <2>2, <2>3
  <1>3. \A s \in Runtimes, p \in Preflights : Holds(s, p)' => Holds(s, p)
    <2>1. CASE call' = [call EXCEPT ![r] = Idle]
      BY <2>1, IdleIsCall, MovedIsNoHolder
    <2>2. CASE \E from \in Steps, to \in {"verified", "rejected", "finished", "bound"} :
                  Go(r, from, to)
      BY <2>2, GoIsNoHolder DEF Steps
    <2>3. CASE \E from \in Steps, v \in Verdicts, b \in BOOLEAN : Decide(r, from, v, b)
      BY <2>3, DecideIsNoHolder
    <2>4. CASE CheckAdded(r) /\ Go(r, "added", "checked")
      <3>1. /\ call'[r].pre = call[r].pre /\ call[r].step = "added"
            /\ \A s \in Runtimes \ {r} : call'[s] = call[s]
        BY <2>4, GoType DEF Steps, Go
      <3> QED
        BY <3>1 DEF Holds
    <2>5. CASE Record(r)
      <3>1. /\ call'[r].step = "recorded"
            /\ \A s \in Runtimes \ {r} : call'[s] = call[s]
        BY <2>5, Parts DEF Record, CallRecords
      <3> QED
        BY <3>1 DEF Holds
    <2>6. CASE \E p \in Preflights : Begin(r, p) \/ Mismatch(r, p)
      <3>1. PICK c \in CallRecords :
               /\ call' = [call EXCEPT ![r] = c]
               /\ c.step \in {"begun", "recovering", "recorded", "rejected"}
        BY <2>6, BegunCall
      <3> QED
        BY <3>1, MovedIsNoHolder
    <2>7. CASE Recover(r)
      <3>1. call[r].pre \in Preflights /\ auth[call[r].pre] # "none"
        BY <2>7, Parts DEF Recover, CallsFit
      <3>2. Recovered(call[r].pre) \in Verdicts
        BY <3>1, RecoveredIsVerdict
      <3> QED
        BY <2>7, <3>2, DecideIsNoHolder DEF Recover
    <2>8. CASE ReadBack(r) \/ (CheckAdded(r) /\ ~Go(r, "added", "checked"))
      <3>1. \E from \in Steps, v \in Verdicts, b \in BOOLEAN : Decide(r, from, v, b)
        BY <2>8 DEF ReadBack, CheckAdded, Verdicts, Steps
      <3> QED
        BY <2>3, <3>1
    <2>9. CASE RefuseBinding(r) \/ Crash(r) \/ CloseOut(r) \/ Retire(r)
      BY <2>1, <2>9 DEF RefuseBinding, Crash, CloseOut, Retire
    <2>10. CASE Verify(r) \/ Finish(r) \/ Bind(r)
      BY <2>2, <2>10 DEF Verify, Finish, Bind, Steps
    <2>11. CASE CloseOutFailure(r)
      BY <2>1, <2>2, <2>11 DEF CloseOutFailure, Steps
    <2> QED
      BY <2>4, <2>5, <2>6, <2>7, <2>8, <2>9, <2>10, <2>11 DEF CallStep
  <1> QED
    BY <1>1, <1>2, <1>3 DEF QuietStep

LEMMA OnceStep ==
    ASSUME TypeInv, OnceInv, [Next]_vars
    PROVE  OnceInv'
  <1>1. CASE UNCHANGED vars
    <2>1. runs' = runs /\ call' = call /\ auth' = auth
      BY <1>1 DEF vars, history, store
    <2> QED
      BY <2>1, QuietOnce DEF QuietStep, Holds
  <1>2. CASE \E p \in Preflights, op \in Operations : Preflight(p, op)
    <2>1. PICK p \in Preflights, op \in Operations : Preflight(p, op)
      BY <1>2
    <2>2. /\ runs' = runs /\ call' = call
          /\ auth[p] = "none" /\ auth' = [auth EXCEPT ![p] = "ready"]
      BY <2>1 DEF Preflight, history
    <2>3. \A q \in Preflights : auth'[q] \in Unclaimed => auth[q] \in Unclaimed
      BY <2>2, Parts DEF Unclaimed
    <2> QED
      BY <2>2, <2>3, QuietOnce DEF QuietStep, Holds
  <1>3. CASE \E r \in Runtimes : CallStep(r)
    BY <1>3, ClaimOnce, RunGitOnce, OtherStepIsQuiet, QuietOnce
  <1>4. CASE PersonStep
    <2>1. runs' = runs /\ call' = call /\ auth' = auth
      BY <1>4 DEF PersonStep, PersonAdds, Edit, PersonCommits, PersonPushes, Person,
                  history, store
    <2> QED
      BY <2>1, QuietOnce DEF QuietStep, Holds
  <1> QED
    BY <1>1, <1>2, <1>3, <1>4 DEF Next

\* The command of a preflight is run at most once, for any number of runtimes
\* that repeat, recover and crash: claim_git_preflight_authority lets one of
\* them through, and recovery runs nothing.
THEOREM CommandsRunOnce == Spec => []RunAtMostOnce
  <1>1. Init => OnceInv
    BY DEF Init, OnceInv, RunAtMostOnce, ClaimedOnce, Holds, Idle
  <1>2. TypeInv /\ OnceInv /\ [Next]_vars => OnceInv'
    BY OnceStep
  <1>3. OnceInv => RunAtMostOnce
    BY DEF OnceInv
  <1> QED
    BY <1>1, <1>2, <1>3, InitType, TypeStep, PTL DEF Spec

-----------------------------------------------------------------------------
(* An authority is settled once.                                           *)

LEMMA SettledStep ==
    ASSUME TypeInv, [Next]_vars, NEW p \in Preflights, auth[p] \in Over
    PROVE  auth'[p] = auth[p]
  <1> USE DEF Over, Verdicts
  <1>1. CASE auth' = auth
    BY <1>1
  <1>2. CASE \E q \in Preflights, op \in Operations : Preflight(q, op)
    <2>1. PICK q \in Preflights : auth[q] = "none" /\ auth' = [auth EXCEPT ![q] = "ready"]
      BY <1>2 DEF Preflight
    <2> QED
      BY <2>1, Parts
  <1>3. CASE \E r \in Runtimes : Claim(r)
    <2>1. PICK r \in Runtimes : Claim(r)
      BY <1>3
    <2>2. \/ auth' = auth
          \/ /\ auth[call[r].pre] = "ready"
             /\ \E s \in {"executing", "expired"} : auth' = [auth EXCEPT ![call[r].pre] = s]
      BY <2>1 DEF Claim, Claimable
    <2> QED
      BY <2>2, Parts
  <1>4. CASE \E r \in Runtimes : Finish(r) \/ Retire(r)
    <2>1. \E q, s : auth' = Finished(q, s)
      BY <1>4 DEF Finish, Retire
    <2> QED
      BY <2>1, Parts DEF Finished
  <1>5. CASE \E r \in Runtimes : CallStep(r) /\ ~Claim(r) /\ ~Finish(r) /\ ~Retire(r)
    <2>1. auth' = auth
      BY <1>5 DEF CallStep, RefuseBinding, Verify, RunGit, CheckAdded, ReadBack, Recover,
                  Record, Bind, CloseOut, CloseOutFailure, Crash, Begin, Mismatch, store
    <2> QED
      BY <2>1
  <1>6. CASE PersonStep \/ UNCHANGED vars
    <2>1. auth' = auth
      BY <1>6 DEF PersonStep, PersonAdds, Edit, PersonCommits, PersonPushes, Person,
                  vars, store
    <2> QED
      BY <2>1
  <1> QED
    BY <1>2, <1>3, <1>4, <1>5, <1>6 DEF Next

\* Whatever order a call, a recovery and an invalidation end in, the first of
\* them settles the authority (finish_git_preflight_authority).
THEOREM AuthorityIsSettledOnce == Spec => SettledOnce
  <1>1. TypeInv /\ [Next]_vars
          => [\A p \in Preflights : auth[p] \in Over => auth'[p] = auth[p]]_vars
    BY SettledStep
  <1> QED
    BY <1>1, InitType, TypeStep, PTL DEF Spec, SettledOnce

-----------------------------------------------------------------------------
(* What others have staged stays.                                          *)

\* The candidate paths of a preflight are the task's.
PathsInScope == \A p \in Preflights : plan[p] # None => plan[p].paths \subseteq Scope

LEMMA PathsInScopeStep ==
    ASSUME TypeInv, PathsInScope, [Next]_vars
    PROVE  PathsInScope'
  <1>1. CASE \E p \in Preflights, op \in Operations : Preflight(p, op)
    <2>1. PICK p \in Preflights, op \in Operations : Preflight(p, op)
      BY <1>1
    <2>2. PICK S \in Candidates(op) :
             plan' = [plan EXCEPT ![p] = [op |-> op, snap |-> Snapshot, paths |-> S,
                                          want |-> Added(S), remote |-> remote]]
      BY <2>1 DEF Preflight
    <2>3. S \subseteq Scope
      BY <2>2 DEF Candidates, Operations, Stages, Commits
    <2>4. plan \in [Preflights -> Plans \cup {None}]
      BY DEF TypeInv, TypeOK
    <2>5. plan'[p].paths = S /\ \A q \in Preflights \ {p} : plan'[q] = plan[q]
      BY <2>2, <2>4
    <2> QED
      BY <2>3, <2>5 DEF PathsInScope
  <1>2. CASE ~\E p \in Preflights, op \in Operations : Preflight(p, op)
    <2>1. plan' = plan
      BY <1>2 DEF Next, vars, CallStep, RefuseBinding, Verify, Claim, RunGit, CheckAdded,
                  ReadBack, Recover, Record, Finish, Bind, CloseOut, CloseOutFailure, Retire,
                  Crash, Begin, Mismatch, PersonStep, PersonAdds, Edit, PersonCommits,
                  PersonPushes, Person, store
    <2> QED
      BY <2>1 DEF PathsInScope
  <1> QED
    BY <1>1, <1>2

LEMMA OthersStep ==
    ASSUME TypeInv, PathsInScope, [Next]_vars, call' # call, NEW q \in Paths \ Scope
    PROVE  index'[q] = index[q]
  <1>1. PICK r \in Runtimes : CallStep(r)
    BY DEF Next, vars, Preflight, PersonStep, PersonAdds, Edit, PersonCommits,
           PersonPushes, Person
  <1> DEFINE p == call[r].pre
  <1>2. ASSUME call[r].step # "idle"
        PROVE  p \in Preflights /\ q \notin plan[p].paths
    <2>1. p \in Preflights /\ auth[p] # "none"
      BY <1>2, Parts DEF CallsFit
    <2>2. plan[p] \in Plans
      BY <2>1, OldHeadIsTree
    <2> QED
      BY <2>1, <2>2, GitAssumption DEF PathsInScope
  <1>3. CASE RunGit(r)
    <2>1. q \notin plan[p].paths
      BY <1>2, <1>3 DEF RunGit
    <2>2. index' = index \/ index' = Added(plan[p].paths)
      BY <1>3 DEF RunGit, Effect, AddEffect, PushEffect, CommitEffect, repo
    <2> QED
      BY <2>1, <2>2 DEF Added
  <1>4. CASE ReadBack(r)
    <2>1. q \notin plan[p].paths
      BY <1>2, <1>4 DEF ReadBack
    <2>2. index' = index \/ index' = Restored(p)
      BY <1>4 DEF ReadBack
    <2> QED
      BY <2>1, <2>2 DEF Restored
  <1>5. CASE ~RunGit(r) /\ ~ReadBack(r)
    BY <1>1, <1>5 DEF CallStep, RefuseBinding, Verify, Claim, CheckAdded, Recover, Record,
           Finish, Bind, CloseOut, CloseOutFailure, Retire, Crash, Begin, Mismatch, repo
  <1> QED
    BY <1>3, <1>4, <1>5

\* No step of a call touches what is staged outside the task's scope: neither
\* git add of the candidate nor the restore after a scoped commit.
THEOREM OthersAreLeftStaged == Spec => OthersStayStaged
  <1>1. Init => PathsInScope
    BY DEF Init, PathsInScope
  <1>2. TypeInv /\ PathsInScope /\ [Next]_vars => PathsInScope'
    BY PathsInScopeStep
  <1>3. TypeInv /\ PathsInScope /\ [Next]_vars
          => [call' # call => \A q \in Paths \ Scope : index'[q] = index[q]]_vars
    BY OthersStep
  <1> QED
    BY <1>1, <1>2, <1>3, InitType, TypeStep, PTL DEF Spec, OthersStayStaged

-----------------------------------------------------------------------------
(* What receipts, authorities and the task say has happened.                *)

\* Of a commit that is said to have been made: it is on the branch, and what it
\* changed against the pinned head is the task's.  Of a push: the remote has it.
SaysDone(p, head) ==
    /\ Op(p) \in Commits =>
          /\ \E k \in (plan[p].snap.head + 1)..HEAD : log[k].subject = Subject(p)
          /\ head \in 1..HEAD
          /\ Differ(log[plan[p].snap.head].tree, log[head].tree) \subseteq Scope
    /\ Op(p) = "push" => remote >= plan[p].snap.head

\* Nothing has been done and nothing can be any more, unless a recovery came
\* while the command was under way.
NothingDone(p) ==
    \/ p \in overtaken
    \/ p \notin applied /\ auth[p] \notin Unclaimed /\ \A r \in Runtimes : ~Holds(r, p)

Receipted(p, i) == i \in DOMAIN receipts[p] /\ receipts[p][i].status = "succeeded"

\* What a call that is past its command knows.
CallKnows(c) ==
    /\ c.step = "recovering" => auth[c.pre] \notin Unclaimed
    /\ c.step = "ran" /\ Op(c.pre) \in Commits =>
          \E k \in (plan[c.pre].snap.head + 1)..HEAD : log[k].subject = Subject(c.pre)
    /\ c.step = "settled" /\ c.verdict = "succeeded" => SaysDone(c.pre, c.at)
    /\ c.step \in {"recorded", "finished"} /\ c.verdict = "succeeded" => Receipted(c.pre, c.rid)
    /\ c.step \in {"settled", "recorded"} /\ c.verdict = "failed" => NothingDone(c.pre)

\* What is kept of a preflight: its plan is of one moment, what was carried out
\* shows in the repository, and receipts and authority say what has happened.
KeptOf(p) ==
    /\ auth[p] # "none" => plan[p].remote <= plan[p].snap.head
    /\ auth[p] = "none" => receipts[p] = <<>>
    /\ p \in applied =>
          /\ auth[p] \notin Unclaimed /\ \A r \in Runtimes : ~Holds(r, p)
          /\ IF Op(p) = "push" THEN remote >= plan[p].snap.head ELSE HEAD > plan[p].snap.head
    /\ \A i \in DOMAIN receipts[p] :
          /\ receipts[p][i].status = "succeeded" => SaysDone(p, receipts[p][i].head)
          /\ receipts[p][i].status = "failed" => NothingDone(p)
    /\ auth[p] = "succeeded" => \E i \in DOMAIN receipts[p] : Receipted(p, i)
    /\ auth[p] = "failed" => NothingDone(p)

TaskKnows ==
    task.commit # None =>
        /\ task.commit[1] \in Preflights /\ Op(task.commit[1]) \in Commits
        /\ Receipted(task.commit[1], task.commit[2])

OutcomeInv ==
    /\ \A r \in Runtimes : CallKnows(call[r])
    /\ \A p \in Preflights : KeptOf(p)
    /\ TaskKnows

\* What the outcomes rest on.
DeliveryInv == TypeInv /\ OnceInv /\ PathsInScope /\ OutcomeInv

\* The branch only grows, and so does what the remote has of it.
LEMMA BranchGrows ==
    ASSUME TypeInv, [Next]_vars
    PROVE  /\ HEAD \in Nat /\ HEAD' \in Nat /\ HEAD <= HEAD'
           /\ \A k \in 1..HEAD : log'[k] = log[k]
           /\ remote \in Nat /\ remote' \in Nat /\ remote <= remote'
  <1>1. TypeInv'
    BY TypeStep
  <1>2. HEAD \in Nat /\ remote \in 1..HEAD /\ log \in Seq(Entries)
    BY Parts
  <1>3. remote' \in 1..HEAD' /\ HEAD' \in 1..MaxLog
    BY <1>1 DEF TypeInv, TypeOK
  <1>4. HEAD' \in Nat /\ remote \in Nat /\ remote' \in Nat
    BY <1>2, <1>3, GitAssumption
  <1>5. \/ log' = log /\ (remote' = remote \/ remote' = HEAD)
        \/ (\E e \in Entries : log' = Append(log, e)) /\ remote' = remote
    <2>1. CASE \E r \in Runtimes : RunGit(r)
      <3>1. PICK r \in Runtimes : RunGit(r)
        BY <2>1
      <3> DEFINE p == call[r].pre
                 e == [tree |-> CommittedTree(p), subject |-> Subject(p)]
      <3>2. p \in Preflights /\ auth[p] # "none"
        BY <3>1, Parts DEF RunGit, CallsFit
      <3>3. e \in Entries
        BY <3>2, CommittedIsTree DEF Entries, Subject
      <3>4. \/ log' = log /\ (remote' = remote \/ remote' = HEAD)
            \/ log' = Append(log, e) /\ remote' = remote
        BY <3>1 DEF RunGit, Effect, AddEffect, PushEffect, CommitEffect, repo
      <3> HIDE DEF e
      <3> QED BY <3>3, <3>4
    <2>2. CASE PersonStep
      <3>1. \/ log' = log /\ (remote' = remote \/ remote' = HEAD)
            \/ log' = Append(log, [tree |-> index, subject |-> None]) /\ remote' = remote
        BY <2>2 DEF PersonStep, PersonAdds, Edit, PersonCommits, PersonPushes
      <3>2. [tree |-> index, subject |-> None] \in Entries
        BY Parts DEF Entries
      <3> QED BY <3>1, <3>2
    <2>3. CASE \E r \in Runtimes : CallStep(r) /\ ~RunGit(r)
      BY <2>3 DEF CallStep, RefuseBinding, Verify, Claim, CheckAdded, ReadBack, Recover,
                  Record, Finish, Bind, CloseOut, CloseOutFailure, Retire, Crash, Begin,
                  Mismatch, repo
    <2>4. CASE UNCHANGED vars \/ \E p \in Preflights, op \in Operations : Preflight(p, op)
      BY <2>4 DEF vars, Preflight, repo
    <2> QED BY <2>1, <2>2, <2>3, <2>4 DEF Next
  <1>6. HEAD <= HEAD' /\ \A k \in 1..HEAD : log'[k] = log[k]
    <2>1. CASE log' = log
      BY <1>2, <2>1 DEF HEAD
    <2>2. CASE \E e \in Entries : log' = Append(log, e)
      <3>1. PICK e \in Entries : log' = Append(log, e)
        BY <2>2
      <3>2. Len(log') = Len(log) + 1 /\ \A k \in 1..Len(log) : log'[k] = log[k]
        BY <1>2, <3>1
      <3> QED BY <1>2, <3>2 DEF HEAD
    <2> QED BY <1>5, <2>1, <2>2
  <1>7. remote <= remote'
    <2> remote <= HEAD
      BY <1>2
    <2> QED BY <1>2, <1>4, <1>5
  <1> QED BY <1>2, <1>4, <1>6, <1>7

\* Plans stand once they are made, receipts are only added, and a preflight that
\* has been overtaken by a recovery stays one.
LEMMA StoreGrows ==
    ASSUME TypeInv, [Next]_vars, NEW p \in Preflights
    PROVE  /\ auth[p] # "none" => plan'[p] = plan[p] /\ auth'[p] # "none"
           /\ \A i \in DOMAIN receipts[p] : i \in DOMAIN receipts'[p] /\ receipts'[p][i] = receipts[p][i]
           /\ p \in overtaken => p \in overtaken'
  <1>1. CASE \E q \in Preflights, op \in Operations : Preflight(q, op)
    <2>1. PICK q \in Preflights, op \in Operations : Preflight(q, op)
      BY <1>1
    <2>2. /\ auth[q] = "none" /\ auth' = [auth EXCEPT ![q] = "ready"]
          /\ receipts' = receipts /\ overtaken' = overtaken
          /\ \E new : plan' = [plan EXCEPT ![q] = new]
      BY <2>1 DEF Preflight, history
    <2>3. plan \in [Preflights -> Plans \cup {None}]
      BY DEF TypeInv, TypeOK
    <2> QED BY <2>2, <2>3, Parts
  <1>2. CASE PersonStep \/ UNCHANGED vars
    BY <1>2 DEF PersonStep, PersonAdds, Edit, PersonCommits, PersonPushes, Person, vars, store,
                history
  <1>3. CASE \E r \in Runtimes : CallStep(r)
    <2>1. PICK r \in Runtimes : CallStep(r)
      BY <1>3
    <2>2. plan' = plan /\ (p \in overtaken => p \in overtaken')
      BY <2>1 DEF CallStep, RefuseBinding, Verify, Claim, RunGit, CheckAdded, ReadBack, Recover,
                  Record, Finish, Bind, CloseOut, CloseOutFailure, Retire, Crash, Begin,
                  Mismatch, store, history
    <2>3. auth[p] # "none" => auth'[p] # "none"
      <3>1. CASE \E q \in Preflights, v \in Over : auth' = Finished(q, v)
        BY <3>1, FinishedIsState
      <3>2. CASE Claim(r)
        <4>1. auth' = auth \/ \E v \in {"executing", "expired"} : auth' = [auth EXCEPT ![call[r].pre] = v]
          BY <3>2 DEF Claim
        <4> QED BY <4>1, Parts
      <3>3. CASE Finish(r) \/ Retire(r)
        <4>1. /\ call[r].pre \in Preflights
              /\ Finish(r) => call[r].verdict \in Over
          BY <3>3, Parts DEF Finish, Go, Retire, CallsFit, Over
        <4>2. "invalidated" \in Over
          BY DEF Over
        <4> QED BY <3>1, <3>3, <4>1, <4>2 DEF Finish, Retire
      <3>4. CASE ~Claim(r) /\ ~Finish(r) /\ ~Retire(r)
        BY <2>1, <3>4 DEF CallStep, RefuseBinding, Verify, RunGit, CheckAdded, ReadBack, Recover,
                  Record, Bind, CloseOut, CloseOutFailure, Crash, Begin, Mismatch, store
      <3> QED BY <3>2, <3>3, <3>4
    <2>4. \A i \in DOMAIN receipts[p] : i \in DOMAIN receipts'[p] /\ receipts'[p][i] = receipts[p][i]
      <3>1. CASE Record(r)
        <4> DEFINE e == [status |-> call[r].verdict, head |-> call[r].at]
        <4>1. receipts' = [receipts EXCEPT ![call[r].pre] = Append(@, e)]
          BY <3>1 DEF Record
        <4>2. receipts'[p] \in {receipts[p], Append(receipts[p], e)} /\ receipts[p] \in Seq(Receipts)
          BY <4>1, Parts
        <4> HIDE DEF e
        <4>3. \A i \in DOMAIN receipts[p] :
                  i \in DOMAIN Append(receipts[p], e) /\ Append(receipts[p], e)[i] = receipts[p][i]
          BY <4>2
        <4> QED BY <4>2, <4>3
      <3>2. CASE ~Record(r)
        BY <2>1, <3>2 DEF CallStep, RefuseBinding, Verify, Claim, RunGit, CheckAdded, ReadBack,
                  Recover, Finish, Bind, CloseOut, CloseOutFailure, Retire, Crash, Begin,
                  Mismatch, store
      <3> QED BY <3>1, <3>2
    <2> QED BY <2>2, <2>3, <2>4
  <1> QED BY <1>1, <1>2, <1>3 DEF Next

\* The plan of a preflight that is in use: its head is one the log still has.
LEMMA PlanOf ==
    ASSUME TypeInv, NEW p \in Preflights, auth[p] # "none"
    PROVE  /\ plan[p] \in Plans /\ plan[p].snap.head \in Nat /\ plan[p].snap.head \in 1..HEAD
           /\ plan[p].remote \in Nat /\ plan[p].paths \subseteq Paths
  <1>1. plan[p] \in Plans /\ plan[p].snap.head \in 1..HEAD
    BY OldHeadIsTree
  <1>2. plan[p].snap \in Snapshots /\ plan[p].remote \in 1..MaxLog
    BY <1>1 DEF Plans
  <1>3. plan[p].snap.head \in Nat /\ plan[p].remote \in Nat
    BY <1>2, GitAssumption DEF Snapshots
  <1> QED BY <1>1, <1>3 DEF Plans

LEMMA SaysDoneStays ==
    ASSUME TypeInv, [Next]_vars, NEW p \in Preflights, auth[p] # "none", NEW h, SaysDone(p, h)
    PROVE  SaysDone(p, h)'
  <1>1. plan'[p] = plan[p] /\ Op(p)' = Op(p) /\ Subject(p)' = Subject(p)
    BY StoreGrows DEF Op, Subject
  <1>2. /\ HEAD \in Nat /\ HEAD' \in Nat /\ HEAD <= HEAD'
        /\ \A k \in 1..HEAD : log'[k] = log[k]
        /\ remote \in Nat /\ remote' \in Nat /\ remote <= remote'
    BY BranchGrows
  <1>3. plan[p].snap.head \in Nat /\ plan[p].snap.head \in 1..HEAD
    BY PlanOf
  <1>4. ASSUME Op(p) \in Commits
        PROVE  /\ \E k \in (plan[p].snap.head + 1)..HEAD' : log'[k].subject = Subject(p)
               /\ h \in 1..HEAD'
               /\ Differ(log'[plan[p].snap.head].tree, log'[h].tree) \subseteq Scope
    <2>1. PICK k \in (plan[p].snap.head + 1)..HEAD : log[k].subject = Subject(p)
      BY <1>4 DEF SaysDone
    <2>2. k \in 1..HEAD /\ k \in (plan[p].snap.head + 1)..HEAD'
      BY <1>2, <1>3
    <2>3. h \in 1..HEAD /\ Differ(log[plan[p].snap.head].tree, log[h].tree) \subseteq Scope
      BY <1>4 DEF SaysDone
    <2>4. h \in 1..HEAD'
      BY <1>2, <2>3
    <2> QED BY <1>2, <1>3, <2>1, <2>2, <2>3, <2>4
  <1>5. Op(p) = "push" => remote' >= plan[p].snap.head
    BY <1>2, <1>3 DEF SaysDone
  <1> QED BY <1>1, <1>4, <1>5 DEF SaysDone

LEMMA ReceiptedStays ==
    ASSUME TypeInv, [Next]_vars, NEW p \in Preflights, NEW i, Receipted(p, i)
    PROVE  Receipted(p, i)'
  BY StoreGrows DEF Receipted

\* What is not claimed any more and held by nobody stays so.
LEMMA ReleasedStays ==
    ASSUME TypeInv, OnceInv, [Next]_vars, NEW p \in Preflights,
           auth[p] \notin Unclaimed, \A r \in Runtimes : ~Holds(r, p)
    PROVE  auth'[p] \notin Unclaimed /\ \A r \in Runtimes : ~Holds(r, p)'
  <1>1. CASE QuietStep
    BY <1>1 DEF QuietStep
  <1>2. CASE \E r \in Runtimes : Claim(r) \/ RunGit(r)
    <2>1. PICK r \in Runtimes : Claim(r) \/ RunGit(r)
      BY <1>2
    <2>2. /\ \A s \in Runtimes \ {r} : call'[s] = call[s]
          /\ call'[r].pre = call[r].pre /\ (p = call[r].pre => call'[r].step = "rejected")
          /\ auth'[p] \notin Unclaimed
      <3>1. CASE Claim(r)
        <4>1. PICK to \in {"claimed", "rejected"} : Go(r, "verified", to)
          BY <3>1 DEF Claim
        <4>2. /\ call'[r].step = to /\ call'[r].pre = call[r].pre
              /\ \A s \in Runtimes \ {r} : call'[s] = call[s]
          BY <4>1, GoType DEF Steps
        <4>3. /\ Go(r, "verified", "claimed") => auth[call[r].pre] = "ready"
              /\ \/ auth' = auth
                 \/ /\ auth[call[r].pre] = "ready"
                    /\ \E v \in {"executing", "expired"} : auth' = [auth EXCEPT ![call[r].pre] = v]
          BY <3>1, GoType DEF Claim, Claimable, Go, Steps
        <4>4. p = call[r].pre => to = "rejected"
          BY <4>1, <4>3 DEF Unclaimed
        <4> QED BY <4>2, <4>3, <4>4, Parts DEF Unclaimed
      <3>2. CASE RunGit(r)
        <4>1. Holds(r, call[r].pre) /\ call[r].pre \in Preflights /\ auth' = auth
          BY <3>2, Parts DEF RunGit, Holds, CallsFit, store
        <4>2. p # call[r].pre
          BY <4>1
        <4> DEFINE q == call[r].pre
                   step == call[r].step
                   next == IF Op(q) = "verified_commit" /\ step = "claimed" THEN "added" ELSE "ran"
        <4>3. \/ Go(r, step, next)
              \/ \E v \in Verdicts, b \in {TRUE, FALSE, Decisive(q, step)} : Decide(r, step, v, b)
          BY <3>2 DEF RunGit, Verdicts
        <4>4. next \in Steps
          BY DEF Steps
        <4>5. call'[r].pre = call[r].pre /\ \A s \in Runtimes \ {r} : call'[s] = call[s]
          <5> HIDE DEF next
          <5> QED BY <4>3, <4>4, GoType, DecideType
        <4> QED BY <4>1, <4>2, <4>5
      <3> QED BY <2>1, <3>1, <3>2
    <2> QED BY <2>2 DEF Holds
  <1>3. CASE \E q \in Preflights, op \in Operations : Preflight(q, op)
    <2>1. PICK q \in Preflights : /\ call' = call /\ auth[q] = "none"
                                  /\ auth' = [auth EXCEPT ![q] = "ready"]
      BY <1>3 DEF Preflight
    <2> QED BY <2>1, Parts DEF Holds, Unclaimed
  <1>4. CASE PersonStep \/ UNCHANGED vars
    <2>1. call' = call /\ auth' = auth
      BY <1>4 DEF PersonStep, PersonAdds, Edit, PersonCommits, PersonPushes, Person, vars, store
    <2> QED BY <2>1 DEF Holds
  <1> QED BY <1>1, <1>2, <1>3, <1>4, OtherStepIsQuiet DEF Next

\* Only the holder of a preflight carries it out.
LEMMA AppliedBy ==
    ASSUME TypeInv, [Next]_vars, NEW p \in Preflights, p \in applied', p \notin applied
    PROVE  \E r \in Runtimes : Holds(r, p) /\ RunGit(r) /\ Decisive(p, call[r].step)
                               /\ Effect(p, call[r].step) /\ applied' = applied \cup {p}
  <1>1. PICK r \in Runtimes : RunGit(r)
    BY DEF Next, vars, history, CallStep, RefuseBinding, Verify, Claim, CheckAdded, ReadBack,
           Recover, Record, Finish, Bind, CloseOut, CloseOutFailure, Retire, Crash, Begin, Mismatch,
           Preflight, PersonStep, PersonAdds, Edit, PersonCommits, PersonPushes, Person
  <1>2. Effect(call[r].pre, call[r].step)
    BY <1>1 DEF RunGit
  <1>3. Decisive(call[r].pre, call[r].step) /\ applied' = applied \cup {call[r].pre}
    BY <1>2 DEF Effect
  <1>4. call[r].pre = p
    BY <1>3
  <1> QED BY <1>1, <1>2, <1>3, <1>4 DEF RunGit, Holds

LEMMA NothingDoneStays ==
    ASSUME TypeInv, OnceInv, [Next]_vars, NEW p \in Preflights, NothingDone(p)
    PROVE  NothingDone(p)'
  <1>1. CASE p \in overtaken
    BY <1>1, StoreGrows DEF NothingDone
  <1>2. CASE p \notin overtaken
    <2>1. p \notin applied /\ auth[p] \notin Unclaimed /\ \A r \in Runtimes : ~Holds(r, p)
      BY <1>2 DEF NothingDone
    <2>2. auth'[p] \notin Unclaimed /\ \A r \in Runtimes : ~Holds(r, p)'
      BY <2>1, ReleasedStays
    <2>3. p \notin applied'
      BY <2>1, AppliedBy
    <2> QED BY <2>2, <2>3 DEF NothingDone
  <1> QED BY <1>1, <1>2

\* An authority that has been claimed is not claimable again.
LEMMA ClaimedStays ==
    ASSUME TypeInv, [Next]_vars, NEW p \in Preflights, auth[p] \notin Unclaimed
    PROVE  auth'[p] \notin Unclaimed
  <1>1. CASE QuietStep
    BY <1>1 DEF QuietStep
  <1>2. CASE \E r \in Runtimes : Claim(r)
    <2>1. PICK r \in Runtimes : \/ auth' = auth
                                \/ \E v \in {"executing", "expired"} : auth' = [auth EXCEPT ![call[r].pre] = v]
      BY <1>2 DEF Claim
    <2> QED BY <2>1, Parts DEF Unclaimed
  <1>3. CASE \E q \in Preflights, op \in Operations : Preflight(q, op)
    <2>1. PICK q \in Preflights : auth[q] = "none" /\ auth' = [auth EXCEPT ![q] = "ready"]
      BY <1>3 DEF Preflight
    <2> QED BY <2>1, Parts DEF Unclaimed
  <1>4. CASE PersonStep \/ UNCHANGED vars \/ \E r \in Runtimes : RunGit(r)
    <2>1. auth' = auth
      BY <1>4 DEF PersonStep, PersonAdds, Edit, PersonCommits, PersonPushes, Person, vars, store,
                  RunGit
    <2> QED BY <2>1
  <1> QED BY <1>1, <1>2, <1>3, <1>4, OtherStepIsQuiet DEF Next

\* What a call knows outlasts the steps of others.
LEMMA CallKnowsStays ==
    ASSUME TypeInv, OnceInv, [Next]_vars, NEW c \in CallRecords, CallKnows(c),
           c.step # "idle" => c.pre \in Preflights /\ auth[c.pre] # "none"
    PROVE  CallKnows(c)'
  <1>1. CASE c.step = "idle"
    BY <1>1 DEF CallKnows
  <1>2. CASE c.step # "idle"
    <2>1. PICK p \in Preflights : p = c.pre /\ auth[p] # "none"
      BY <1>2
    <2>2. c.step = "recovering" => auth'[p] \notin Unclaimed
      BY <2>1, ClaimedStays DEF CallKnows
    <2>3. ASSUME c.step = "ran", Op(p)' \in Commits
          PROVE  (\E k \in (plan[p].snap.head + 1)..HEAD : log[k].subject = Subject(p))'
      <3>1. plan'[p] = plan[p] /\ Op(p)' = Op(p) /\ Subject(p)' = Subject(p)
        BY <2>1, StoreGrows DEF Op, Subject
      <3>2. PICK k \in (plan[p].snap.head + 1)..HEAD : log[k].subject = Subject(p)
        BY <2>1, <2>3, <3>1 DEF CallKnows
      <3>3. /\ HEAD \in Nat /\ HEAD' \in Nat /\ HEAD <= HEAD'
            /\ \A j \in 1..HEAD : log'[j] = log[j]
        BY BranchGrows
      <3>4. plan[p].snap.head \in Nat
        BY <2>1, PlanOf
      <3>5. k \in 1..HEAD /\ k \in (plan[p].snap.head + 1)..HEAD'
        BY <3>2, <3>3, <3>4
      <3> QED BY <3>1, <3>2, <3>3, <3>5
    <2>4. c.step = "settled" /\ c.verdict = "succeeded" => SaysDone(p, c.at)'
      BY <2>1, SaysDoneStays DEF CallKnows
    <2>5. c.step \in {"recorded", "finished"} /\ c.verdict = "succeeded" => Receipted(p, c.rid)'
      BY <2>1, ReceiptedStays DEF CallKnows
    <2>6. c.step \in {"settled", "recorded"} /\ c.verdict = "failed" => NothingDone(p)'
      BY <2>1, NothingDoneStays DEF CallKnows
    <2> QED BY <2>1, <2>2, <2>3, <2>4, <2>5, <2>6 DEF CallKnows
  <1> QED BY <1>1, <1>2

-----------------------------------------------------------------------------
(* What the call of a step knows afterwards.                               *)

\* Steps at which a call claims nothing.
Silent == {"idle", "begun", "verified", "claimed", "added", "checked", "bound", "rejected"}

LEMMA SilentKnows ==
    ASSUME NEW c \in CallRecords,
           c.step \in Silent
              \/ (c.step \in {"settled", "recorded", "finished"} /\ c.verdict = "outcome_unknown")
    PROVE  CallKnows(c) /\ CallKnows(c)'
  BY DEF CallKnows, Silent

\* What the calls know after a step of the call of r, which has become c.
LEMMA CallsKnow ==
    ASSUME DeliveryInv, [Next]_vars, NEW r \in Runtimes, NEW c \in CallRecords,
           call'[r] = c, \A s \in Runtimes \ {r} : call'[s] = call[s], CallKnows(c)'
    PROVE  (\A s \in Runtimes : CallKnows(call[s]))'
  <1> SUFFICES ASSUME NEW s \in Runtimes PROVE CallKnows(call[s])'
    OBVIOUS
  <1>1. CASE s = r
    BY <1>1 DEF CallKnows
  <1>2. CASE s # r
    <2>1. PICK h \in CallRecords : h = call[s]
      BY Parts DEF DeliveryInv
    <2>2. CallKnows(h) /\ (h.step # "idle" => h.pre \in Preflights /\ auth[h.pre] # "none")
      BY <2>1, Parts DEF DeliveryInv, OutcomeInv, CallsFit
    <2>3. CallKnows(h)'
      BY <2>2, CallKnowsStays DEF DeliveryInv
    <2> QED BY <1>2, <2>1, <2>3 DEF CallKnows
  <1> QED BY <1>1, <1>2

\* A call that ends, or goes on to a step at which it claims nothing.
LEMMA QuietlyKnows ==
    ASSUME DeliveryInv, [Next]_vars, NEW r \in Runtimes,
           RefuseBinding(r) \/ Verify(r) \/ Claim(r) \/ CheckAdded(r) \/ Bind(r) \/ CloseOut(r)
              \/ CloseOutFailure(r) \/ Retire(r) \/ Crash(r)
    PROVE  (\A s \in Runtimes : CallKnows(call[s]))'
  <1>1. CASE call' = [call EXCEPT ![r] = Idle]
    <2>1. Idle \in CallRecords /\ Idle.step = "idle"
      BY IdleIsCall
    <2>2. call'[r] = Idle /\ \A s \in Runtimes \ {r} : call'[s] = call[s]
      BY <1>1, Parts DEF DeliveryInv
    <2>3. CallKnows(Idle)'
      BY <2>1, SilentKnows DEF Silent
    <2> QED BY <2>1, <2>2, <2>3, CallsKnow
  <1>2. CASE \E from \in Steps, to \in Silent : Go(r, from, to)
    <2>1. PICK from \in Steps, to \in Silent : Go(r, from, to)
      BY <1>2
    <2>2. /\ call' \in [Runtimes -> CallRecords] /\ call'[r].step = to
          /\ \A s \in Runtimes \ {r} : call'[s] = call[s]
      BY <2>1, GoType DEF DeliveryInv, Silent, Steps
    <2>3. PICK c \in CallRecords : c = call'[r]
      BY <2>2
    <2>4. CallKnows(c)'
      BY <2>2, <2>3, SilentKnows
    <2> QED BY <2>2, <2>3, <2>4, CallsKnow
  <1>3. CASE \E b \in BOOLEAN : Decide(r, "added", "outcome_unknown", b)
    <2>1. PICK b \in BOOLEAN : Decide(r, "added", "outcome_unknown", b)
      BY <1>3
    <2>2. /\ call' \in [Runtimes -> CallRecords] /\ call'[r].step \in {"settled", "recorded"}
          /\ call'[r].verdict = "outcome_unknown"
          /\ \A s \in Runtimes \ {r} : call'[s] = call[s]
      BY <2>1, DecideType DEF DeliveryInv, Verdicts
    <2>3. PICK c \in CallRecords : c = call'[r]
      BY <2>2
    <2>4. CallKnows(c)'
      BY <2>2, <2>3, SilentKnows
    <2> QED BY <2>2, <2>3, <2>4, CallsKnow
  <1>4. CASE CheckAdded(r)
    <2>1. Go(r, "added", "checked") \/ Decide(r, "added", "outcome_unknown", FALSE)
      BY <1>4 DEF CheckAdded
    <2> QED BY <1>2, <1>3, <2>1 DEF Steps, Silent
  <1>5. CASE Verify(r) \/ Claim(r) \/ Bind(r)
    <2>1. \E from \in Steps, to \in Silent : Go(r, from, to)
      BY <1>5 DEF Verify, Claim, Bind, Steps, Silent
    <2> QED BY <1>2, <2>1
  <1>6. CASE CloseOutFailure(r)
    <2>1. call' = [call EXCEPT ![r] = Idle] \/ Go(r, "finished", "rejected")
      BY <1>6 DEF CloseOutFailure
    <2> QED BY <1>1, <1>2, <2>1 DEF Steps, Silent
  <1>7. CASE RefuseBinding(r) \/ CloseOut(r) \/ Retire(r) \/ Crash(r)
    BY <1>1, <1>7 DEF RefuseBinding, CloseOut, Retire, Crash
  <1> QED BY <1>4, <1>5, <1>6, <1>7

\* A call that begins anew: to recover what is executing, or with the receipt
\* that is there.
LEMMA BegunKnows ==
    ASSUME DeliveryInv, [Next]_vars, NEW r \in Runtimes, NEW p \in Preflights,
           Begin(r, p) \/ Mismatch(r, p)
    PROVE  (\A s \in Runtimes : CallKnows(call[s]))'
  <1>1. PICK c \in CallRecords :
           /\ call' = [call EXCEPT ![r] = c] /\ c.pre = p
           /\ c.step \in {"begun", "recovering", "recorded", "rejected"}
    BY BegunCall DEF DeliveryInv
  <1>2. call'[r] = c /\ \A s \in Runtimes \ {r} : call'[s] = call[s]
    BY <1>1, Parts DEF DeliveryInv
  <1>3. /\ c.step = "recovering" => auth[p] = "executing"
        /\ c.step = "recorded" =>
              /\ receipts[p] # <<>> /\ c.rid = Len(receipts[p])
              /\ c.verdict = receipts[p][Len(receipts[p])].status
    <2>1. c \in {[Idle EXCEPT !.step = "begun", !.pre = p],
                 [Idle EXCEPT !.step = "recovering", !.pre = p],
                 [Idle EXCEPT !.step = "rejected", !.pre = p],
                 [Idle EXCEPT !.step = "recorded", !.pre = p, !.rid = Len(receipts[p]),
                              !.verdict = receipts[p][Len(receipts[p])].status]}
      BY <1>2, Parts DEF Begin, Mismatch, DeliveryInv
    <2>2. /\ call' = [call EXCEPT ![r] = [Idle EXCEPT !.step = "recovering", !.pre = p]]
                => call'[r].step = "recovering"
          /\ call' = [call EXCEPT ![r] = [Idle EXCEPT !.step = "begun", !.pre = p]]
                => call'[r].step = "begun"
          /\ call' = [call EXCEPT ![r] = [Idle EXCEPT !.step = "rejected", !.pre = p]]
                => call'[r].step = "rejected"
          /\ call' = [call EXCEPT ![r] = [Idle EXCEPT
                         !.step = "recorded", !.pre = p, !.rid = Len(receipts[p]),
                         !.verdict = receipts[p][Len(receipts[p])].status]]
                => /\ call'[r].step = "recorded" /\ call'[r].rid = Len(receipts[p])
                   /\ call'[r].verdict = receipts[p][Len(receipts[p])].status
      BY Parts DEF DeliveryInv, Idle
    <2> QED BY <1>2, <2>2 DEF Begin, Mismatch
  <1>4. CASE c.step \in {"begun", "rejected"}
    <2>1. CallKnows(c)'
      BY <1>4, SilentKnows DEF Silent
    <2> QED BY <1>2, <2>1, CallsKnow
  <1>5. CASE c.step = "recovering"
    <2>1. auth'[p] \notin Unclaimed
      BY <1>3, <1>5, ClaimedStays DEF Unclaimed, DeliveryInv
    <2>2. CallKnows(c)'
      BY <1>1, <1>5, <2>1 DEF CallKnows
    <2> QED BY <1>2, <2>2, CallsKnow
  <1>6. CASE c.step = "recorded"
    <2>1. PICK i \in DOMAIN receipts[p] : i = Len(receipts[p])
      <3>1. receipts[p] \in Seq(Receipts) /\ receipts[p] # <<>>
        BY <1>3, <1>6, Parts DEF DeliveryInv
      <3> QED BY <3>1
    <2>2. c.rid = i /\ c.verdict = receipts[p][i].status
      BY <1>3, <1>6, <2>1
    <2>3. c.verdict = "succeeded" => Receipted(p, i)'
      <3>1. c.verdict = "succeeded" => Receipted(p, i)
        BY <2>2 DEF Receipted
      <3> QED BY <3>1, ReceiptedStays DEF DeliveryInv
    <2>4. c.verdict = "failed" => NothingDone(p)'
      <3>1. c.verdict = "failed" => NothingDone(p)
        BY <2>2 DEF DeliveryInv, OutcomeInv, KeptOf
      <3> QED BY <3>1, NothingDoneStays DEF DeliveryInv
    <2>5. CallKnows(c)'
      BY <1>1, <1>6, <2>2, <2>3, <2>4 DEF CallKnows
    <2> QED BY <1>2, <2>5, CallsKnow
  <1> QED BY <1>1, <1>4, <1>5, <1>6

\* The receipt of a call that records it says what the call knows.
LEMMA RecordKnows ==
    ASSUME DeliveryInv, [Next]_vars, NEW r \in Runtimes, Record(r) \/ Finish(r)
    PROVE  (\A s \in Runtimes : CallKnows(call[s]))'
  <1>1. PICK p \in Preflights : p = call[r].pre
    BY Parts DEF DeliveryInv, CallsFit, Record, Finish, Go
  <1>2. call \in [Runtimes -> CallRecords] /\ CallKnows(call[r])
    BY Parts DEF DeliveryInv, OutcomeInv
  <1>3. call' \in [Runtimes -> CallRecords]
    BY TypeStep DEF DeliveryInv, TypeInv, TypeOK, CallRecords
  <1>4. PICK c \in CallRecords : c = call'[r]
    BY <1>3
  <1>5. CASE Record(r)
    <2>1. receipts[p] \in Seq(Receipts) /\ Len(receipts[p]) \in Nat
      BY Parts DEF DeliveryInv
    <2>2. PICK i \in Nat : i = Len(receipts[p]) + 1
      BY <2>1
    <2>3. PICK e : e = [status |-> call[r].verdict, head |-> call[r].at]
      OBVIOUS
    <2>4. receipts' = [receipts EXCEPT ![p] = Append(@, e)]
      BY <1>1, <1>5, <2>3 DEF Record
    <2>5. i \in DOMAIN receipts'[p] /\ receipts'[p][i] = e
      <3>1. receipts'[p] = Append(receipts[p], e)
        BY <2>4, Parts DEF DeliveryInv
      <3> QED BY <2>1, <2>2, <3>1
    <2>6. /\ c.step = "recorded" /\ c.pre = p /\ c.verdict = call[r].verdict /\ c.rid = i
          /\ \A s \in Runtimes \ {r} : call'[s] = call[s]
      BY <1>1, <1>2, <1>4, <1>5, <2>2 DEF Record, CallRecords
    <2>7. c.verdict = "succeeded" => Receipted(p, i)'
      BY <2>3, <2>5, <2>6 DEF Receipted
    <2>8. c.verdict = "failed" => NothingDone(p)'
      <3>1. c.verdict = "failed" => NothingDone(p)
        BY <1>1, <1>2, <1>5, <2>6 DEF CallKnows, Record
      <3> QED BY <3>1, NothingDoneStays DEF DeliveryInv
    <2>9. CallKnows(c)'
      BY <2>6, <2>7, <2>8 DEF CallKnows
    <2> QED BY <1>4, <2>6, <2>9, CallsKnow
  <1>6. CASE Finish(r)
    <2>1. /\ c.step = "finished" /\ c.pre = p /\ c.verdict = call[r].verdict /\ c.rid = call[r].rid
          /\ call[r].step = "recorded"
          /\ \A s \in Runtimes \ {r} : call'[s] = call[s]
      BY <1>1, <1>2, <1>4, <1>6 DEF Finish, Go, CallRecords
    <2>2. PICK i : i = call[r].rid
      OBVIOUS
    <2>3. c.verdict = "succeeded" => Receipted(p, i)
      BY <1>1, <1>2, <2>1, <2>2 DEF CallKnows
    <2>4. c.verdict = "succeeded" => Receipted(p, i)'
      BY <2>3, ReceiptedStays DEF DeliveryInv
    <2>5. CallKnows(c)'
      BY <2>1, <2>2, <2>4 DEF CallKnows
    <2> QED BY <1>4, <2>1, <2>5, CallsKnow
  <1> QED BY <1>5, <1>6

\* The ways a Git command of a claimed call ends.
LEMMA CommandEnds ==
    ASSUME TypeInv, NEW r \in Runtimes, RunGit(r), NEW p \in Preflights, p = call[r].pre
    PROVE  \/ Go(r, call[r].step, "added")
           \/ /\ Go(r, call[r].step, "ran") /\ Effect(p, call[r].step)
              /\ Op(p) \in Commits => Decisive(p, call[r].step)
           \/ \E b \in BOOLEAN : Decide(r, call[r].step, "outcome_unknown", b)
           \/ applied' = applied /\ \E b \in BOOLEAN : Decide(r, call[r].step, "failed", b)
  <1>1. Decisive(p, call[r].step) \in BOOLEAN
    BY DEF Decisive
  <1>2. call[r].step \in {"claimed", "checked"}
    BY DEF RunGit
  <1>3. CASE /\ Effect(p, call[r].step)
             /\ Go(r, call[r].step, IF Op(p) = "verified_commit" /\ call[r].step = "claimed"
                                    THEN "added" ELSE "ran")
    <2>1. CASE Op(p) = "verified_commit" /\ call[r].step = "claimed"
      BY <1>3, <2>1
    <2>2. CASE ~(Op(p) = "verified_commit" /\ call[r].step = "claimed")
      BY <1>2, <1>3, <2>2 DEF Decisive, Commits
    <2> QED BY <2>1, <2>2
  <1>4. CASE /\ UNCHANGED <<repo, applied>>
             /\ Decide(r, call[r].step,
                       IF Decisive(p, call[r].step) THEN "failed" ELSE "outcome_unknown",
                       Decisive(p, call[r].step))
    BY <1>1, <1>4
  <1>5. CASE Decide(r, call[r].step, "outcome_unknown", Decisive(p, call[r].step))
    BY <1>1, <1>5
  <1>6. CASE UNCHANGED <<repo, applied>> /\ Decide(r, call[r].step, "failed", FALSE)
    BY <1>6
  <1> QED BY <1>3, <1>4, <1>5, <1>6 DEF RunGit

\* A commit puts its subject on the branch, after the pinned head.
LEMMA CommitShows ==
    ASSUME TypeInv, NEW p \in Preflights, auth[p] # "none", CommitEffect(p)
    PROVE  /\ HEAD' = HEAD + 1 /\ HEAD' > plan[p].snap.head
           /\ HEAD' \in (plan[p].snap.head + 1)..HEAD'
           /\ log'[HEAD'].subject = Subject(p)
  <1>1. PICK e : e = [tree |-> CommittedTree(p), subject |-> Subject(p)]
    OBVIOUS
  <1>2. e \in Entries /\ e.subject = Subject(p)
    BY <1>1, CommittedIsTree DEF Entries, Subject
  <1>3. log \in Seq(Entries) /\ log' = Append(log, e)
    BY <1>1, Parts DEF CommitEffect
  <1>4. HEAD' = HEAD + 1 /\ log'[HEAD + 1] = e
    BY <1>2, <1>3 DEF HEAD
  <1>5. HEAD \in Nat /\ plan[p].snap.head \in 1..HEAD /\ plan[p].snap.head \in Nat
    BY Parts, PlanOf
  <1> QED BY <1>2, <1>4, <1>5

LEMMA RunGitKnows ==
    ASSUME DeliveryInv, [Next]_vars, NEW r \in Runtimes, RunGit(r)
    PROVE  (\A s \in Runtimes : CallKnows(call[s]))'
  <1>1. PICK p \in Preflights : p = call[r].pre /\ auth[p] # "none"
    BY Parts DEF DeliveryInv, CallsFit, RunGit
  <1>2. call' \in [Runtimes -> CallRecords]
    BY TypeStep DEF DeliveryInv, TypeInv, TypeOK, CallRecords
  <1>3. PICK c \in CallRecords : c = call'[r]
    BY <1>2
  <1>4. CASE Go(r, call[r].step, "added")
    <2>1. c.step = "added" /\ \A s \in Runtimes \ {r} : call'[s] = call[s]
      BY <1>3, <1>4, GoType DEF DeliveryInv, Steps
    <2>2. CallKnows(c)'
      BY <2>1, SilentKnows DEF Silent
    <2> QED BY <1>3, <2>1, <2>2, CallsKnow
  <1>5. CASE /\ Go(r, call[r].step, "ran") /\ Effect(p, call[r].step)
             /\ Op(p) \in Commits => Decisive(p, call[r].step)
    <2>1. c.step = "ran" /\ c.pre = p /\ \A s \in Runtimes \ {r} : call'[s] = call[s]
      BY <1>1, <1>3, <1>5, GoType DEF DeliveryInv, Steps
    <2>2. plan' = plan /\ Op(p)' = Op(p) /\ Subject(p)' = Subject(p)
      BY DEF RunGit, store, Op, Subject
    <2>3. ASSUME Op(p) \in Commits
          PROVE  \E k \in (plan[p].snap.head + 1)..HEAD' : log'[k].subject = Subject(p)
      <3>1. CommitEffect(p)
        BY <1>5, <2>3 DEF Effect, Commits
      <3> QED BY <1>1, <3>1, CommitShows DEF DeliveryInv
    <2>4. CallKnows(c)'
      BY <2>1, <2>2, <2>3 DEF CallKnows
    <2> QED BY <1>3, <2>1, <2>4, CallsKnow
  <1>6. CASE \E b \in BOOLEAN : Decide(r, call[r].step, "outcome_unknown", b)
    <2>1. PICK b \in BOOLEAN : Decide(r, call[r].step, "outcome_unknown", b)
      BY <1>6
    <2>2. /\ c.step \in {"settled", "recorded"} /\ c.verdict = "outcome_unknown"
          /\ \A s \in Runtimes \ {r} : call'[s] = call[s]
      BY <1>3, <2>1, DecideType DEF DeliveryInv, Verdicts
    <2>3. CallKnows(c)'
      BY <2>2, SilentKnows
    <2> QED BY <1>3, <2>2, <2>3, CallsKnow
  <1>7. CASE applied' = applied /\ \E b \in BOOLEAN : Decide(r, call[r].step, "failed", b)
    <2>1. PICK b \in BOOLEAN : Decide(r, call[r].step, "failed", b)
      BY <1>7
    <2>2. /\ c.step \in {"settled", "recorded"} /\ c.verdict = "failed" /\ c.pre = p
          /\ \A s \in Runtimes \ {r} : call'[s] = call[s]
      BY <1>1, <1>3, <2>1, DecideType DEF DeliveryInv, Verdicts
    <2>3. Holds(r, p)
      BY <1>1 DEF RunGit, Holds
    <2>4. /\ auth[p] \notin Unclaimed /\ p \notin applied
          /\ \A s \in Runtimes \ {r} : ~Holds(s, p)
      BY <2>3 DEF DeliveryInv, OnceInv, ClaimedOnce, OutcomeInv, KeptOf
    <2>5. auth' = auth
      BY DEF RunGit, store
    <2>6. NothingDone(p)'
      BY <1>3, <1>7, <2>2, <2>4, <2>5 DEF NothingDone, Holds
    <2>7. CallKnows(c)'
      BY <2>2, <2>6 DEF CallKnows
    <2> QED BY <1>3, <2>2, <2>7, CallsKnow
  <1> QED BY <1>1, <1>4, <1>5, <1>6, <1>7, CommandEnds DEF DeliveryInv

\* What a commit has changed is the task's when it is what was to be changed.
LEMMA AsPinnedIsDone ==
    ASSUME DeliveryInv, NEW p \in Preflights, auth[p] # "none",
           Op(p) \in Commits =>
              /\ ChangedSince(p) = plan[p].paths
              /\ \E k \in (plan[p].snap.head + 1)..HEAD : log[k].subject = Subject(p),
           Op(p) = "push" => remote = plan[p].snap.head
    PROVE  SaysDone(p, HEAD)
  <1>1. HEAD \in 1..HEAD /\ plan[p].snap.head \in Nat /\ plan[p] # None
    BY Parts, PlanOf, GitAssumption DEF DeliveryInv
  <1>2. ChangedSince(p) = Differ(log[plan[p].snap.head].tree, log[HEAD].tree)
    BY DEF ChangedSince, HeadTree
  <1>3. plan[p].paths \subseteq Scope
    BY <1>1 DEF DeliveryInv, PathsInScope
  <1>4. Op(p) = "push" => remote >= plan[p].snap.head
    BY <1>1
  <1> QED BY <1>1, <1>2, <1>3, <1>4 DEF SaysDone

\* A success that is read back is one.
LEMMA ReadBackKnows ==
    ASSUME DeliveryInv, [Next]_vars, NEW r \in Runtimes, ReadBack(r)
    PROVE  (\A s \in Runtimes : CallKnows(call[s]))'
  <1>1. PICK p \in Preflights : p = call[r].pre /\ auth[p] # "none"
    BY Parts DEF DeliveryInv, CallsFit, ReadBack
  <1>2. call' \in [Runtimes -> CallRecords] /\ call \in [Runtimes -> CallRecords]
    BY TypeStep, Parts DEF DeliveryInv, TypeInv, TypeOK, CallRecords
  <1>3. PICK c \in CallRecords : c = call'[r]
    BY <1>2
  <1>4. CASE \E b \in BOOLEAN : Decide(r, "ran", "outcome_unknown", b)
    <2>1. PICK b \in BOOLEAN : Decide(r, "ran", "outcome_unknown", b)
      BY <1>4
    <2>2. /\ c.step \in {"settled", "recorded"} /\ c.verdict = "outcome_unknown"
          /\ \A s \in Runtimes \ {r} : call'[s] = call[s]
      BY <1>3, <2>1, DecideType DEF DeliveryInv, Verdicts
    <2>3. CallKnows(c)'
      BY <2>2, SilentKnows
    <2> QED BY <1>3, <2>2, <2>3, CallsKnow
  <1>5. CASE Confirmed(p) /\ Decide(r, "ran", "succeeded", TRUE)
    <2>1. PICK h : h = HEAD
      OBVIOUS
    <2>2. /\ c.step = "settled" /\ c.verdict = "succeeded" /\ c.pre = p /\ c.at = h
          /\ \A s \in Runtimes \ {r} : call'[s] = call[s]
      BY <1>1, <1>2, <1>3, <1>5, <2>1 DEF Decide, CallRecords
    <2>3. call[r].step = "ran" /\ CallKnows(call[r])
      BY DEF ReadBack, DeliveryInv, OutcomeInv
    <2>4. Op(p) \in Commits => \E k \in (plan[p].snap.head + 1)..HEAD : log[k].subject = Subject(p)
      BY <1>1, <2>3 DEF CallKnows
    <2>5. /\ Op(p) \in Commits => ChangedSince(p) = plan[p].paths
          /\ Op(p) = "push" => remote = plan[p].snap.head
      BY <1>5 DEF Confirmed, VerifiedAsWanted, ReadsAsCommitted, Commits, Stages
    <2>6. SaysDone(p, h)
      BY <1>1, <2>1, <2>4, <2>5, AsPinnedIsDone
    <2>7. SaysDone(p, h)'
      BY <1>1, <2>6, SaysDoneStays DEF DeliveryInv
    <2>8. CallKnows(c)'
      BY <2>2, <2>7 DEF CallKnows
    <2> QED BY <1>3, <2>2, <2>8, CallsKnow
  <1>6. (Op(p) \notin Stages) \in BOOLEAN
    OBVIOUS
  <1> QED BY <1>1, <1>4, <1>5, <1>6 DEF ReadBack

\* A recovery's success is seen in the repository, and so is its failure: only a
\* command that is under way can still make it untrue.
LEMMA RecoverKnows ==
    ASSUME DeliveryInv, [Next]_vars, NEW r \in Runtimes, Recover(r)
    PROVE  (\A s \in Runtimes : CallKnows(call[s]))'
  <1>1. PICK p \in Preflights : p = call[r].pre /\ auth[p] # "none"
    BY Parts DEF DeliveryInv, CallsFit, Recover
  <1>2. call' \in [Runtimes -> CallRecords] /\ call \in [Runtimes -> CallRecords]
    BY TypeStep, Parts DEF DeliveryInv, TypeInv, TypeOK, CallRecords
  <1>3. PICK c \in CallRecords : c = call'[r]
    BY <1>2
  <1>4. PICK v \in Verdicts : v = Recovered(p)
    BY <1>1, RecoveredIsVerdict DEF DeliveryInv
  <1>5. Decide(r, "recovering", v, TRUE)
    BY <1>1, <1>4 DEF Recover
  <1>6. PICK h : h = HEAD
    OBVIOUS
  <1>7. /\ c.step = "settled" /\ c.verdict = v /\ c.pre = p
        /\ v = "succeeded" => c.at = h
        /\ \A s \in Runtimes \ {r} : call'[s] = call[s]
    BY <1>1, <1>2, <1>3, <1>5, <1>6 DEF Decide, CallRecords
  <1>8. /\ plan[p].op \in Operations /\ Op(p) = plan[p].op
        /\ plan[p].snap.head \in Nat /\ plan[p].remote \in Nat
        /\ HEAD \in Nat /\ remote \in Nat
    BY <1>1, PlanOf, Parts, BranchGrows DEF DeliveryInv, Plans, Op
  <1>9. CASE v = "succeeded"
    <2>1. /\ Op(p) \in Commits =>
                /\ ChangedSince(p) = plan[p].paths
                /\ HEAD = plan[p].snap.head + 1 /\ log[HEAD].subject = Subject(p)
          /\ Op(p) = "push" => remote = plan[p].snap.head
      BY <1>4, <1>8, <1>9 DEF Recovered, VerifiedAsWanted, ReadsAsCommitted, Commits, Operations,
                              Stages
    <2>2. Op(p) \in Commits => \E k \in (plan[p].snap.head + 1)..HEAD : log[k].subject = Subject(p)
      <3>1. HEAD = plan[p].snap.head + 1 => HEAD \in (plan[p].snap.head + 1)..HEAD
        BY <1>8
      <3> QED BY <2>1, <3>1
    <2>3. SaysDone(p, h)
      BY <1>1, <1>6, <2>1, <2>2, AsPinnedIsDone
    <2>4. SaysDone(p, h)'
      BY <1>1, <2>3, SaysDoneStays DEF DeliveryInv
    <2>5. CallKnows(c)'
      BY <1>7, <1>9, <2>4 DEF CallKnows
    <2> QED BY <1>3, <1>7, <2>5, CallsKnow
  <1>10. CASE v = "outcome_unknown"
    <2>1. CallKnows(c)'
      BY <1>7, <1>10, SilentKnows
    <2> QED BY <1>3, <1>7, <2>1, CallsKnow
  <1>11. CASE v = "failed"
    <2>1. /\ Op(p) = "push" => remote # plan[p].snap.head /\ remote = plan[p].remote
          /\ Op(p) # "push" => Snapshot = plan[p].snap
      BY <1>4, <1>8, <1>11 DEF Recovered, Operations, Stages, Commits
    <2>2. Op(p) # "push" => HEAD = plan[p].snap.head
      BY <2>1 DEF Snapshot
    <2>3. KeptOf(p)
      BY DEF DeliveryInv, OutcomeInv
    <2>4. p \notin applied
      <3>1. /\ plan[p].remote <= plan[p].snap.head
            /\ p \in applied =>
                  IF Op(p) = "push" THEN remote >= plan[p].snap.head ELSE HEAD > plan[p].snap.head
        BY <1>1, <2>3 DEF KeptOf
      <3> QED BY <1>8, <2>1, <2>2, <3>1
    <2>5. auth[p] \notin Unclaimed
      <3>1. call[r].step = "recovering" /\ CallKnows(call[r])
        BY DEF Recover, DeliveryInv, OutcomeInv
      <3> QED BY <1>1, <3>1 DEF CallKnows
    <2>6. auth' = auth /\ applied' = applied
      BY DEF Recover, store
    <2>7. CASE UnderWay(r, p)
      <3>1. p \in overtaken'
        BY <1>1, <2>7 DEF Recover
      <3>2. CallKnows(c)'
        BY <1>7, <1>11, <3>1 DEF CallKnows, NothingDone
      <3> QED BY <1>3, <1>7, <3>2, CallsKnow
    <2>8. CASE ~UnderWay(r, p)
      <3>1. \A s \in Runtimes : ~Holds(s, p)'
        BY <1>3, <1>7, <2>8 DEF UnderWay, Holds
      <3>2. NothingDone(p)'
        BY <2>4, <2>5, <2>6, <3>1 DEF NothingDone
      <3>3. CallKnows(c)'
        BY <1>7, <1>11, <3>2 DEF CallKnows
      <3> QED BY <1>3, <1>7, <3>3, CallsKnow
    <2> QED BY <2>7, <2>8
  <1> QED BY <1>9, <1>10, <1>11 DEF Verdicts

\* Every step leaves every call with what it knows.
LEMMA CallsKnowStep ==
    ASSUME DeliveryInv, [Next]_vars
    PROVE  (\A s \in Runtimes : CallKnows(call[s]))'
  <1>1. CASE \E r \in Runtimes : CallStep(r)
    BY <1>1, QuietlyKnows, BegunKnows, RecordKnows, RunGitKnows, ReadBackKnows, RecoverKnows
       DEF CallStep
  <1>2. CASE ~\E r \in Runtimes : CallStep(r)
    <2>1. call' = call
      BY <1>2 DEF Next, vars, Preflight, PersonStep, PersonAdds, Edit, PersonCommits,
                  PersonPushes, Person
    <2> SUFFICES ASSUME NEW s \in Runtimes PROVE CallKnows(call[s])'
      OBVIOUS
    <2>2. PICK c \in CallRecords : c = call[s]
      BY Parts DEF DeliveryInv
    <2>3. c = call'[s] /\ \A t \in Runtimes \ {s} : call'[t] = call[t]
      BY <2>1, <2>2
    <2>4. CallKnows(c) /\ (c.step # "idle" => c.pre \in Preflights /\ auth[c.pre] # "none")
      BY <2>2, Parts DEF DeliveryInv, OutcomeInv, CallsFit
    <2>5. CallKnows(c)'
      BY <2>4, CallKnowsStays DEF DeliveryInv
    <2> QED BY <2>3, <2>5 DEF CallKnows
  <1> QED BY <1>1, <1>2

-----------------------------------------------------------------------------
(* What is kept of a preflight after a step.                               *)

\* An authority changes when its preflight is made, when it is claimed, or when
\* a call that is about it ends.
LEMMA AuthorityChanges ==
    ASSUME TypeInv, [Next]_vars, NEW p \in Preflights, auth'[p] # auth[p]
    PROVE  \/ \E op \in Operations : Preflight(p, op)
           \/ /\ auth[p] # "none"
              /\ auth'[p] \in {"succeeded", "failed"} =>
                    \E r \in Runtimes : Finish(r) /\ call[r].pre = p /\ call[r].verdict = auth'[p]
  <1>1. CASE \E q \in Preflights, op \in Operations : Preflight(q, op)
    <2>1. PICK q \in Preflights, op \in Operations : Preflight(q, op)
      BY <1>1
    <2>2. auth' = [auth EXCEPT ![q] = "ready"]
      BY <2>1 DEF Preflight
    <2>3. q = p
      BY <2>2, Parts
    <2> QED BY <2>1, <2>3
  <1>2. CASE \E r \in Runtimes : Claim(r)
    <2>1. PICK r \in Runtimes : Claim(r)
      BY <1>2
    <2>2. \/ auth' = auth
          \/ /\ auth[call[r].pre] = "ready"
             /\ \E v \in {"executing", "expired"} : auth' = [auth EXCEPT ![call[r].pre] = v]
      BY <2>1 DEF Claim, Claimable
    <2> QED BY <2>2, Parts
  <1>3. CASE \E r \in Runtimes : Finish(r)
    <2>1. PICK r \in Runtimes : Finish(r)
      BY <1>3
    <2>2. call[r].pre \in Preflights /\ auth' = Finished(call[r].pre, call[r].verdict)
      BY <2>1, Parts DEF Finish, Go, CallsFit
    <2>3. call[r].pre = p /\ auth'[p] = call[r].verdict /\ auth[p] # "none"
      BY <2>2, Parts DEF Finished
    <2> QED BY <2>1, <2>3
  <1>4. CASE \E r \in Runtimes : Retire(r)
    <2>1. PICK r \in Runtimes : auth' = Finished(call[r].pre, "invalidated")
      BY <1>4 DEF Retire
    <2> QED BY <2>1, Parts DEF Finished
  <1>5. CASE \E r \in Runtimes : CallStep(r) /\ ~Claim(r) /\ ~Finish(r) /\ ~Retire(r)
    BY <1>5 DEF CallStep, RefuseBinding, Verify, RunGit, CheckAdded, ReadBack, Recover,
                Record, Bind, CloseOut, CloseOutFailure, Crash, Begin, Mismatch, store
  <1>6. CASE PersonStep \/ UNCHANGED vars
    BY <1>6 DEF PersonStep, PersonAdds, Edit, PersonCommits, PersonPushes, Person, vars, store
  <1> QED BY <1>1, <1>2, <1>3, <1>4, <1>5, <1>6 DEF Next

\* A preflight pins the remote of the moment, which is not ahead of its head.
LEMMA PinnedRemote ==
    ASSUME TypeInv, NEW p \in Preflights, NEW op \in Operations, Preflight(p, op)
    PROVE  plan'[p].remote <= plan'[p].snap.head
  <1>1. PICK S : plan' = [plan EXCEPT ![p] = [op |-> op, snap |-> Snapshot, paths |-> S,
                                            want |-> Added(S), remote |-> remote]]
    BY DEF Preflight
  <1>2. plan \in [Preflights -> Plans \cup {None}]
    BY DEF TypeInv, TypeOK
  <1>3. plan'[p].remote = remote /\ plan'[p].snap.head = HEAD
    BY <1>1, <1>2 DEF Snapshot
  <1>4. HEAD \in Nat /\ remote \in 1..HEAD
    BY Parts
  <1>5. remote <= HEAD
    BY <1>4
  <1> QED BY <1>3, <1>5

LEMMA PinnedStep ==
    ASSUME DeliveryInv, [Next]_vars, NEW p \in Preflights, auth'[p] # "none"
    PROVE  plan'[p].remote <= plan'[p].snap.head
  <1>1. CASE \E op \in Operations : Preflight(p, op)
    BY <1>1, PinnedRemote DEF DeliveryInv
  <1>2. CASE ~\E op \in Operations : Preflight(p, op)
    <2>1. auth[p] # "none"
      BY <1>2, AuthorityChanges DEF DeliveryInv
    <2>2. plan'[p] = plan[p]
      BY <2>1, StoreGrows DEF DeliveryInv
    <2> QED BY <2>1, <2>2 DEF DeliveryInv, OutcomeInv, KeptOf
  <1> QED BY <1>1, <1>2

\* A receipt that was not there is the one a call has just recorded.
LEMMA ReceiptIsRecorded ==
    ASSUME TypeInv, [Next]_vars, NEW p \in Preflights, NEW i \in DOMAIN receipts'[p]
    PROVE  \/ i \in DOMAIN receipts[p] /\ receipts'[p][i] = receipts[p][i]
           \/ \E r \in Runtimes :
                 /\ call[r].step = "settled" /\ call[r].pre = p
                 /\ receipts'[p][i].status = call[r].verdict /\ receipts'[p][i].head = call[r].at
  <1>1. CASE \E r \in Runtimes : Record(r)
    <2>1. PICK r \in Runtimes : Record(r)
      BY <1>1
    <2>2. PICK e : e = [status |-> call[r].verdict, head |-> call[r].at]
      OBVIOUS
    <2>3. /\ receipts' = [receipts EXCEPT ![call[r].pre] = Append(@, e)]
          /\ call[r].step = "settled" /\ e.status = call[r].verdict /\ e.head = call[r].at
      BY <2>1, <2>2 DEF Record
    <2>4. receipts[p] \in Seq(Receipts)
      BY Parts
    <2>5. CASE call[r].pre = p
      <3>1. receipts'[p] = Append(receipts[p], e)
        BY <2>3, <2>5, Parts
      <3>2. \/ i \in DOMAIN receipts[p] /\ receipts'[p][i] = receipts[p][i]
            \/ receipts'[p][i] = e
        BY <2>4, <3>1
      <3> QED BY <2>3, <2>5, <3>2
    <2>6. CASE call[r].pre # p
      BY <2>3, <2>6, Parts
    <2> QED BY <2>5, <2>6
  <1>2. CASE ~\E r \in Runtimes : Record(r)
    <2>1. receipts' = receipts
      BY <1>2 DEF Next, vars, CallStep, RefuseBinding, Verify, Claim, RunGit, CheckAdded, ReadBack,
                  Recover, Finish, Bind, CloseOut, CloseOutFailure, Retire, Crash, Begin, Mismatch,
                  Preflight, PersonStep, PersonAdds, Edit, PersonCommits, PersonPushes, Person,
                  store
    <2> QED BY <2>1
  <1> QED BY <1>1, <1>2

\* What was carried out shows, and nobody is about to carry it out again.
LEMMA AppliedStep ==
    ASSUME DeliveryInv, [Next]_vars, NEW p \in Preflights, p \in applied'
    PROVE  /\ auth'[p] \notin Unclaimed /\ \A r \in Runtimes : ~Holds(r, p)'
           /\ IF Op(p)' = "push" THEN remote' >= plan'[p].snap.head ELSE HEAD' > plan'[p].snap.head
  <1>1. CASE p \in applied
    <2>1. /\ auth[p] \notin Unclaimed /\ \A r \in Runtimes : ~Holds(r, p)
          /\ IF Op(p) = "push" THEN remote >= plan[p].snap.head ELSE HEAD > plan[p].snap.head
      BY <1>1 DEF DeliveryInv, OutcomeInv, KeptOf
    <2>2. auth[p] # "none"
      BY <2>1 DEF Unclaimed
    <2>3. plan'[p] = plan[p] /\ Op(p)' = Op(p) /\ plan[p].snap.head \in Nat
      BY <2>2, StoreGrows, PlanOf DEF DeliveryInv, Op
    <2>4. HEAD \in Nat /\ HEAD' \in Nat /\ HEAD <= HEAD' /\ remote \in Nat /\ remote' \in Nat
            /\ remote <= remote'
      BY BranchGrows DEF DeliveryInv
    <2>5. /\ HEAD > plan[p].snap.head => HEAD' > plan[p].snap.head
          /\ remote >= plan[p].snap.head => remote' >= plan[p].snap.head
      BY <2>3, <2>4
    <2>6. auth'[p] \notin Unclaimed /\ \A r \in Runtimes : ~Holds(r, p)'
      BY <2>1, ReleasedStays DEF DeliveryInv
    <2> QED BY <2>1, <2>3, <2>5, <2>6
  <1>2. CASE p \notin applied
    <2>1. PICK r \in Runtimes : /\ Holds(r, p) /\ RunGit(r) /\ Decisive(p, call[r].step)
                                /\ Effect(p, call[r].step)
      BY <1>2, AppliedBy DEF DeliveryInv
    <2>2. auth[p] \notin Unclaimed /\ \A s \in Runtimes \ {r} : ~Holds(s, p)
      BY <2>1 DEF DeliveryInv, OnceInv, ClaimedOnce
    <2>3. auth[p] # "none" /\ auth' = auth /\ plan' = plan /\ Op(p)' = Op(p) /\ p = call[r].pre
      BY <2>1, <2>2 DEF Unclaimed, RunGit, store, Op, Holds
    <2>4. IF Op(p) = "push" THEN PushEffect ELSE CommitEffect(p)
      BY <2>1 DEF Effect
    <2>5. IF Op(p) = "push" THEN remote' >= plan[p].snap.head ELSE HEAD' > plan[p].snap.head
      <3>1. plan[p].snap.head \in 1..HEAD /\ HEAD \in Nat
        BY <2>3, PlanOf, Parts DEF DeliveryInv
      <3>2. Op(p) = "push" => remote' = HEAD
        BY <2>4 DEF PushEffect
      <3>3. Op(p) # "push" => HEAD' > plan[p].snap.head
        BY <2>3, <2>4, CommitShows DEF DeliveryInv
      <3>4. HEAD >= plan[p].snap.head
        BY <3>1
      <3> QED BY <3>2, <3>3, <3>4
    <2>6. ~(Op(p) = "verified_commit" /\ call[r].step = "claimed")
      BY <2>1 DEF Decisive
    <2>7. call'[r].step \notin {"claimed", "added", "checked"}
            /\ \A s \in Runtimes \ {r} : call'[s] = call[s]
      <3>1. CASE Go(r, call[r].step, "ran")
        BY <3>1, GoType DEF DeliveryInv, Steps
      <3>2. CASE \E b \in BOOLEAN, v \in {"outcome_unknown", "failed"} : Decide(r, call[r].step, v, b)
        BY <3>2, DecideType DEF DeliveryInv, Verdicts
      <3>3. Decisive(p, call[r].step) \in BOOLEAN
        BY <2>1
      <3> QED BY <2>1, <2>3, <2>6, <3>1, <3>2, <3>3 DEF RunGit
    <2>8. \A s \in Runtimes : ~Holds(s, p)'
      BY <2>2, <2>7 DEF Holds
    <2> QED BY <2>2, <2>3, <2>5, <2>8
  <1> QED BY <1>1, <1>2

\* Receipts stay true, and a new one says what the call knew.
LEMMA ReceiptsStep ==
    ASSUME DeliveryInv, [Next]_vars, NEW p \in Preflights, NEW i \in DOMAIN receipts'[p]
    PROVE  /\ receipts'[p][i].status = "succeeded" => SaysDone(p, receipts[p][i].head)'
           /\ receipts'[p][i].status = "failed" => NothingDone(p)'
  <1>1. PICK h : h = receipts'[p][i].head
    OBVIOUS
  <1>2. PICK st : st = receipts'[p][i].status
    OBVIOUS
  <1>3. /\ st = "succeeded" => auth[p] # "none" /\ SaysDone(p, h)
        /\ st = "failed" => NothingDone(p)
    <2>1. CASE i \in DOMAIN receipts[p] /\ receipts'[p][i] = receipts[p][i]
      <3>1. KeptOf(p)
        BY DEF DeliveryInv, OutcomeInv
      <3>2. auth[p] # "none"
        BY <2>1, <3>1 DEF KeptOf
      <3> QED BY <1>1, <1>2, <2>1, <3>1, <3>2 DEF KeptOf
    <2>2. CASE \E r \in Runtimes :
                 /\ call[r].step = "settled" /\ call[r].pre = p
                 /\ receipts'[p][i].status = call[r].verdict /\ receipts'[p][i].head = call[r].at
      <3>1. PICK r \in Runtimes :
                 /\ call[r].step = "settled" /\ call[r].pre = p
                 /\ st = call[r].verdict /\ h = call[r].at
        BY <1>1, <1>2, <2>2
      <3>2. CallKnows(call[r]) /\ auth[p] # "none"
        BY <3>1, Parts DEF DeliveryInv, OutcomeInv, CallsFit
      <3> QED BY <3>1, <3>2 DEF CallKnows
    <2> QED BY <2>1, <2>2, ReceiptIsRecorded DEF DeliveryInv
  <1>4. st = "succeeded" => SaysDone(p, h)'
    BY <1>3, SaysDoneStays DEF DeliveryInv
  <1>5. st = "failed" => NothingDone(p)'
    BY <1>3, NothingDoneStays DEF DeliveryInv
  <1> QED BY <1>1, <1>2, <1>4, <1>5 DEF SaysDone

LEMMA KeptStep ==
    ASSUME DeliveryInv, [Next]_vars, NEW p \in Preflights
    PROVE  KeptOf(p)'
  <1>1. auth'[p] = "none" => receipts'[p] = <<>>
    <2> SUFFICES ASSUME auth'[p] = "none" PROVE receipts'[p] = <<>>
      OBVIOUS
    <2>1. auth[p] = "none" /\ receipts[p] = <<>>
      <3>1. auth[p] = "none"
        BY StoreGrows DEF DeliveryInv
      <3> QED BY <3>1 DEF DeliveryInv, OutcomeInv, KeptOf
    <2>2. ASSUME NEW i \in DOMAIN receipts'[p] PROVE FALSE
      <3>1. PICK r \in Runtimes : call[r].step = "settled" /\ call[r].pre = p
        BY <2>1, ReceiptIsRecorded DEF DeliveryInv
      <3> QED BY <2>1, <3>1, Parts DEF DeliveryInv, CallsFit
    <2>3. receipts'[p] \in Seq(Receipts)
      BY TypeStep DEF DeliveryInv, TypeInv, TypeOK
    <2>4. PICK n \in Nat : n = Len(receipts'[p]) /\ DOMAIN receipts'[p] = 1..n
      BY <2>3
    <2>5. n = 0
      <3>1. n # 0 => 1 \in 1..n
        BY <2>4
      <3> QED BY <2>2, <2>4, <3>1
    <2> QED BY <2>3, <2>4, <2>5, EmptySeq
  <1>2. CASE auth'[p] = auth[p]
    <2>1. KeptOf(p)
      BY DEF DeliveryInv, OutcomeInv
    <2>2. ASSUME auth'[p] = "succeeded"
          PROVE  \E i \in DOMAIN receipts'[p] : Receipted(p, i)'
      <3>1. PICK i \in DOMAIN receipts[p] : Receipted(p, i)
        BY <1>2, <2>1, <2>2 DEF KeptOf
      <3>2. Receipted(p, i)'
        BY <3>1, ReceiptedStays DEF DeliveryInv
      <3> QED BY <3>2 DEF Receipted
    <2>3. auth'[p] = "failed" => NothingDone(p)'
      <3>1. auth'[p] = "failed" => NothingDone(p)
        BY <1>2, <2>1 DEF KeptOf
      <3> QED BY <3>1, NothingDoneStays DEF DeliveryInv
    <2> QED BY <1>1, <2>2, <2>3, PinnedStep, AppliedStep, ReceiptsStep DEF KeptOf
  <1>3. CASE auth'[p] # auth[p]
    <2>1. ASSUME auth'[p] \in {"succeeded", "failed"}
          PROVE  \E r \in Runtimes : Finish(r) /\ call[r].pre = p /\ call[r].verdict = auth'[p]
      <3>1. ASSUME NEW op \in Operations, Preflight(p, op) PROVE auth'[p] = "ready"
        BY <3>1, Parts DEF Preflight, DeliveryInv
      <3> QED BY <1>3, <2>1, <3>1, AuthorityChanges DEF DeliveryInv
    <2>2. ASSUME auth'[p] \in {"succeeded", "failed"}
          PROVE  /\ auth'[p] = "succeeded" => \E i \in DOMAIN receipts'[p] : Receipted(p, i)'
                 /\ auth'[p] = "failed" => NothingDone(p)'
      <3>1. PICK r \in Runtimes : Finish(r) /\ call[r].pre = p /\ call[r].verdict = auth'[p]
        BY <2>1, <2>2
      <3>2. CallKnows(call[r]) /\ call[r].step = "recorded"
        BY <3>1 DEF Finish, Go, DeliveryInv, OutcomeInv
      <3>3. PICK i : i = call[r].rid
        OBVIOUS
      <3>4. auth'[p] = "succeeded" => Receipted(p, i)
        BY <3>1, <3>2, <3>3 DEF CallKnows
      <3>5. auth'[p] = "succeeded" => Receipted(p, i)'
        BY <3>4, ReceiptedStays DEF DeliveryInv
      <3>6. auth'[p] = "failed" => NothingDone(p)
        BY <3>1, <3>2 DEF CallKnows
      <3>7. auth'[p] = "failed" => NothingDone(p)'
        BY <3>6, NothingDoneStays DEF DeliveryInv
      <3> QED BY <3>5, <3>7 DEF Receipted
    <2> QED BY <1>1, <2>2, PinnedStep, AppliedStep, ReceiptsStep DEF KeptOf
  <1> QED BY <1>2, <1>3

\* The task's commit receipt is one of success, of a commit.
LEMMA TaskKnowsStep ==
    ASSUME DeliveryInv, [Next]_vars
    PROVE  TaskKnows'
  <1>1. ASSUME NEW p \in Preflights, NEW i, Op(p) \in Commits, Receipted(p, i), auth[p] # "none"
        PROVE  Op(p)' \in Commits /\ Receipted(p, i)'
    <2>1. Op(p)' = Op(p)
      BY <1>1, StoreGrows DEF Op, DeliveryInv
    <2> QED BY <1>1, <2>1, ReceiptedStays DEF DeliveryInv
  <1>2. ASSUME NEW p \in Preflights, NEW i, Receipted(p, i)
        PROVE  auth[p] # "none"
    BY <1>2 DEF Receipted, DeliveryInv, OutcomeInv, KeptOf
  <1>3. CASE task'.commit = task.commit
    <2> SUFFICES ASSUME task'.commit # None PROVE TaskKnows'
      BY DEF TaskKnows
    <2>0. PICK i : i = task.commit[2]
      OBVIOUS
    <2>1. PICK p \in Preflights : p = task.commit[1] /\ i = task.commit[2]
      BY <2>0, <1>3 DEF DeliveryInv, OutcomeInv, TaskKnows
    <2>2. Op(p) \in Commits /\ Receipted(p, i)
      BY <1>3, <2>1 DEF DeliveryInv, OutcomeInv, TaskKnows
    <2>3. Op(p)' \in Commits /\ Receipted(p, i)'
      BY <1>1, <1>2, <2>2
    <2>4. p = task'.commit[1] /\ i = task'.commit[2]
      BY <1>3, <2>1
    <2> QED BY <2>1, <2>3, <2>4 DEF TaskKnows, Op, Receipted
  <1>4. CASE task'.commit # task.commit
    <2>1. PICK r \in Runtimes : Bind(r) /\ Op(call[r].pre) # "push" /\ task'.commit = ReceiptId(r)
      <3>1. CASE \E r \in Runtimes : Bind(r)
        <4>1. PICK r \in Runtimes : Bind(r)
          BY <3>1
        <4>2. \/ task' = task
              \/ task' = IF Op(call[r].pre) = "push" THEN [task EXCEPT !.push = ReceiptId(r)]
                         ELSE [task EXCEPT !.commit = ReceiptId(r)]
          BY <4>1 DEF Bind
        <4>3. task \in Tasks
          BY Parts DEF DeliveryInv
        <4> QED BY <1>4, <4>1, <4>2, <4>3 DEF Tasks
      <3>2. CASE \E r \in Runtimes : CloseOutFailure(r)
        <4>1. task' = task \/ \E st : task' = [task EXCEPT !.status = st]
          BY <3>2 DEF CloseOutFailure
        <4> QED BY <1>4, <4>1, Parts DEF Tasks, DeliveryInv
      <3>3. CASE ~(\E r \in Runtimes : Bind(r) \/ CloseOutFailure(r))
        <4>1. task' = task
          BY <3>3 DEF Next, vars, CallStep, RefuseBinding, Verify, Claim, RunGit, CheckAdded,
                  ReadBack, Recover, Record, Finish, CloseOut, Retire, Crash, Begin, Mismatch,
                  Preflight, PersonStep, PersonAdds, Edit, PersonCommits, PersonPushes, Person,
                  store
        <4> QED BY <1>4, <4>1
      <3> QED BY <3>1, <3>2, <3>3
    <2>0. PICK i : i = call[r].rid
      OBVIOUS
    <2>2. PICK p \in Preflights : p = call[r].pre /\ i = call[r].rid
      BY <2>0, <2>1, Parts DEF Bind, Go, CallsFit, DeliveryInv
    <2>3. call[r].step = "finished" /\ call[r].verdict = "succeeded" /\ Op(p) \notin Stages
      BY <2>1, <2>2 DEF Bind, Go, Binds
    <2>4. Receipted(p, i)
      BY <2>2, <2>3 DEF DeliveryInv, OutcomeInv, CallKnows
    <2>5. Op(p) \in Commits
      <3>1. plan[p] \in Plans
        BY <1>2, <2>4, PlanOf DEF DeliveryInv
      <3> QED BY <2>1, <2>2, <2>3, <3>1 DEF Op, Plans, Operations
    <2>6. Op(p)' \in Commits /\ Receipted(p, i)'
      BY <1>1, <1>2, <2>4, <2>5
    <2>7. p = task'.commit[1] /\ i = task'.commit[2]
      BY <2>1, <2>2 DEF ReceiptId
    <2> QED BY <2>6, <2>7 DEF TaskKnows, Op, Receipted
  <1> QED BY <1>3, <1>4

\* DeliveryInv is inductive.
LEMMA InitDelivery == Init => DeliveryInv
  <1> SUFFICES ASSUME Init PROVE DeliveryInv
    OBVIOUS
  <1>1. TypeInv
    BY InitType
  <1>2. OnceInv /\ PathsInScope
    BY DEF Init, OnceInv, RunAtMostOnce, ClaimedOnce, Holds, Idle, PathsInScope
  <1>3. ASSUME NEW r \in Runtimes PROVE CallKnows(call[r])
    <2>1. call[r].step = "idle"
      BY IdleIsCall DEF Init
    <2> QED BY <2>1 DEF CallKnows
  <1>4. ASSUME NEW p \in Preflights PROVE KeptOf(p)
    <2>1. auth[p] = "none" /\ receipts[p] = <<>> /\ applied = {}
      BY DEF Init
    <2>2. DOMAIN receipts[p] = {}
      BY <2>1
    <2> QED BY <2>1, <2>2 DEF KeptOf
  <1>5. TaskKnows
    BY DEF Init, TaskKnows
  <1> QED BY <1>1, <1>2, <1>3, <1>4, <1>5 DEF DeliveryInv, OutcomeInv

LEMMA DeliveryStep == DeliveryInv /\ [Next]_vars => DeliveryInv'
  <1> SUFFICES ASSUME DeliveryInv, [Next]_vars PROVE DeliveryInv'
    OBVIOUS
  <1>1. TypeInv' /\ OnceInv' /\ PathsInScope'
    BY TypeStep, OnceStep, PathsInScopeStep DEF DeliveryInv
  <1>2. (\A s \in Runtimes : CallKnows(call[s]))' /\ (\A p \in Preflights : KeptOf(p)') /\ TaskKnows'
    BY CallsKnowStep, KeptStep, TaskKnowsStep
  <1> QED BY <1>1, <1>2 DEF DeliveryInv, OutcomeInv

\* Nothing that is kept of a preflight claims a success or a failure that the
\* repository or the remote contradicts, wherever runtimes crash, recover each
\* other's preflights and people commit meanwhile (_record_receipt,
\* finish_git_preflight_authority, _reconcile_executing_commit and _push).
THEOREM OutcomeTheorem == Spec => []OutcomeIsTrue
  <1>1. DeliveryInv => OutcomeIsTrue
    <2> SUFFICES ASSUME DeliveryInv PROVE OutcomeIsTrue
      OBVIOUS
    <2>1. \A p \in Preflights : KeptOf(p)
      BY DEF DeliveryInv, OutcomeInv
    <2>2. SucceededIsApplied
      BY <2>1 DEF SucceededIsApplied, KeptOf, SaysDone
    <2>3. EndedAsRecorded
      BY <2>1 DEF EndedAsRecorded, KeptOf, Receipted, NothingDone
    <2>4. FailedIsNotApplied
      BY <2>1 DEF FailedIsNotApplied, KeptOf, NothingDone
    <2> QED BY <2>2, <2>3, <2>4 DEF OutcomeIsTrue
  <1> QED
    BY <1>1, InitDelivery, DeliveryStep, PTL DEF Spec

\* The commit a task is bound to has changed paths of the task only: a success
\* is decided when what has changed since the pinned head is the candidate, and
\* the ledger binds receipts of success (_git_record_receipt).
THEOREM BoundCommitTheorem == Spec => []BoundCommitIsInScope
  <1>1. DeliveryInv => BoundCommitIsInScope
    <2> SUFFICES ASSUME DeliveryInv, task.commit # None
                 PROVE  LET p == task.commit[1]
                        IN  /\ ReceiptOf(task.commit).status = "succeeded"
                            /\ Differ(log[plan[p].snap.head].tree,
                                      log[ReceiptOf(task.commit).head].tree) \subseteq Scope
      BY DEF BoundCommitIsInScope
    <2>0. PICK i : i = task.commit[2]
      OBVIOUS
    <2>1. PICK p \in Preflights : p = task.commit[1] /\ i = task.commit[2]
      BY <2>0 DEF DeliveryInv, OutcomeInv, TaskKnows
    <2>2. Op(p) \in Commits /\ Receipted(p, i)
      BY <2>1 DEF DeliveryInv, OutcomeInv, TaskKnows
    <2>3. SaysDone(p, receipts[p][i].head)
      BY <2>2 DEF DeliveryInv, OutcomeInv, KeptOf, Receipted
    <2>4. ReceiptOf(task.commit) = receipts[p][i]
      BY <2>1 DEF ReceiptOf
    <2> QED BY <2>1, <2>2, <2>3, <2>4 DEF SaysDone, Receipted
  <1> QED
    BY <1>1, InitDelivery, DeliveryStep, PTL DEF Spec
=============================================================================
