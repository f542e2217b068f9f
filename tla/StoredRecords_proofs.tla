------------------------ MODULE StoredRecords_proofs ------------------------
(***************************************************************************)
(* Proofs about what the store keeps of the sessions: the writer leases,   *)
(* by which a session may write to its tree (WriterLeases), and the        *)
(* evidence of a retired one (SessionMaintenance). The first part proves   *)
(* the types, the exclusivity of the live rows of the store and of each    *)
(* runtime's memory, and that a file has one live lease; the               *)
(* second that receipts, row, sidecar and object agree with the archives.  *)
(* Both parts hold for all values of the constants.                        *)
(***************************************************************************)
EXTENDS WriterLeases, SessionMaintenance, SequenceTheorems, FiniteSetTheorems,
        WellFoundedInduction, TLAPS

Rows == [Leases -> [state : RowStates, pin : Pins]]

Mems == [Leases -> Pins \cup {None}]

Bindings == [Tasks -> TaskRows]

\* Two scopes conflict whichever of them is asked first.
LEMMA ConflictSymmetric ==
    ASSUME NEW a \in Leases, NEW b \in Leases
    PROVE  Conflict(a, b) <=> Conflict(b, a)
  BY DEF Conflict, ResourceConflict, PathConflict, PathsOverlap

\* Inside one workspace the rule of restore is at least as strict as the rule
\* of acquire and of save_lease.
LEMMA RestoreRuleIsStricter ==
    ASSUME NEW a \in Leases, NEW b \in Leases,
           Workspace(a) = Workspace(b), Conflict(a, b)
    PROVE  RestoreConflict(a, b)
  BY DEF Conflict, RestoreConflict

\* Rows that become live in no other way than by being live already keep the
\* store exclusive; time may pass meanwhile.
LEMMA FewerLive ==
    ASSUME NEW rs, NEW ss, NEW t, NEW u, ExclusiveAt(rs, t),
           \A l \in Leases : LiveAt(ss, u, l) => LiveAt(rs, t, l)
    PROVE  ExclusiveAt(ss, u)
  BY DEF ExclusiveAt

\* Pruning keeps the shape of the store and of the memory.
LEMMA PruneTypes ==
    ASSUME TypeOK, NEW r \in Runtimes
    PROVE  /\ PrunedRows(r) \in Rows
           /\ PrunedMem(r) \in Mems
  <1>1. \A l \in Leases : l \in Expired(r) => mem[r][l] \in Pins
    BY DEF TypeOK, Expired, Holds
  <1> QED
    BY <1>1 DEF TypeOK, PrunedRows, PrunedMem, Rows, Mems, RowStates, TerminalStates

\* Writing expired copies back makes no row live: the store stays exclusive.
LEMMA PruneExclusive ==
    ASSUME TypeOK, StoreExclusive, NEW r \in Runtimes
    PROVE  ExclusiveAt(PrunedRows(r), now)
  <1>1. \A l \in Leases : LiveAt(PrunedRows(r), now, l) => LiveAt(rows, now, l)
    BY DEF LiveAt, PrunedRows
  <1> QED
    BY <1>1, FewerLive DEF StoreExclusive

\* save_lease(state="active") keeps the store exclusive.
LEMMA SaveExclusive ==
    ASSUME NEW rs \in Rows, ExclusiveAt(rs, now),
           NEW l \in Leases, NEW pin \in Pins, StoreAdmits(rs, l)
    PROVE  /\ Saved(rs, l, "active", pin) \in Rows
           /\ ExclusiveAt(Saved(rs, l, "active", pin), now)
  <1> DEFINE ss == Saved(rs, l, "active", pin)
  <1>1. ss \in Rows
    BY DEF Saved, Rows, RowStates
  <1>2. \A k \in Leases \ {l} : ss[k] = rs[k]
    BY DEF Saved, Rows
  <1>3. \A k \in Leases \ {l} : LiveAt(ss, now, k) => ~Conflict(k, l) /\ ~Conflict(l, k)
    BY <1>2, ConflictSymmetric DEF StoreAdmits, LiveAt
  <1>4. ASSUME NEW a \in Leases, NEW b \in Leases, a # b,
               LiveAt(ss, now, a), LiveAt(ss, now, b)
        PROVE  ~Conflict(a, b)
    <2>1. CASE a = l
      BY <1>3, <1>4, <2>1
    <2>2. CASE b = l
      BY <1>3, <1>4, <2>2
    <2>3. CASE a # l /\ b # l
      BY <1>2, <1>4, <2>3 DEF ExclusiveAt, LiveAt
    <2> QED BY <2>1, <2>2, <2>3
  <1> QED
    BY <1>1, <1>4 DEF ExclusiveAt

\* Adding a lease that acquire admits keeps a memory exclusive.
LEMMA InsertMemExclusive ==
    ASSUME NEW m \in Mems, MemExclusive(m), NEW l \in Leases, NEW pin \in Pins,
           MemAdmits(m, l) \/ m[l] # None
    PROVE  /\ [m EXCEPT ![l] = pin] \in Mems
           /\ MemExclusive([m EXCEPT ![l] = pin])
  <1> DEFINE n == [m EXCEPT ![l] = pin]
  <1>1. n \in Mems
    BY DEF Mems
  <1>2. \A k \in Leases : k # l => n[k] = m[k]
    BY DEF Mems
  <1>3. ASSUME NEW a \in Leases, NEW b \in Leases, a # b, n[a] # None, n[b] # None,
               Workspace(a) = Workspace(b)
        PROVE  ~Conflict(a, b)
    <2>1. CASE m[l] # None
      BY <1>2, <1>3, <2>1 DEF MemExclusive
    <2>2. CASE MemAdmits(m, l) /\ a = l
      BY <1>2, <1>3, <2>2, ConflictSymmetric DEF MemAdmits
    <2>3. CASE MemAdmits(m, l) /\ b = l
      BY <1>2, <1>3, <2>3 DEF MemAdmits
    <2>4. CASE a # l /\ b # l
      BY <1>2, <1>3, <2>4 DEF MemExclusive
    <2> QED BY <2>1, <2>2, <2>3, <2>4
  <1> QED
    BY <1>1, <1>3 DEF MemExclusive

\* Copying what restore keeps out of a list keeps a memory exclusive.
LEMMA RestoreMemExclusive ==
    ASSUME TypeOK, NEW m \in Mems, MemExclusive(m),
           NEW ls \in SUBSET Leases, NEW S \in RestoredSets(m, ls)
    PROVE  /\ RestoredMem(m, S) \in Mems
           /\ MemExclusive(RestoredMem(m, S))
  <1> DEFINE n == RestoredMem(m, S)
  <1>1. /\ S \subseteq Leases
        /\ \A a, b \in S : a # b => ~RestoreConflict(a, b)
        /\ \A l \in S, k \in Leases : m[k] # None => ~RestoreConflict(k, l)
    BY DEF RestoredSets, Restorable
  <1>2. n \in Mems
    BY <1>1 DEF RestoredMem, Mems, TypeOK
  <1>3. \A k \in Leases : k \notin S => n[k] = m[k]
    BY DEF RestoredMem
  <1>4. ASSUME NEW a \in Leases, NEW b \in Leases, a # b, n[a] # None, n[b] # None,
               Workspace(a) = Workspace(b)
        PROVE  ~Conflict(a, b)
    <2>1. CASE a \in S /\ b \in S
      BY <1>1, <1>4, <2>1, RestoreRuleIsStricter
    <2>2. CASE a \notin S /\ b \in S
      BY <1>1, <1>3, <1>4, <2>2, RestoreRuleIsStricter
    <2>3. CASE a \in S /\ b \notin S
      BY <1>1, <1>3, <1>4, <2>3, RestoreRuleIsStricter, ConflictSymmetric
    <2>4. CASE a \notin S /\ b \notin S
      BY <1>3, <1>4, <2>4 DEF MemExclusive
    <2> QED BY <2>1, <2>2, <2>3, <2>4
  <1> QED
    BY <1>2, <1>4 DEF MemExclusive

\* Dropping expired copies keeps a memory exclusive.
LEMMA PruneMemExclusive ==
    ASSUME TypeOK, MemoryExclusive, NEW r \in Runtimes
    PROVE  MemExclusive(PrunedMem(r))
  BY DEF MemoryExclusive, MemExclusive, PrunedMem

-----------------------------------------------------------------------------
(* Types.                                                                  *)

\* What a runtime is in the middle of has the fields its kind says.
LEMMA OpTypes ==
    ASSUME TypeOK, NEW r \in Runtimes
    PROVE  /\ op[r].kind = "patch" => op[r] \in PatchOps
           /\ op[r].kind \in {"wrote", "snapped"} => op[r] \in WroteOps
           /\ op[r].kind = "fenced" => op[r] \in FenceOps
  <1>1. op[r] \in Ops
    BY DEF TypeOK
  <1> QED
    BY <1>1 DEF Ops, Idle, Down, PatchOps, WroteOps, FenceOps

\* A lease that survives pruning is held with the pin it had.
LEMMA HeldPin ==
    ASSUME TypeOK, NEW r \in Runtimes, NEW l \in Leases, PrunedMem(r)[l] # None
    PROVE  PrunedMem(r)[l] = mem[r][l] /\ mem[r][l] \in Pins
  BY DEF PrunedMem, TypeOK

\* The pin of a snapshot: the expiry of the copy, the files and the head as they
\* are.
LEMMA SnapshotPin ==
    ASSUME TypeOK, NEW r \in Runtimes, NEW l \in Leases, PrunedMem(r)[l] # None
    PROVE  [exp |-> mem[r][l].exp, rev |-> head[LeaseTree[l]], snap |-> RefreshedScope(l)] \in Pins
  <1>1. mem[r][l].exp \in Nat
    BY HeldPin DEF Pins
  <1>2. head[LeaseTree[l]] \in Nat
    BY ScopeAssumption DEF TypeOK
  <1>3. RefreshedScope(l) \in [Files -> Nat]
    BY DEF TypeOK, ScopeOf, RefreshedScope
  <1> QED
    BY <1>1, <1>2, <1>3 DEF Pins

\* The initial state has the right types.
LEMMA InitTypes == Init => TypeOK
  <1> SUFFICES ASSUME Init PROVE TypeOK
    OBVIOUS
  <1>1. NoPin \in Pins
    BY DEF NoPin, Pins
  <1> QED
    BY <1>1 DEF Init, TypeOK, RowStates, Ops, FreshTasks, TaskRows

\* Every step keeps the types: one case per action.
LEMMA TypeStep == TypeOK /\ [Next]_vars => TypeOK'
  <1> SUFFICES ASSUME TypeOK, [Next]_vars PROVE TypeOK'
    OBVIOUS
  <1> USE ScopeAssumption, BoundAssumption
  <1>0. /\ \A r \in Runtimes : PrunedRows(r) \in Rows /\ PrunedMem(r) \in Mems
        /\ \A r \in Runtimes : [mem EXCEPT ![r] = PrunedMem(r)] \in [Runtimes -> Mems]
        /\ mem \in [Runtimes -> Mems] /\ rows \in Rows
        /\ Idle \in Ops /\ Down \in Ops
        /\ NoPin \in Pins
        /\ task \in Bindings
    BY PruneTypes DEF TypeOK, Rows, Mems, Bindings, Ops, NoPin, Pins
  <1>1. ASSUME NEW r \in Runtimes, Prune(r) PROVE TypeOK'
    BY <1>0, <1>1 DEF Prune, TypeOK, Rows, Mems
  <1>2. ASSUME NEW r \in Runtimes, NEW l \in Leases, Acquire(r, l) PROVE TypeOK'
    <2>1. [exp |-> now + Ttl, rev |-> head[LeaseTree[l]], snap |-> ScopeOf(l, content)] \in Pins
      BY DEF TypeOK, Pins, ScopeOf
    <2>2. rows' \in Rows /\ mem' \in [Runtimes -> Mems]
      BY <1>0, <1>2, <2>1 DEF Acquire, Saved, Rows, Mems, RowStates
    <2>3. task' \in Bindings
      BY <1>0, <1>2 DEF Acquire, Bindings, TaskRows
    <2> QED BY <1>2, <2>2, <2>3 DEF Acquire, TypeOK, Rows, Mems, Bindings
  <1>3. ASSUME NEW r \in Runtimes, NEW l \in Leases, Refresh(r, l) PROVE TypeOK'
    <2>1. Extended(mem[r][l]) \in Pins
      BY <1>3, HeldPin DEF Refresh, Extended, TypeOK, Pins
    <2>2. rows' \in Rows /\ mem' \in [Runtimes -> Mems]
      BY <1>0, <1>3, <2>1 DEF Refresh, Saved, Rows, Mems, RowStates
    <2> QED BY <1>3, <2>2 DEF Refresh, TypeOK, Rows, Mems
  <1>4. ASSUME NEW r \in Runtimes, NEW l \in Leases, Release(r, l) PROVE TypeOK'
    <2>1. mem[r][l] \in Pins
      BY <1>4, HeldPin DEF Release
    <2>2. rows' \in Rows /\ mem' \in [Runtimes -> Mems]
      BY <1>0, <1>4, <2>1 DEF Release, Saved, Rows, Mems, RowStates, TerminalStates
    <2> QED BY <1>4, <2>2 DEF Release, TypeOK, Rows, Mems
  <1>5. ASSUME NEW r \in Runtimes, NEW l \in Leases, NEW f \in Files, PatchValidate(r, l, f)
        PROVE  TypeOK'
    <2>1. [kind |-> "patch", lease |-> l, file |-> f] \in Ops
      BY DEF Ops, PatchOps
    <2> QED BY <1>0, <1>5, <2>1 DEF PatchValidate, TypeOK, Rows, Mems
  <1>6. ASSUME NEW r \in Runtimes, PatchWrite(r) PROVE TypeOK'
    <2>1. op[r] \in PatchOps
      BY <1>6, OpTypes DEF PatchWrite
    <2>2. [kind |-> "wrote", lease |-> op[r].lease] \in Ops
      BY <2>1 DEF Ops, PatchOps, WroteOps
    <2>3. content' \in [Files -> Nat]
      BY <1>6, <2>1 DEF PatchWrite, TypeOK, Versions, PatchOps
    <2> QED BY <1>6, <2>2, <2>3 DEF PatchWrite, TypeOK
  <1>7. ASSUME NEW r \in Runtimes, PatchRejected(r) PROVE TypeOK'
    BY <1>0, <1>7 DEF PatchRejected, TypeOK
  <1>8. ASSUME NEW r \in Runtimes, PatchSnapshot(r) PROVE TypeOK'
    <2> DEFINE l == op[r].lease
    <2>1. l \in Leases
      BY <1>8, OpTypes DEF PatchSnapshot, WroteOps
    <2>2. [exp |-> mem[r][l].exp, rev |-> head[LeaseTree[l]], snap |-> RefreshedScope(l)] \in Pins
      BY <1>8, <2>1, SnapshotPin DEF PatchSnapshot
    <2>3. rows' \in Rows /\ mem' \in [Runtimes -> Mems]
      BY <1>0, <1>8, <2>1, <2>2 DEF PatchSnapshot, Saved, Rows, Mems, RowStates
    <2>4. [kind |-> "snapped", lease |-> l] \in Ops
      BY <2>1 DEF Ops, WroteOps
    <2>5. op' \in [Runtimes -> Ops] /\ UNCHANGED <<now, ckpt, task, content, head>>
      BY <1>8, <2>4 DEF PatchSnapshot, TypeOK
    <2> QED BY <2>3, <2>5 DEF TypeOK, Rows, Mems
  <1>12. ASSUME NEW r \in Runtimes, PatchRefresh(r) PROVE TypeOK'
    <2> DEFINE l == op[r].lease
    <2>1. l \in Leases
      BY <1>12, OpTypes DEF PatchRefresh, WroteOps
    <2>2. Extended(mem[r][l]) \in Pins
      BY <1>12, <2>1, HeldPin DEF PatchRefresh, Extended, TypeOK, Pins
    <2>3. rows' \in Rows /\ mem' \in [Runtimes -> Mems]
      BY <1>0, <1>12, <2>1, <2>2 DEF PatchRefresh, Saved, Rows, Mems, RowStates
    <2> QED BY <1>0, <1>12, <2>3 DEF PatchRefresh, TypeOK, Rows, Mems
  <1>9. ASSUME NEW r \in Runtimes, PatchFinishRefused(r) PROVE TypeOK'
    BY <1>0, <1>9 DEF PatchFinishRefused, TypeOK, Rows, Mems
  <1>10. ASSUME NEW r \in Runtimes, Fence(r) PROVE TypeOK'
    <2> DEFINE held == {l \in Leases : PrunedMem(r)[l] # None}
    <2>1. [kind |-> "fenced", leases |-> held] \in Ops
      BY DEF Ops, FenceOps
    <2>2. op' \in [Runtimes -> Ops] /\ ckpt' \in SUBSET Leases
      BY <1>10, <2>1 DEF Fence, TypeOK
    <2> QED BY <1>0, <1>10, <2>2 DEF Fence, TypeOK, Rows, Mems
  <1>11. ASSUME NEW r \in Runtimes, AbortFence(r) PROVE TypeOK'
    BY <1>0, <1>11 DEF AbortFence, TypeOK
  <1>15. ASSUME NEW r \in Runtimes, NEW l \in Leases, BootstrapCanonical(r, l) PROVE TypeOK'
    <2>1. RestoredMem(PrunedMem(r), {l}) \in Mems
      BY <1>0 DEF RestoredMem, Mems, Rows
    <2> QED BY <1>0, <1>15, <2>1 DEF BootstrapCanonical, TypeOK, Rows, Mems
  <1>16. ASSUME NEW r \in Runtimes, NEW l \in Leases, BootstrapSession(r, l) PROVE TypeOK'
    <2>1. RestoredMem(PrunedMem(r), {l}) \in Mems
      BY <1>0 DEF RestoredMem, Mems, Rows
    <2>2. Extended(rows[l].pin) \in Pins
      BY DEF Extended, TypeOK, Pins
    <2> DEFINE m == RestoredMem(PrunedMem(r), {l})
    <2>3. /\ rows' \in {PrunedRows(r), Saved(PrunedRows(r), l, "active", Extended(rows[l].pin))}
          /\ mem' \in {[mem EXCEPT ![r] = m],
                       [mem EXCEPT ![r] = [m EXCEPT ![l] = Extended(rows[l].pin)]]}
      BY <1>16 DEF BootstrapSession
    <2>7. Saved(PrunedRows(r), l, "active", Extended(rows[l].pin)) \in Rows
      BY <1>0, <2>2 DEF Saved, Rows, RowStates
    <2>8. [m EXCEPT ![l] = Extended(rows[l].pin)] \in Mems
      BY <2>1, <2>2 DEF Mems
    <2>9. \A n \in Mems : [mem EXCEPT ![r] = n] \in [Runtimes -> Mems]
      BY <1>0
    <2>5. rows' \in Rows
      BY <1>0, <2>3, <2>7
    <2>6. mem' \in [Runtimes -> Mems]
      BY <2>1, <2>3, <2>8, <2>9
    <2>4. task' \in Bindings
      BY <1>0, <1>16 DEF BootstrapSession, Bindings, TaskRows
    <2> QED BY <1>16, <2>4, <2>5, <2>6 DEF BootstrapSession, TypeOK, Rows, Mems, Bindings
  <1>17. ASSUME NEW r \in Runtimes, Close(r) PROVE TypeOK'
    <2>1. \A l \in Leases : PrunedMem(r)[l] # None => mem[r][l] \in Pins
      BY HeldPin
    <2>2. rows' \in Rows
      BY <1>0, <1>17, <2>1 DEF Close, Rows, RowStates, TerminalStates
    <2> QED BY <1>0, <1>17, <2>2 DEF Close, TypeOK, Rows, Mems
  <1>18. ASSUME NEW r \in Runtimes, Crash(r) PROVE TypeOK'
    BY <1>0, <1>18 DEF Crash, TypeOK
  <1>19. ASSUME NEW r \in Runtimes, StartFresh(r) PROVE TypeOK'
    <2>1. rows' \in Rows
      BY <1>0, <1>19 DEF StartFresh, SweptRows, Marked, Rows, RowStates, TerminalStates
    <2>2. task' \in Bindings
      BY <1>0, <1>19 DEF StartFresh, SweptTasks, Bindings, TaskRows
    <2>3. PICK S : mem' = [mem EXCEPT ![r] = RestoredMem(mem[r], S)]
      BY <1>19 DEF StartFresh
    <2>4. RestoredMem(mem[r], S) \in Mems
      BY <1>0 DEF RestoredMem, Mems, Rows
    <2>5. mem' \in [Runtimes -> Mems]
      BY <1>0, <2>3, <2>4
    <2> QED BY <1>0, <1>19, <2>1, <2>2, <2>5 DEF StartFresh, TypeOK, Rows, Mems, Bindings
  <1>20. ASSUME NEW r \in Runtimes, StartPreserving(r) PROVE TypeOK'
    <2>1. PICK S : mem' = [mem EXCEPT ![r] = RestoredMem(mem[r], S)]
      BY <1>20 DEF StartPreserving
    <2>2. RestoredMem(mem[r], S) \in Mems
      BY <1>0 DEF RestoredMem, Mems, Rows
    <2>3. mem' \in [Runtimes -> Mems]
      BY <1>0, <2>1, <2>2
    <2>4. op' \in [Runtimes -> Ops] /\ UNCHANGED <<now, rows, ckpt, task, content, head>>
      BY <1>0, <1>20 DEF StartPreserving, TypeOK
    <2> QED BY <2>3, <2>4 DEF TypeOK, Mems
  <1>21. ASSUME NEW l \in Leases, ReleaseExpired(l) \/ Cleanup(l) PROVE TypeOK'
    <2>1. rows[l].pin \in Pins
      BY <1>0 DEF Rows
    <2>2. PICK entry \in [state : RowStates, pin : Pins] : rows' = [rows EXCEPT ![l] = entry]
      BY <1>0, <1>21, <2>1 DEF ReleaseExpired, Cleanup, Marked, RowStates, TerminalStates
    <2>3. rows' \in Rows
      BY <1>0, <2>2 DEF Rows
    <2> QED BY <1>21, <2>3 DEF ReleaseExpired, Cleanup, TypeOK, Rows
  <1>22. ASSUME NEW t \in Tasks, TaskUnbound(t) \/ TaskBound(t) PROVE TypeOK'
    <2>1. task' \in Bindings
      BY <1>0, <1>22 DEF TaskUnbound, TaskBound, Bindings, TaskRows
    <2> QED BY <1>22, <2>1 DEF TaskUnbound, TaskBound, TypeOK, Bindings
  <1>23. ASSUME NEW f \in Files, ExternalEdit(f) PROVE TypeOK'
    BY <1>23 DEF ExternalEdit, TypeOK, Versions
  <1>24. ASSUME NEW t \in Trees, ExternalCommit(t) PROVE TypeOK'
    BY <1>24 DEF ExternalCommit, TypeOK
  <1>25. CASE Tick
    BY <1>25 DEF Tick, TypeOK
  <1>26. CASE UNCHANGED vars
    BY <1>26 DEF vars, TypeOK
  <1> QED
    BY <1>1, <1>2, <1>3, <1>4, <1>5, <1>6, <1>7, <1>8, <1>9, <1>10, <1>11,
       <1>12, <1>15, <1>16, <1>17, <1>18, <1>19, <1>20, <1>21, <1>22, <1>23,
       <1>24, <1>25, <1>26
    DEF Next, RuntimeStep, OutsideStep

\* Every variable keeps its type, whatever the runtimes do.
THEOREM TypeCorrect == Spec => []TypeOK
  BY InitTypes, TypeStep, PTL DEF Spec

-----------------------------------------------------------------------------
(* Exclusivity of the store.                                               *)

\* A step that writes a runtime's expired copies back and nothing else.
LEMMA PruneStep ==
    ASSUME TypeOK, StoreExclusive, NEW r \in Runtimes,
           rows' = PrunedRows(r), now' = now
    PROVE  StoreExclusive'
  BY PruneExclusive DEF StoreExclusive

\* A step that activates one row after the checks of save_lease.
LEMMA SaveStep ==
    ASSUME TypeOK, StoreExclusive, NEW r \in Runtimes, NEW l \in Leases, NEW pin \in Pins,
           StoreAdmits(PrunedRows(r), l),
           rows' = Saved(PrunedRows(r), l, "active", pin), now' = now
    PROVE  StoreExclusive'
  BY PruneExclusive, PruneTypes, SaveExclusive DEF StoreExclusive

\* A step after which no row is live that was not live before.
LEMMA QuietStep ==
    ASSUME StoreExclusive, \A l \in Leases : LiveAt(rows', now', l) => LiveAt(rows, now, l)
    PROVE  StoreExclusive'
  BY FewerLive DEF StoreExclusive

\* Every step keeps the store exclusive: the activating ones through
\* save_lease, the others because they make no row live.
LEMMA StoreStep == TypeOK /\ StoreExclusive /\ [Next]_vars => StoreExclusive'
  <1> SUFFICES ASSUME TypeOK, StoreExclusive, [Next]_vars PROVE StoreExclusive'
    OBVIOUS
  <1> USE ScopeAssumption, BoundAssumption
  <1>0. \A r \in Runtimes : PrunedRows(r) \in Rows
    BY PruneTypes
  <1>1. ASSUME NEW r \in Runtimes,
               \/ Prune(r) \/ PatchFinishRefused(r) \/ Fence(r)
               \/ \E l \in Leases : \/ BootstrapCanonical(r, l)
                                    \/ \E f \in Files : PatchValidate(r, l, f)
        PROVE  StoreExclusive'
    <2>1. rows' = PrunedRows(r) /\ now' = now
      BY <1>1 DEF Prune, PatchFinishRefused, Fence, BootstrapCanonical, PatchValidate
    <2> QED BY <2>1, PruneStep
  <1>2. ASSUME NEW r \in Runtimes, NEW l \in Leases, Acquire(r, l) PROVE StoreExclusive'
    <2>1. [exp |-> now + Ttl, rev |-> head[LeaseTree[l]], snap |-> ScopeOf(l, content)] \in Pins
      BY DEF TypeOK, Pins, ScopeOf
    <2> QED BY <1>2, <2>1, SaveStep DEF Acquire
  <1>3. ASSUME NEW r \in Runtimes, NEW l \in Leases, Refresh(r, l) PROVE StoreExclusive'
    <2>1. Extended(mem[r][l]) \in Pins
      BY <1>3, HeldPin DEF Refresh, Extended, TypeOK, Pins
    <2> QED BY <1>3, <2>1, SaveStep DEF Refresh
  <1>4. ASSUME NEW r \in Runtimes, NEW l \in Leases, Release(r, l) PROVE StoreExclusive'
    <2>1. \A k \in Leases : LiveAt(rows', now', k) => LiveAt(PrunedRows(r), now, k)
      BY <1>0, <1>4 DEF Release, Saved, LiveAt, Rows
    <2> QED BY <2>1, PruneExclusive, FewerLive DEF StoreExclusive
  <1>5. ASSUME NEW r \in Runtimes, PatchSnapshot(r) PROVE StoreExclusive'
    <2> DEFINE l == op[r].lease
    <2>1. l \in Leases
      BY <1>5, OpTypes DEF PatchSnapshot, WroteOps
    <2>2. [exp |-> mem[r][l].exp, rev |-> head[LeaseTree[l]], snap |-> RefreshedScope(l)] \in Pins
      BY <1>5, <2>1, SnapshotPin DEF PatchSnapshot
    <2> QED BY <1>5, <2>1, <2>2, SaveStep DEF PatchSnapshot
  <1>6. ASSUME NEW r \in Runtimes, PatchRefresh(r) PROVE StoreExclusive'
    <2> DEFINE l == op[r].lease
    <2>1. l \in Leases
      BY <1>6, OpTypes DEF PatchRefresh, WroteOps
    <2>2. Extended(mem[r][l]) \in Pins
      BY <1>6, <2>1, HeldPin DEF PatchRefresh, Extended, TypeOK, Pins
    <2> QED BY <1>6, <2>1, <2>2, SaveStep DEF PatchRefresh
  <1>7. ASSUME NEW r \in Runtimes, NEW l \in Leases, BootstrapSession(r, l)
        PROVE  StoreExclusive'
    <2>1. Extended(rows[l].pin) \in Pins
      BY DEF Extended, TypeOK, Pins
    <2>2. CASE StoreAdmits(PrunedRows(r), l)
      BY <1>7, <2>1, <2>2, SaveStep DEF BootstrapSession
    <2>3. CASE ~StoreAdmits(PrunedRows(r), l)
      BY <1>7, <2>3, PruneStep DEF BootstrapSession
    <2> QED BY <2>2, <2>3
  <1>8. ASSUME NEW r \in Runtimes, Close(r) PROVE StoreExclusive'
    <2>1. \A k \in Leases : LiveAt(rows', now', k) => LiveAt(PrunedRows(r), now, k)
      BY <1>8 DEF Close, LiveAt
    <2> QED BY <2>1, PruneExclusive, FewerLive DEF StoreExclusive
  <1>9. ASSUME NEW r \in Runtimes, StartFresh(r) PROVE StoreExclusive'
    <2>1. \A k \in Leases : LiveAt(rows', now', k) => LiveAt(rows, now, k)
      BY <1>9 DEF StartFresh, SweptRows, Marked, LiveAt
    <2> QED BY <2>1, QuietStep
  <1>10. ASSUME NEW l \in Leases, ReleaseExpired(l) \/ Cleanup(l) PROVE StoreExclusive'
    <2>1. \A k \in Leases \ {l} : rows'[k] = rows[k]
      BY <1>10 DEF ReleaseExpired, Cleanup, TypeOK
    <2>2. rows'[l].state \in {"released", "deleted"}
      BY <1>10 DEF ReleaseExpired, Cleanup, Marked, TypeOK
    <2>3. now' = now
      BY <1>10 DEF ReleaseExpired, Cleanup
    <2>4. \A k \in Leases : LiveAt(rows', now', k) => LiveAt(rows, now, k)
      BY <2>1, <2>2, <2>3 DEF LiveAt
    <2> QED BY <2>4, QuietStep
  <1>11. CASE Tick
    <2>1. \A k \in Leases : rows[k].pin.exp \in Nat
      BY DEF TypeOK, Pins
    <2>2. \A k \in Leases : LiveAt(rows', now', k) => LiveAt(rows, now, k)
      BY <1>11, <2>1 DEF Tick, LiveAt, TypeOK
    <2> QED BY <2>2, QuietStep
  <1>12. CASE UNCHANGED <<rows, now>>
    BY <1>12 DEF StoreExclusive, ExclusiveAt, LiveAt
  <1>13. \/ UNCHANGED <<rows, now>>
         \/ Tick
         \/ \E l \in Leases : ReleaseExpired(l) \/ Cleanup(l)
         \/ \E r \in Runtimes :
              \/ Prune(r) \/ PatchFinishRefused(r) \/ Fence(r)
              \/ PatchSnapshot(r) \/ PatchRefresh(r) \/ Close(r) \/ StartFresh(r)
              \/ \E l \in Leases :
                   \/ Acquire(r, l) \/ Refresh(r, l) \/ Release(r, l)
                   \/ BootstrapCanonical(r, l) \/ BootstrapSession(r, l)
                   \/ \E f \in Files : PatchValidate(r, l, f)
    BY DEF Next, RuntimeStep, OutsideStep, vars, PatchWrite, PatchRejected, AbortFence,
           Crash, StartPreserving, TaskUnbound, TaskBound, ExternalEdit, ExternalCommit
  <1> QED
    BY <1>1, <1>2, <1>3, <1>4, <1>5, <1>6, <1>7, <1>8, <1>9, <1>10, <1>11, <1>12, <1>13

\* Two live rows of the store never conflict: for every number of runtimes and
\* leases, every scope, and every interleaving of acquire, refresh, release,
\* patch, bootstrap, fence, crash and restart.
THEOREM StoreIsExclusive == Spec => []StoreExclusive
  <1>1. Init => StoreExclusive
    BY DEF Init, StoreExclusive, ExclusiveAt, LiveAt
  <1> QED
    BY <1>1, TypeCorrect, StoreStep, PTL DEF Spec

-----------------------------------------------------------------------------
(* Exclusivity of each memory.                                             *)

\* A step that changes the memory of one runtime only.
LEMMA OneMemory ==
    ASSUME TypeOK, MemoryExclusive, NEW r \in Runtimes, NEW m,
           mem' = [mem EXCEPT ![r] = m], MemExclusive(m)
    PROVE  MemoryExclusive'
  BY DEF MemoryExclusive, MemExclusive, TypeOK

\* Every step keeps every memory exclusive.
LEMMA MemoryStep == TypeOK /\ MemoryExclusive /\ [Next]_vars => MemoryExclusive'
  <1> SUFFICES ASSUME TypeOK, MemoryExclusive, [Next]_vars PROVE MemoryExclusive'
    OBVIOUS
  <1> USE ScopeAssumption, BoundAssumption
  <1>0. /\ \A r \in Runtimes : PrunedMem(r) \in Mems /\ MemExclusive(PrunedMem(r))
        /\ \A r \in Runtimes : mem[r] \in Mems /\ MemExclusive(mem[r])
    BY PruneTypes, PruneMemExclusive DEF MemoryExclusive, TypeOK, Mems
  <1>1. ASSUME NEW r \in Runtimes,
               \/ Prune(r) \/ PatchFinishRefused(r) \/ Fence(r)
               \/ \E l \in Leases, f \in Files : PatchValidate(r, l, f)
        PROVE  MemoryExclusive'
    BY <1>0, <1>1, OneMemory DEF Prune, PatchFinishRefused, Fence, PatchValidate
  <1>2. ASSUME NEW r \in Runtimes, NEW l \in Leases, Acquire(r, l) PROVE MemoryExclusive'
    <2>1. [exp |-> now + Ttl, rev |-> head[LeaseTree[l]], snap |-> ScopeOf(l, content)] \in Pins
      BY DEF TypeOK, Pins, ScopeOf
    <2> QED BY <1>0, <1>2, <2>1, InsertMemExclusive, OneMemory DEF Acquire
  <1>3. ASSUME NEW r \in Runtimes, NEW l \in Leases, Refresh(r, l) PROVE MemoryExclusive'
    <2>1. Extended(mem[r][l]) \in Pins
      BY <1>3, HeldPin DEF Refresh, Extended, TypeOK, Pins
    <2> QED BY <1>0, <1>3, <2>1, InsertMemExclusive, OneMemory DEF Refresh
  <1>4. ASSUME NEW r \in Runtimes, NEW l \in Leases, Release(r, l) PROVE MemoryExclusive'
    <2>1. MemExclusive([PrunedMem(r) EXCEPT ![l] = None])
      BY <1>0 DEF MemExclusive, Mems
    <2> QED BY <1>4, <2>1, OneMemory DEF Release
  <1>5. ASSUME NEW r \in Runtimes, PatchSnapshot(r) PROVE MemoryExclusive'
    <2> DEFINE l == op[r].lease
    <2>1. l \in Leases
      BY <1>5, OpTypes DEF PatchSnapshot, WroteOps
    <2>2. [exp |-> mem[r][l].exp, rev |-> head[LeaseTree[l]], snap |-> RefreshedScope(l)] \in Pins
      BY <1>5, <2>1, SnapshotPin DEF PatchSnapshot
    <2> QED BY <1>0, <1>5, <2>1, <2>2, InsertMemExclusive, OneMemory DEF PatchSnapshot
  <1>14. ASSUME NEW r \in Runtimes, PatchRefresh(r) PROVE MemoryExclusive'
    <2> DEFINE l == op[r].lease
    <2>1. l \in Leases
      BY <1>14, OpTypes DEF PatchRefresh, WroteOps
    <2>2. Extended(mem[r][l]) \in Pins
      BY <1>14, <2>1, HeldPin DEF PatchRefresh, Extended, TypeOK, Pins
    <2> QED BY <1>0, <1>14, <2>1, <2>2, InsertMemExclusive, OneMemory DEF PatchRefresh
  <1>6. ASSUME NEW r \in Runtimes, StartFresh(r) PROVE MemoryExclusive'
    <2>1. PICK ls \in SUBSET Recoverable :
            \E S \in RestoredSets(mem[r], ls) :
               mem' = [mem EXCEPT ![r] = RestoredMem(mem[r], S)]
      BY <1>6 DEF StartFresh
    <2>2. ls \in SUBSET Leases
      BY <2>1 DEF Recoverable, TypeOK
    <2>3. PICK S \in RestoredSets(mem[r], ls) :
             mem' = [mem EXCEPT ![r] = RestoredMem(mem[r], S)]
      BY <2>1
    <2>4. MemExclusive(RestoredMem(mem[r], S))
      BY <1>0, <2>2, RestoreMemExclusive
    <2> QED BY <2>3, <2>4, OneMemory
  <1>7. ASSUME NEW r \in Runtimes, NEW l \in Leases, PrunedMem(r) \in Mems,
               l \in Restorable(PrunedMem(r), {l})
        PROVE  /\ RestoredMem(PrunedMem(r), {l}) \in Mems
               /\ MemExclusive(RestoredMem(PrunedMem(r), {l}))
    <2>1. {l} \in RestoredSets(PrunedMem(r), {l})
      BY <1>7 DEF RestoredSets, Restorable
    <2> QED BY <1>0, <2>1, RestoreMemExclusive
  <1>8. ASSUME NEW r \in Runtimes, NEW l \in Leases, BootstrapCanonical(r, l)
        PROVE  MemoryExclusive'
    BY <1>0, <1>7, <1>8, OneMemory DEF BootstrapCanonical, BootstrapGuard
  <1>9. ASSUME NEW r \in Runtimes, NEW l \in Leases, BootstrapSession(r, l)
        PROVE  MemoryExclusive'
    <2> DEFINE m == RestoredMem(PrunedMem(r), {l})
    <2>1. m \in Mems /\ MemExclusive(m)
      BY <1>0, <1>7, <1>9 DEF BootstrapSession, BootstrapGuard
    <2>2. Extended(rows[l].pin) \in Pins /\ rows[l].pin \in Pins
      BY DEF Extended, TypeOK, Pins
    <2>3. m[l] # None
      BY <2>2 DEF RestoredMem
    <2>4. MemExclusive([m EXCEPT ![l] = Extended(rows[l].pin)])
      BY <2>1, <2>2, <2>3, InsertMemExclusive
    <2>5. mem' \in {[mem EXCEPT ![r] = m],
                    [mem EXCEPT ![r] = [m EXCEPT ![l] = Extended(rows[l].pin)]]}
      BY <1>9 DEF BootstrapSession
    <2> QED BY <2>1, <2>4, <2>5, OneMemory
  <1>10. ASSUME NEW r \in Runtimes, Close(r) \/ Crash(r) PROVE MemoryExclusive'
    <2>1. MemExclusive([l \in Leases |-> None])
      BY DEF MemExclusive
    <2> QED BY <1>10, <2>1, OneMemory DEF Close, Crash
  <1>11. ASSUME NEW r \in Runtimes, StartPreserving(r) PROVE MemoryExclusive'
    <2>1. PICK ls \in SUBSET Leases :
            \E S \in RestoredSets(mem[r], ls) :
               mem' = [mem EXCEPT ![r] = RestoredMem(mem[r], S)]
      <3>1. \A active, of : SoleLeases(active, of) \in SUBSET Leases
        BY DEF SoleLeases
      <3> QED BY <1>11, <3>1 DEF StartPreserving
    <2>2. PICK S \in RestoredSets(mem[r], ls) :
             mem' = [mem EXCEPT ![r] = RestoredMem(mem[r], S)]
      BY <2>1
    <2>3. MemExclusive(RestoredMem(mem[r], S))
      BY <1>0, RestoreMemExclusive
    <2> QED BY <2>2, <2>3, OneMemory
  <1>12. CASE UNCHANGED mem
    BY <1>12 DEF MemoryExclusive, MemExclusive
  <1>13. \/ UNCHANGED mem
         \/ \E r \in Runtimes :
              \/ Prune(r) \/ PatchFinishRefused(r) \/ Fence(r)
              \/ PatchSnapshot(r) \/ PatchRefresh(r) \/ Close(r) \/ Crash(r) \/ StartFresh(r) \/ StartPreserving(r)
              \/ \E l \in Leases :
                   \/ Acquire(r, l) \/ Refresh(r, l) \/ Release(r, l)
                   \/ BootstrapCanonical(r, l) \/ BootstrapSession(r, l)
                   \/ \E f \in Files : PatchValidate(r, l, f)
    BY DEF Next, RuntimeStep, OutsideStep, vars, PatchWrite, PatchRejected, AbortFence,
           ReleaseExpired,
           Cleanup, TaskUnbound, TaskBound, ExternalEdit, ExternalCommit, Tick
  <1> QED
    BY <1>1, <1>2, <1>3, <1>4, <1>5, <1>6, <1>8, <1>9, <1>10, <1>11, <1>12, <1>13,
       <1>14

\* A runtime's own memory never holds two conflicting leases of one workspace,
\* although acquire and restore compare scopes by different rules.
THEOREM MemoryIsExclusive == Spec => []MemoryExclusive
  <1>1. Init => MemoryExclusive
    BY DEF Init, MemoryExclusive, MemExclusive
  <1> QED
    BY <1>1, TypeCorrect, MemoryStep, PTL DEF Spec

-----------------------------------------------------------------------------
(* One file, one live lease.                                               *)

\* casefold keeps the number of segments.
LEMMA FoldedSegments ==
    ASSUME NEW S, NEW p \in Seq(S)
    PROVE  /\ Folded(p) \in Seq({Fold[x] : x \in S})
           /\ Len(Folded(p)) = Len(p)
           /\ \A i \in 1..Len(p) : Folded(p)[i] = Fold[p[i]]
  <1>1. DOMAIN p = 1..Len(p) /\ Len(p) \in Nat /\ \A i \in 1..Len(p) : p[i] \in S
    BY LenProperties, ElementOfSeq
  <1>2. Folded(p) \in [1..Len(p) -> {Fold[x] : x \in S}]
    BY <1>1 DEF Folded
  <1>3. Folded(p) \in Seq({Fold[x] : x \in S})
    BY <1>1, <1>2, SeqDef
  <1>4. Len(Folded(p)) = Len(p)
    BY <1>1, <1>2, <1>3, LenProperties
  <1> QED
    BY <1>1, <1>3, <1>4 DEF Folded

\* Folding a path keeps what it is under.
LEMMA FoldedUnder ==
    ASSUME NEW S, NEW p \in Seq(S), NEW q \in Seq(S), Len(q) <= Len(p),
           \A i \in 1..Len(q) : p[i] = q[i]
    PROVE  Under(Folded(p), Folded(q))
  <1> DEFINE T == {Fold[x] : x \in S}
  <1>1. /\ Folded(p) \in Seq(T) /\ Len(Folded(p)) = Len(p)
        /\ Folded(q) \in Seq(T) /\ Len(Folded(q)) = Len(q)
        /\ \A i \in 1..Len(p) : Folded(p)[i] = Fold[p[i]]
        /\ \A i \in 1..Len(q) : Folded(q)[i] = Fold[q[i]]
    BY FoldedSegments
  <1>2. Len(p) \in Nat /\ Len(q) \in Nat
    BY LenProperties
  <1> DEFINE front == SubSeq(Folded(p), 1, Len(q))
  <1>3. /\ front \in Seq(T) /\ Len(front) = Len(q)
        /\ \A i \in 1..Len(q) : front[i] = Folded(p)[i]
    BY <1>1, <1>2
  <1>4. \A i \in 1..Len(q) : front[i] = Folded(q)[i]
    BY <1>1, <1>2, <1>3
  <1>5. front = Folded(q)
    BY <1>1, <1>3, <1>4, SeqEqual
  <1> QED
    BY <1>1, <1>5 DEF Under

\* Two leases that cover one file conflict.
LEMMA BothCover ==
    ASSUME NEW k \in Leases, NEW l \in Leases, NEW f \in Files, Covers(k, f), Covers(l, f)
    PROVE  Conflict(k, l)
  <1>1. LeaseTree[k] = LeaseTree[l] /\ Workspace(k) = Workspace(l)
    BY DEF Covers, Workspace
  <1>2. CASE k \in WideLeases \/ l \in WideLeases
    BY <1>1, <1>2 DEF Conflict
  <1>3. CASE InScope(k, f) /\ InScope(l, f)
    <2> DEFINE S == DOMAIN Fold
               path == FilePath[f]
    <2>1. PICK p \in LeasePaths[k] : Under(path, p)
      BY <1>3 DEF InScope
    <2>2. PICK q \in LeasePaths[l] : Under(path, q)
      BY <1>3 DEF InScope
    <2>3. path \in Seq(S) /\ p \in Seq(S) /\ q \in Seq(S)
      BY <2>1, <2>2, PathAssumption
    <2>4. /\ Len(p) \in Nat /\ Len(q) \in Nat /\ Len(path) \in Nat
          /\ Len(p) <= Len(path) /\ Len(q) <= Len(path)
          /\ SubSeq(path, 1, Len(p)) = p /\ SubSeq(path, 1, Len(q)) = q
      BY <2>1, <2>2, <2>3, LenProperties DEF Under
    <2>5. /\ \A i \in 1..Len(p) : p[i] = path[i]
          /\ \A i \in 1..Len(q) : q[i] = path[i]
      BY <2>3, <2>4
    <2>6. Len(q) <= Len(p) => Under(Folded(p), Folded(q))
      BY <2>3, <2>4, <2>5, FoldedUnder
    <2>7. Len(p) <= Len(q) => Under(Folded(q), Folded(p))
      BY <2>3, <2>4, <2>5, FoldedUnder
    <2>8. PathsOverlap(p, q)
      BY <2>4, <2>6, <2>7 DEF PathsOverlap
    <2> QED
      BY <1>1, <2>1, <2>2, <2>8 DEF Conflict, PathConflict
  <1> QED
    BY <1>2, <1>3 DEF Covers

\* A file has one writer at a time as far as the store goes: two live leases
\* never cover the same file, although a lease covers a file by its exact path
\* and leases conflict by folded paths, trees and workspaces.
FilesHaveOneWriter ==
    \A f \in Files : \A k, l \in Leases :
        Live(k) /\ Live(l) /\ Covers(k, f) /\ Covers(l, f) => k = l

\* For any runtimes that share the store, whatever they remember, restore, write
\* back late or crash with, no file is in the scope of two live leases.
THEOREM OneLiveLeaseForAFile == Spec => []FilesHaveOneWriter
  <1>1. StoreExclusive => FilesHaveOneWriter
    BY BothCover DEF StoreExclusive, ExclusiveAt, FilesHaveOneWriter, Live
  <1> QED
    BY <1>1, StoreIsExclusive, PTL

-----------------------------------------------------------------------------
(* The evidence of a retired session: the inductive invariant.              *)

\* The receipts recorded so far, and the kinds a receipt has.
Recorded == {receipts[i] : i \in Ids}
Kinds == {"terminal", "reconciled", "disposition"}

\* What the world and the store hold apart from the records of the session.
StoreFits ==
    /\ tree \in Contents \cup {Absent} /\ origin \in Origins
    /\ booked \subseteq Contents /\ adopted \subseteq Contents
    /\ filed \in [Contents -> Contents \cup {Absent, Spoilt}] /\ ArchivesHold
    /\ busy \in BOOLEAN /\ expired \in BOOLEAN /\ heir \in BOOLEAN
    /\ approved \in BOOLEAN /\ imports \in BOOLEAN /\ up \in BOOLEAN
    /\ receipts \in Seq(Recorded) /\ answered \in Ids \cup {Absent}

\* A record is in use unless it is stale, and a session in use has an identity.
Consistent(v) ==
    v # Absent => (v.life = "active" <=> ~v.stale) /\ (v.life = "active" => v.ident # Absent)

RecordsFit ==
    /\ side \in Sidecars \cup {Absent} /\ row \in SessionRows \cup {Absent}
    /\ object \in Objects \cup {Absent}
    /\ Consistent(side) /\ Consistent(row) /\ Consistent(object)

\* An observation as a preflight takes it.
Observations ==
    [life : Lives, stale : BOOLEAN, expired : BOOLEAN, stored : Identities, current : Origins,
     tree : Contents \cup {Absent}, busy : BOOLEAN, live : BOOLEAN, conflicts : BOOLEAN,
     disp : Dispositions \cup {Absent}]

\* The evidence of an archival: eligible, and with the archive it asks for.
EligibleEvidence(s) ==
    /\ s.obs \in Observations /\ ArchiveEligible(s.obs) /\ s.preview = s.obs.tree

\* The evidence of a reconciliation asks for an archive unless the worktree is
\* gone, unverified or clean.
ArchivedAsSeen(s, a) == s.tree \notin {Absent, 0} => a \in booked

ReceiptFits(c) ==
    /\ c.kind \in Kinds
    /\ c.kind = "terminal" =>
          EligibleEvidence(c.seen) /\ c.archive = c.seen.preview /\ c.archive \in booked
    /\ c.kind = "reconciled" => ArchivedAsSeen(c.seen, c.archive)

ReceiptsFit == \A i \in Ids : ReceiptFits(receipts[i])

\* A decision to clean up has its receipt, and a record names the one it is of.
Decided == \E i \in Ids : receipts[i].kind # "disposition"

DecidedFits ==
    /\ \A v \in {side, row, object} : v # Absent /\ v.life = CleanupCandidate => Decided
    /\ side # Absent /\ side.bound # Absent =>
          side.bound \in Ids /\ receipts[side.bound].kind # "disposition"
    /\ row # Absent /\ row.kept # Absent =>
          row.kept \in Ids /\ receipts[row.kept].kind = "terminal"

\* The steps to go of each operation.
ObjectOn == <<"object">>
SideOn == <<"side", "object">>
RowOn == <<"row", "side", "object">>
ReceiptOn == <<"receipt", "row", "side", "object">>
BookOn == <<"book", "receipt", "row", "side", "object">>
PublishOn == <<"publish", "book", "receipt", "row", "side", "object">>
BuildOn == <<"build", "publish", "book", "receipt", "row", "side", "object">>

StateOn == <<"state", "side", "object">>
ReconciledOn == <<"receipt", "state", "side", "object">>
BookedOn == <<"book", "receipt", "state", "side", "object">>
PublishedOn == <<"publish", "book", "receipt", "state", "side", "object">>
BuiltOn == <<"build", "publish", "book", "receipt", "state", "side", "object">>

RewriteOn == <<"rewrite", "save">>
SaveOn == <<"save">>
UndoOn == <<"undo">>
DisposeOn == <<"dispose", "note">>
NoteOn == <<"note">>
SideOnly == <<"side">>

StepsLeft(call) ==
    CASE call = "archive" ->
           {BuildOn, PublishOn, BookOn, ReceiptOn, RowOn, SideOn, ObjectOn}
      [] call = "reuse" -> {RowOn, SideOn, ObjectOn}
      [] call = "reconcile" ->
           {BuiltOn, PublishedOn, BookedOn, ReconciledOn, StateOn, SideOn, ObjectOn}
      [] call = "resume" -> {SideOnly}
      [] call = "repair" -> {RewriteOn, SaveOn, UndoOn}
      [] call = "disposition" -> {DisposeOn, NoteOn}

Operations == {"archive", "reuse", "reconcile", "resume", "repair", "disposition"}

\* A job is a record whose steps are some of its operation's.
JobRecord(j) ==
    /\ j \in [op : Operations, seen : {j.seen}, todo : {j.todo},
              archive : Contents \cup {Absent}, id : Nat \cup {Absent}]
    /\ j.todo \in StepsLeft(j.op)

\* The evidence a job goes by.
EvidenceFits(j) ==
    /\ j.op = "archive" => EligibleEvidence(j.seen)
    /\ j.op \in {"archive", "reuse", "reconcile", "resume"} =>
          /\ SnapshotOf(j).side \in Sidecars \cup {Absent}
          /\ SnapshotOf(j).ident \in Identities
    /\ j.op = "disposition" => j.seen.side \in Sidecars /\ j.seen.disp \in Dispositions
    /\ j.op = "repair" =>
          /\ object # Absent /\ j.seen \in Objects /\ j.seen.ident # Absent
          /\ j.seen.life = object.life /\ j.seen.stale = object.stale

\* What a job has done by the step it has come to.
ProgressFits(j) ==
    LET h == Head(j.todo) IN
    /\ h \in {"publish", "book"} => j.archive \in Contents
    /\ h = "receipt" /\ j.op = "archive" =>
          j.archive \in booked /\ j.archive = j.seen.preview
    /\ h = "receipt" /\ j.op = "reconcile" => ArchivedAsSeen(j.seen, j.archive)
    /\ h \in {"row", "state", "side", "object"} =>
          /\ j.id \in Ids
          /\ receipts[j.id].kind = IF j.op \in {"archive", "reuse"} THEN "terminal"
                                   ELSE "reconciled"
    /\ h \in {"side", "object"} /\ j.op \in {"archive", "reuse"} =>
          row # Absent /\ row.life = CleanupCandidate /\ row.kept = j.id
    /\ h = "object" => side # Absent /\ side.life = CleanupCandidate /\ side.bound = j.id

JobFits ==
    job # Absent =>
        /\ up /\ ~busy /\ (job.op # "disposition" => answered = Absent)
        /\ JobRecord(job) /\ EvidenceFits(job) /\ ProgressFits(job)

\* Until a reconciliation has been recorded, a session that some record calls
\* active is active in all of them, and no call but a reconciliation is at work.
NotReconciled == \A i \in Ids : receipts[i].kind # "reconciled"
SomeActive == \E v \in {side, row, object} : v # Absent /\ v.life = "active"

ActiveFits ==
    NotReconciled /\ SomeActive =>
        /\ \A v \in {side, row, object} : v # Absent => v.life = "active"
        /\ row # Absent
        /\ \A i \in Ids : receipts[i].kind # "terminal"
        /\ job # Absent => job.op = "reconcile"

EvidenceInv ==
    /\ StoreFits /\ RecordsFit /\ ReceiptsFit /\ DecidedFits /\ JobFits
    /\ LiveIsNotTerminal /\ AnsweredIsRecorded /\ ActiveFits /\ ImportIsWhole

\* A disposition that a preflight has recorded is an accepted one.
PlanFits == plan # Absent /\ plan.op = "disposition" => plan.disp \in Dispositions

\* What is left of a job after its step: the same job, come to the step h.
Onward(j, h) ==
    /\ Rest(j) = [j EXCEPT !.todo = Tail(@)] /\ JobRecord(Rest(j)) /\ Head(Rest(j).todo) = h
    /\ Rest(j).op = j.op /\ Rest(j).seen = j.seen
    /\ Rest(j).archive = j.archive /\ Rest(j).id = j.id

LEMMA OneStepOn ==
    ASSUME NEW j, JobRecord(j), NEW h,
           Len(j.todo) # 1, Tail(j.todo) \in StepsLeft(j.op), Head(Tail(j.todo)) = h
    PROVE  Onward(j, h)
  <1> DEFINE f == [j EXCEPT !.todo = Tail(@)]
  <1>1. /\ f.op = j.op /\ f.seen = j.seen /\ f.todo = Tail(j.todo)
        /\ f.archive = j.archive /\ f.id = j.id
        /\ f \in [op : Operations, seen : {f.seen}, todo : {f.todo},
                  archive : Contents \cup {Absent}, id : Nat \cup {Absent}]
    BY DEF JobRecord
  <1>2. Rest(j) = f
    BY DEF Rest
  <1> HIDE DEF f
  <1> QED BY <1>1, <1>2 DEF Onward, JobRecord

\* One step after the other.
LEMMA Tails ==
    /\ Head(ObjectOn) = "object" /\ Len(ObjectOn) = 1
    /\ Head(SideOn) = "side" /\ Len(SideOn) # 1 /\ Tail(SideOn) = ObjectOn
    /\ Head(RowOn) = "row" /\ Len(RowOn) # 1 /\ Tail(RowOn) = SideOn
    /\ Head(ReceiptOn) = "receipt" /\ Len(ReceiptOn) # 1 /\ Tail(ReceiptOn) = RowOn
    /\ Head(BookOn) = "book" /\ Len(BookOn) # 1 /\ Tail(BookOn) = ReceiptOn
    /\ Head(PublishOn) = "publish" /\ Len(PublishOn) # 1 /\ Tail(PublishOn) = BookOn
    /\ Head(BuildOn) = "build" /\ Len(BuildOn) # 1 /\ Tail(BuildOn) = PublishOn
    /\ Head(StateOn) = "state" /\ Len(StateOn) # 1 /\ Tail(StateOn) = SideOn
    /\ Head(ReconciledOn) = "receipt" /\ Len(ReconciledOn) # 1 /\ Tail(ReconciledOn) = StateOn
    /\ Head(BookedOn) = "book" /\ Len(BookedOn) # 1 /\ Tail(BookedOn) = ReconciledOn
    /\ Head(PublishedOn) = "publish" /\ Len(PublishedOn) # 1 /\ Tail(PublishedOn) = BookedOn
    /\ Head(BuiltOn) = "build" /\ Len(BuiltOn) # 1 /\ Tail(BuiltOn) = PublishedOn
    /\ Head(RewriteOn) = "rewrite" /\ Len(RewriteOn) # 1 /\ Tail(RewriteOn) = SaveOn
    /\ Head(DisposeOn) = "dispose" /\ Len(DisposeOn) # 1 /\ Tail(DisposeOn) = NoteOn
    /\ Head(SaveOn) = "save" /\ Len(SaveOn) = 1
    /\ Head(UndoOn) = "undo" /\ Len(UndoOn) = 1
    /\ Head(NoteOn) = "note" /\ Len(NoteOn) = 1
    /\ Head(SideOnly) = "side" /\ Len(SideOnly) = 1
  <1>1. Head(ObjectOn) = "object" /\ Len(ObjectOn) = 1
    BY DEF ObjectOn
  <1>2. Head(SideOn) = "side" /\ Len(SideOn) # 1 /\ Tail(SideOn) = ObjectOn
    BY DEF ObjectOn, SideOn
  <1>3. Head(RowOn) = "row" /\ Len(RowOn) # 1 /\ Tail(RowOn) = SideOn
    BY DEF RowOn, SideOn
  <1>4. Head(ReceiptOn) = "receipt" /\ Len(ReceiptOn) # 1 /\ Tail(ReceiptOn) = RowOn
    BY DEF ReceiptOn, RowOn
  <1>5. Head(BookOn) = "book" /\ Len(BookOn) # 1 /\ Tail(BookOn) = ReceiptOn
    BY DEF BookOn, ReceiptOn
  <1>6. Head(PublishOn) = "publish" /\ Len(PublishOn) # 1 /\ Tail(PublishOn) = BookOn
    BY DEF BookOn, PublishOn
  <1>7. Head(BuildOn) = "build" /\ Len(BuildOn) # 1 /\ Tail(BuildOn) = PublishOn
    BY DEF BuildOn, PublishOn
  <1>8. Head(StateOn) = "state" /\ Len(StateOn) # 1 /\ Tail(StateOn) = SideOn
    BY DEF SideOn, StateOn
  <1>9. Head(ReconciledOn) = "receipt" /\ Len(ReconciledOn) # 1 /\ Tail(ReconciledOn) = StateOn
    BY DEF ReconciledOn, StateOn
  <1>10. Head(BookedOn) = "book" /\ Len(BookedOn) # 1 /\ Tail(BookedOn) = ReconciledOn
    BY DEF BookedOn, ReconciledOn
  <1>11. Head(PublishedOn) = "publish" /\ Len(PublishedOn) # 1 /\ Tail(PublishedOn) = BookedOn
    BY DEF BookedOn, PublishedOn
  <1>12. Head(BuiltOn) = "build" /\ Len(BuiltOn) # 1 /\ Tail(BuiltOn) = PublishedOn
    BY DEF BuiltOn, PublishedOn
  <1>13. Head(RewriteOn) = "rewrite" /\ Len(RewriteOn) # 1 /\ Tail(RewriteOn) = SaveOn
    BY DEF RewriteOn, SaveOn
  <1>14. Head(DisposeOn) = "dispose" /\ Len(DisposeOn) # 1 /\ Tail(DisposeOn) = NoteOn
    BY DEF DisposeOn, NoteOn
  <1>15. Head(SaveOn) = "save" /\ Len(SaveOn) = 1
    BY DEF SaveOn
  <1>16. Head(UndoOn) = "undo" /\ Len(UndoOn) = 1
    BY DEF UndoOn
  <1>17. Head(NoteOn) = "note" /\ Len(NoteOn) = 1
    BY DEF NoteOn
  <1>18. Head(SideOnly) = "side" /\ Len(SideOnly) = 1
    BY DEF SideOnly
  <1> QED
    BY <1>1, <1>2, <1>3, <1>4, <1>5, <1>6, <1>7, <1>8, <1>9, <1>10, <1>11, <1>12, <1>13, <1>14, <1>15, <1>16, <1>17, <1>18

\* The steps of an archival and of the repetition of its result.
LEMMA ArchiveOrder ==
    ASSUME NEW j, JobRecord(j), j.op \in {"archive", "reuse"}
    PROVE  LET h == Head(j.todo) IN
           \/ h = "build" /\ j.op = "archive" /\ Onward(j, "publish")
           \/ h = "publish" /\ j.op = "archive" /\ Onward(j, "book")
           \/ h = "book" /\ j.op = "archive" /\ Onward(j, "receipt")
           \/ h = "receipt" /\ j.op = "archive" /\ Onward(j, "row")
           \/ h = "row" /\ Onward(j, "side")
           \/ h = "side" /\ Onward(j, "object")
           \/ h = "object" /\ Rest(j) = Absent
  <1>1. CASE j.todo = ObjectOn
    BY <1>1, Tails DEF Rest
  <1>2. CASE j.todo = SideOn
    <2>1. Len(j.todo) # 1 /\ Head(Tail(j.todo)) = "object"
      BY <1>2, Tails
    <2>2. Tail(j.todo) \in StepsLeft(j.op)
      BY <1>2, Tails DEF StepsLeft
    <2>3. Onward(j, "object")
      BY <2>1, <2>2, OneStepOn
    <2> QED BY <1>2, <2>3, Tails
  <1>3. CASE j.todo = RowOn
    <2>1. Len(j.todo) # 1 /\ Head(Tail(j.todo)) = "side"
      BY <1>3, Tails
    <2>2. Tail(j.todo) \in StepsLeft(j.op)
      BY <1>3, Tails DEF StepsLeft
    <2>3. Onward(j, "side")
      BY <2>1, <2>2, OneStepOn
    <2> QED BY <1>3, <2>3, Tails
  <1>4. CASE j.op = "archive" /\ j.todo = ReceiptOn
    <2>1. Len(j.todo) # 1 /\ Head(Tail(j.todo)) = "row"
      BY <1>4, Tails
    <2>2. Tail(j.todo) \in StepsLeft(j.op)
      BY <1>4, Tails DEF StepsLeft
    <2>3. Onward(j, "row")
      BY <2>1, <2>2, OneStepOn
    <2> QED BY <1>4, <2>3, Tails
  <1>5. CASE j.op = "archive" /\ j.todo = BookOn
    <2>1. Len(j.todo) # 1 /\ Head(Tail(j.todo)) = "receipt"
      BY <1>5, Tails
    <2>2. Tail(j.todo) \in StepsLeft(j.op)
      BY <1>5, Tails DEF StepsLeft
    <2>3. Onward(j, "receipt")
      BY <2>1, <2>2, OneStepOn
    <2> QED BY <1>5, <2>3, Tails
  <1>6. CASE j.op = "archive" /\ j.todo = PublishOn
    <2>1. Len(j.todo) # 1 /\ Head(Tail(j.todo)) = "book"
      BY <1>6, Tails
    <2>2. Tail(j.todo) \in StepsLeft(j.op)
      BY <1>6, Tails DEF StepsLeft
    <2>3. Onward(j, "book")
      BY <2>1, <2>2, OneStepOn
    <2> QED BY <1>6, <2>3, Tails
  <1>7. CASE j.op = "archive" /\ j.todo = BuildOn
    <2>1. Len(j.todo) # 1 /\ Head(Tail(j.todo)) = "publish"
      BY <1>7, Tails
    <2>2. Tail(j.todo) \in StepsLeft(j.op)
      BY <1>7, Tails DEF StepsLeft
    <2>3. Onward(j, "publish")
      BY <2>1, <2>2, OneStepOn
    <2> QED BY <1>7, <2>3, Tails
  <1> QED
    BY <1>1, <1>2, <1>3, <1>4, <1>5, <1>6, <1>7 DEF JobRecord, StepsLeft

\* The steps of a reconciliation and of one that is taken up again.
LEMMA ReconcileOrder ==
    ASSUME NEW j, JobRecord(j), j.op \in {"reconcile", "resume"}
    PROVE  LET h == Head(j.todo) IN
           \/ h = "build" /\ j.op = "reconcile" /\ Onward(j, "publish")
           \/ h = "publish" /\ j.op = "reconcile" /\ Onward(j, "book")
           \/ h = "book" /\ j.op = "reconcile" /\ Onward(j, "receipt")
           \/ h = "receipt" /\ j.op = "reconcile" /\ Onward(j, "state")
           \/ h = "state" /\ j.op = "reconcile" /\ Onward(j, "side")
           \/ h = "side" /\ j.op = "reconcile" /\ Onward(j, "object")
           \/ h = "object" /\ j.op = "reconcile" /\ Rest(j) = Absent
           \/ h = "side" /\ j.op = "resume" /\ Rest(j) = Absent
  <1>1. CASE j.op = "reconcile" /\ j.todo = ObjectOn
    BY <1>1, Tails DEF Rest
  <1>2. CASE j.op = "reconcile" /\ j.todo = SideOn
    <2>1. Len(j.todo) # 1 /\ Head(Tail(j.todo)) = "object"
      BY <1>2, Tails
    <2>2. Tail(j.todo) \in StepsLeft(j.op)
      BY <1>2, Tails DEF StepsLeft
    <2>3. Onward(j, "object")
      BY <2>1, <2>2, OneStepOn
    <2> QED BY <1>2, <2>3, Tails
  <1>3. CASE j.op = "reconcile" /\ j.todo = StateOn
    <2>1. Len(j.todo) # 1 /\ Head(Tail(j.todo)) = "side"
      BY <1>3, Tails
    <2>2. Tail(j.todo) \in StepsLeft(j.op)
      BY <1>3, Tails DEF StepsLeft
    <2>3. Onward(j, "side")
      BY <2>1, <2>2, OneStepOn
    <2> QED BY <1>3, <2>3, Tails
  <1>4. CASE j.op = "reconcile" /\ j.todo = ReconciledOn
    <2>1. Len(j.todo) # 1 /\ Head(Tail(j.todo)) = "state"
      BY <1>4, Tails
    <2>2. Tail(j.todo) \in StepsLeft(j.op)
      BY <1>4, Tails DEF StepsLeft
    <2>3. Onward(j, "state")
      BY <2>1, <2>2, OneStepOn
    <2> QED BY <1>4, <2>3, Tails
  <1>5. CASE j.op = "reconcile" /\ j.todo = BookedOn
    <2>1. Len(j.todo) # 1 /\ Head(Tail(j.todo)) = "receipt"
      BY <1>5, Tails
    <2>2. Tail(j.todo) \in StepsLeft(j.op)
      BY <1>5, Tails DEF StepsLeft
    <2>3. Onward(j, "receipt")
      BY <2>1, <2>2, OneStepOn
    <2> QED BY <1>5, <2>3, Tails
  <1>6. CASE j.op = "reconcile" /\ j.todo = PublishedOn
    <2>1. Len(j.todo) # 1 /\ Head(Tail(j.todo)) = "book"
      BY <1>6, Tails
    <2>2. Tail(j.todo) \in StepsLeft(j.op)
      BY <1>6, Tails DEF StepsLeft
    <2>3. Onward(j, "book")
      BY <2>1, <2>2, OneStepOn
    <2> QED BY <1>6, <2>3, Tails
  <1>7. CASE j.op = "reconcile" /\ j.todo = BuiltOn
    <2>1. Len(j.todo) # 1 /\ Head(Tail(j.todo)) = "publish"
      BY <1>7, Tails
    <2>2. Tail(j.todo) \in StepsLeft(j.op)
      BY <1>7, Tails DEF StepsLeft
    <2>3. Onward(j, "publish")
      BY <2>1, <2>2, OneStepOn
    <2> QED BY <1>7, <2>3, Tails
  <1>8. CASE j.op = "resume" /\ j.todo = SideOnly
    BY <1>8, Tails DEF Rest
  <1> QED
    BY <1>1, <1>2, <1>3, <1>4, <1>5, <1>6, <1>7, <1>8 DEF JobRecord, StepsLeft

\* The steps of a repair and of a disposition.
LEMMA ShortOrder ==
    ASSUME NEW j, JobRecord(j), j.op \in {"repair", "disposition"}
    PROVE  LET h == Head(j.todo) IN
           \/ h = "rewrite" /\ j.op = "repair" /\ Onward(j, "save")
           \/ h \in {"save", "undo"} /\ j.op = "repair" /\ Rest(j) = Absent
           \/ h = "dispose" /\ j.op = "disposition" /\ Onward(j, "note")
           \/ h = "note" /\ j.op = "disposition" /\ Rest(j) = Absent
  <1>1. CASE j.op = "repair" /\ j.todo = RewriteOn
    <2>1. Len(j.todo) # 1 /\ Head(Tail(j.todo)) = "save"
      BY <1>1, Tails
    <2>2. Tail(j.todo) \in StepsLeft(j.op)
      BY <1>1, Tails DEF StepsLeft
    <2>3. Onward(j, "save")
      BY <2>1, <2>2, OneStepOn
    <2> QED BY <1>1, <2>3, Tails
  <1>2. CASE j.op = "repair" /\ j.todo = SaveOn
    BY <1>2, Tails DEF Rest
  <1>3. CASE j.op = "repair" /\ j.todo = UndoOn
    BY <1>3, Tails DEF Rest
  <1>4. CASE j.op = "disposition" /\ j.todo = DisposeOn
    <2>1. Len(j.todo) # 1 /\ Head(Tail(j.todo)) = "note"
      BY <1>4, Tails
    <2>2. Tail(j.todo) \in StepsLeft(j.op)
      BY <1>4, Tails DEF StepsLeft
    <2>3. Onward(j, "note")
      BY <2>1, <2>2, OneStepOn
    <2> QED BY <1>4, <2>3, Tails
  <1>5. CASE j.op = "disposition" /\ j.todo = NoteOn
    BY <1>5, Tails DEF Rest
  <1> QED
    BY <1>1, <1>2, <1>3, <1>4, <1>5 DEF JobRecord, StepsLeft

-----------------------------------------------------------------------------
(* A step that changes neither the records and receipts nor the call at work *)

LEMMA ShapesAreThere ==
    /\ Absent \notin Contents /\ Absent # Spoilt /\ Spoilt \notin Contents /\ 0 \in Contents
    /\ Absent \notin Nat
  BY AbsentAssumption, BoundsAssumption DEF Contents, Spoilt

LEMMA EvidenceInit == MaintenanceInit => EvidenceInv
  <1> SUFFICES ASSUME MaintenanceInit PROVE EvidenceInv
    OBVIOUS
  <1>1. receipts = <<>> /\ Ids = {} /\ job = Absent /\ answered = Absent /\ imports = FALSE
    BY DEF MaintenanceInit, Ids
  <1>2. StoreFits
    BY <1>1, ShapesAreThere DEF MaintenanceInit, StoreFits, ArchivesHold
  <1>3. CASE /\ side = SidecarOf(Retired) /\ row \in {Absent, RowOf(Retired)}
             /\ object = Retired /\ busy = FALSE
    <2>1. /\ side \in Sidecars /\ side.life = "suspended" /\ side.stale = TRUE
          /\ side.bound = Absent
      BY <1>3 DEF SidecarOf, Retired, Session, Sidecars, Lives, Identities, Origins
    <2> DEFINE r == RowOf(Retired)
    <2>r. r \in SessionRows /\ r.life = "suspended" /\ r.stale = TRUE /\ r.kept = Absent
      BY DEF RowOf, Retired, Session, SessionRows, Lives, Identities, Origins
    <2>2. row # Absent => /\ row \in SessionRows /\ row.life = "suspended"
                          /\ row.stale = TRUE /\ row.kept = Absent
      <3> row \in {Absent, r}
        BY <1>3
      <3> HIDE DEF r
      <3> QED BY <2>r
    <2> HIDE DEF r
    <2>3. object \in Objects /\ object.life = "suspended" /\ object.stale = TRUE
      BY <1>3 DEF Retired, Session, Objects, Lives, Identities, Origins
    <2>4. RecordsFit
      BY <2>1, <2>2, <2>3 DEF RecordsFit, Consistent
    <2>5. DecidedFits /\ ActiveFits
      BY <2>1, <2>2, <2>3 DEF DecidedFits, ActiveFits, SomeActive, CleanupCandidate
    <2> QED
      BY <1>1, <1>2, <1>3, <2>4, <2>5
         DEF EvidenceInv, ReceiptsFit, JobFits, LiveIsNotTerminal, AnsweredIsRecorded,
             ImportIsWhole
  <1>4. CASE /\ LET s == Session("active", FALSE, origin)
                IN  side = SidecarOf(s) /\ row = RowOf(s) /\ object = s
             /\ busy = TRUE
    <2>0. origin \in Identities
      BY DEF MaintenanceInit, Identities
    <2>1. /\ side \in Sidecars /\ side.life = "active" /\ side.stale = FALSE
          /\ side.bound = Absent /\ side.ident = origin
      BY <1>4, <2>0 DEF SidecarOf, Session, Sidecars, Lives, Identities
    <2>2. /\ row \in SessionRows /\ row.life = "active" /\ row.stale = FALSE
          /\ row.kept = Absent /\ row.ident = origin
      BY <1>4, <2>0 DEF RowOf, Session, SessionRows, Lives, Identities
    <2>3. /\ object \in Objects /\ object.life = "active" /\ object.stale = FALSE
          /\ object.ident = origin
      BY <1>4, <2>0 DEF Session, Objects, Lives, Identities
    <2>4. origin # Absent
      BY AbsentAssumption DEF MaintenanceInit, Origins
    <2>5. RecordsFit
      BY <2>1, <2>2, <2>3, <2>4 DEF RecordsFit, Consistent
    <2>6. DecidedFits /\ LiveIsNotTerminal
      BY <2>1, <2>2, <2>3 DEF DecidedFits, CleanupCandidate, LiveIsNotTerminal
    <2>7. ActiveFits
      BY <1>1, <2>1, <2>2, <2>3, RecordAssumption DEF ActiveFits
    <2> QED
      BY <1>1, <1>2, <2>5, <2>6, <2>7
         DEF EvidenceInv, ReceiptsFit, JobFits, AnsweredIsRecorded, ImportIsWhole
  <1>5. CASE side = Absent /\ row = Absent /\ object = Absent /\ busy = FALSE
    <2>1. RecordsFit /\ DecidedFits /\ ActiveFits /\ LiveIsNotTerminal
      BY <1>5 DEF RecordsFit, Consistent, DecidedFits, ActiveFits, SomeActive,
                  LiveIsNotTerminal
    <2> QED
      BY <1>1, <1>2, <2>1
         DEF EvidenceInv, ReceiptsFit, JobFits, AnsweredIsRecorded, ImportIsWhole
  <1> QED BY <1>3, <1>4, <1>5 DEF MaintenanceInit

LEMMA QuietKeeps ==
    ASSUME EvidenceInv, StoreFits', ImportIsWhole', busy' => busy,
           UNCHANGED <<booked, job, side, row, object, receipts, answered, up>>
    PROVE  EvidenceInv'
  <1>1. RecordsFit'
    BY DEF EvidenceInv, RecordsFit, Consistent
  <1>2. ReceiptsFit'
    BY DEF EvidenceInv, ReceiptsFit, ReceiptFits, Ids, ArchivedAsSeen, EligibleEvidence
  <1>3. DecidedFits'
    BY DEF EvidenceInv, DecidedFits, Decided, Ids
  <1>4. ~busy' \/ job = Absent
    BY DEF EvidenceInv, JobFits
  <1>5. JobFits'
    BY <1>4 DEF EvidenceInv, JobFits, EvidenceFits, ProgressFits, ArchivedAsSeen, Ids
  <1>6. LiveIsNotTerminal' /\ AnsweredIsRecorded'
    BY DEF EvidenceInv, LiveIsNotTerminal, AnsweredIsRecorded
  <1>7. ActiveFits'
    BY DEF EvidenceInv, ActiveFits, NotReconciled, SomeActive, Ids
  <1> QED BY <1>1, <1>2, <1>3, <1>5, <1>6, <1>7 DEF EvidenceInv

\* The preflights, the requests and the answers without an effect, and the world
\* as far as it leaves the records alone.
QuietActions ==
    \/ \E call \in {"repair", "disposition", "archive", "reconcile"} : Preflight(call)
    \/ PreflightAdoption \/ PreflightImport \/ RequestAttach \/ ExecuteAdoption
    \/ Answer(answered)
    \/ /\ \/ \E c \in Contents : Edit(c)
          \/ LoseTree
          \/ \E a \in Contents : SpoilArchive(a)
       /\ UNCHANGED <<evidence, calls, rest>>
    \/ Expire \/ Remount \/ SourceChanges \/ TaskTaken

LEMMA QuietHandlers ==
    ASSUME EvidenceInv, QuietActions
    PROVE  EvidenceInv'
  <1>0. StoreFits /\ ImportIsWhole
    BY DEF EvidenceInv
  <1>1. UNCHANGED <<booked, job, side, row, object, receipts, answered, up>>
    BY DEF QuietActions, Preflight, PreflightAdoption, PreflightImport, RequestAttach,
           ExecuteAdoption, Answer, Edit, LoseTree, SpoilArchive, Expire, Remount,
           SourceChanges, TaskTaken, archives, evidence, records, calls, rest, import
  <1>2. (busy' => busy) /\ busy' \in BOOLEAN /\ expired' \in BOOLEAN /\ heir' \in BOOLEAN
    <2>1. \/ UNCHANGED standing
          \/ busy' = FALSE /\ expired' = TRUE /\ heir' = heir
      BY DEF QuietActions, Preflight, PreflightAdoption, PreflightImport, RequestAttach,
             ExecuteAdoption, Expire, Answer, Edit, LoseTree, SpoilArchive, Remount,
             SourceChanges, TaskTaken, archives, evidence, standing, calls, rest, import
    <2>2. busy' => busy
      BY <2>1 DEF standing
    <2>3. busy' \in BOOLEAN /\ expired' \in BOOLEAN /\ heir' \in BOOLEAN
      BY <1>0, <2>1 DEF StoreFits, standing
    <2> QED BY <2>2, <2>3
  <1>3. imports' = imports /\ approved' \in BOOLEAN
    BY <1>0 DEF QuietActions, Preflight, PreflightAdoption, PreflightImport, RequestAttach,
           ExecuteAdoption, Answer, Edit, LoseTree, SpoilArchive, Expire, Remount,
           SourceChanges, TaskTaken, archives, evidence, calls, rest, import, StoreFits
  <1>4. adopted' \subseteq Contents /\ origin' \in Origins
    BY <1>0 DEF QuietActions, Preflight, PreflightAdoption, PreflightImport, RequestAttach,
           ExecuteAdoption, Executes, Adoptable, Adoption, Answer, Edit, LoseTree,
           SpoilArchive, Expire, Remount, SourceChanges, TaskTaken, archives, evidence,
           calls, rest, import, StoreFits
  <1>5. tree' \in Contents \cup {Absent}
    BY <1>0 DEF QuietActions, Preflight, PreflightAdoption, PreflightImport, RequestAttach,
           ExecuteAdoption, Answer, Edit, LoseTree, SpoilArchive, Expire, Remount,
           SourceChanges, TaskTaken, archives, evidence, calls, rest, import, StoreFits
  <1>6. /\ filed' \in [Contents -> Contents \cup {Absent, Spoilt}]
        /\ \A a \in Contents : filed'[a] = filed[a] \/ filed'[a] = Spoilt
    <2>1. filed' = filed \/ \E a \in Contents : SpoilArchive(a)
      BY DEF QuietActions, Preflight, PreflightAdoption, PreflightImport, RequestAttach,
             ExecuteAdoption, Answer, Edit, LoseTree, Expire, Remount,
             SourceChanges, TaskTaken, archives
    <2> QED BY <1>0, <2>1 DEF SpoilArchive, StoreFits
  <1>7. ArchivesHold'
    BY <1>0, <1>1, <1>6, ShapesAreThere DEF ArchivesHold, StoreFits
  <1>8. StoreFits'
    BY <1>0, <1>1, <1>2, <1>3, <1>4, <1>5, <1>6, <1>7 DEF StoreFits, Recorded, Ids
  <1>9. ImportIsWhole'
    <2>1. taskRow' = taskRow \/ taskRow = Absent
      BY DEF QuietActions, Preflight, PreflightAdoption, PreflightImport, RequestAttach,
             ExecuteAdoption, Answer, Edit, LoseTree, SpoilArchive, Expire, Remount,
             SourceChanges, TaskTaken, archives, calls, rest, import
    <2> QED BY <1>0, <1>1, <1>3, <2>1, TaskAssumption DEF ImportIsWhole
  <1> QED BY <1>1, <1>2, <1>8, <1>9, QuietKeeps

-----------------------------------------------------------------------------
(* The executions that begin.                                               *)

\* A non-empty set of receipts has a latest.
LEMMA LatestIsOne ==
    ASSUME StoreFits, NEW S, S \subseteq Ids, S # {}
    PROVE  Latest(S) \in S
  <1> DEFINE n == Len(receipts)
             T == {n - k : k \in S}
  <1>1. n \in Nat /\ S \subseteq 1..n
    BY DEF StoreFits, Ids
  <1> HIDE DEF n
  <1>2. T \subseteq Nat /\ T # {}
    <2>1. ASSUME NEW k \in S PROVE n - k \in Nat
      <3>1. k \in 1..n
        BY <1>1
      <3>2. k \in Int /\ k <= n
        BY <3>1
      <3> QED BY <1>1, <3>2
    <2> QED BY <2>1
  <1>3. PICK x \in T : \A y \in T : ~(<<y, x>> \in OpToRel(<, Nat))
    BY <1>2, NatLessThanWellFounded, WFMin
  <1>4. PICK i \in S : x = n - i
    OBVIOUS
  <1>5. ASSUME NEW k \in S PROVE k <= i
    <2>1. n - k \in T /\ n - k \in Nat /\ n - i \in Nat
      BY <1>2, <1>4
    <2>2. ~(n - k < n - i)
      BY <1>2, <1>3, <1>4, <2>1 DEF OpToRel
    <2>3. k \in Int /\ i \in Int
      BY <1>1
    <2> QED BY <1>1, <2>2, <2>3
  <1> QED BY <1>5 DEF Latest

\* The observation has the form of one, and shows the state as it is.
LEMMA ObservationFits ==
    ASSUME StoreFits, RecordsFit, Known # Absent
    PROVE  /\ Observation \in Observations
           /\ Observation.life = Known.life /\ Observation.tree = tree
           /\ Observation.busy = busy /\ Observation.current = origin
           /\ Observation.stored = ObservedIdentity /\ Observation.live = LiveSession
           /\ Observation.stale = Known.stale /\ Observation.expired = expired
           /\ Observation.conflicts = Conflicts
           /\ Observation.disp = IF side # Absent THEN side.disp ELSE Absent
  <1>1. Known.life \in Lives /\ Known.stale \in BOOLEAN
    BY DEF Known, First, RecordsFit, Sidecars, SessionRows, Objects
  <1>2. ObservedIdentity \in Identities
    BY DEF ObservedIdentity, RecordsFit, Sidecars, SessionRows, Objects, Identities
  <1>3. (IF side # Absent THEN side.disp ELSE Absent) \in Dispositions \cup {Absent}
    BY DEF RecordsFit, Sidecars
  <1>4. LiveSession \in BOOLEAN /\ Conflicts \in BOOLEAN
    BY DEF LiveSession, Conflicts
  <1>5. /\ expired \in BOOLEAN /\ busy \in BOOLEAN /\ origin \in Origins
        /\ tree \in Contents \cup {Absent}
    BY DEF StoreFits
  <1> QED BY <1>1, <1>2, <1>3, <1>4, <1>5 DEF Observation, Observations

\* A session that some record, the first that is there, does not call active.
LEMMA NotActive ==
    ASSUME ActiveFits, Known # Absent, Known.life # "active"
    PROVE  ~(NotReconciled /\ SomeActive)
  <1>1. Known \in {side, row, object}
    BY DEF Known, First
  <1> QED BY <1>1 DEF ActiveFits

LEMMA BeginKeeps ==
    ASSUME EvidenceInv, NEW j, BetweenCalls, Begin(j), ~busy,
           UNCHANGED <<origin, side, row, standing, receipts>>,
           RecordsFit',
           \/ object' = object
           \/ object # Absent /\ object' # Absent /\ object'.life = object.life,
           JobRecord(j), EvidenceFits(j)', ProgressFits(j),
           j.op = "reconcile" \/ ~(NotReconciled /\ SomeActive)
    PROVE  EvidenceInv'
  <1>0. UNCHANGED <<tree, filed, booked, origin, side, row, busy, expired, heir, receipts,
                    approved, adopted, source, taskRow, imports, up>>
    BY DEF Begin, archives, standing, rest, import
  <1>1. job' = j /\ up /\ answered' \in {answered, Absent}
        /\ (j.op # "disposition" => answered' = Absent)
    BY DEF Begin, BetweenCalls
  <1>2. StoreFits'
    BY <1>0, <1>1 DEF EvidenceInv, StoreFits, ArchivesHold, Recorded, Ids
  <1>3. ReceiptsFit'
    BY <1>0 DEF EvidenceInv, ReceiptsFit, ReceiptFits, Ids, ArchivedAsSeen, EligibleEvidence
  <1>4. DecidedFits'
    BY <1>0 DEF EvidenceInv, DecidedFits, Decided, Ids
  <1>5. JobFits'
    <2>1. ProgressFits(j)'
      BY <1>0 DEF ProgressFits, ArchivedAsSeen, Ids
    <2> QED BY <1>0, <1>1, <2>1 DEF JobFits
  <1>6. LiveIsNotTerminal' /\ ImportIsWhole'
    BY <1>0 DEF EvidenceInv, LiveIsNotTerminal, ImportIsWhole
  <1>7. AnsweredIsRecorded'
    BY <1>0, <1>1 DEF EvidenceInv, AnsweredIsRecorded
  <1>8. NotReconciled' <=> NotReconciled
    BY <1>0 DEF NotReconciled, Ids
  <1>9. SomeActive' => SomeActive
    BY <1>0 DEF SomeActive
  <1>10. ActiveFits'
    BY <1>0, <1>1, <1>8, <1>9 DEF EvidenceInv, ActiveFits, SomeActive, Ids
  <1> QED BY <1>2, <1>3, <1>4, <1>5, <1>6, <1>7, <1>10 DEF EvidenceInv

\* A job as an execution makes it.
LEMMA JobOf ==
    ASSUME NEW call \in Operations, NEW seen, NEW todo \in StepsLeft(call),
           NEW i \in Nat \cup {Absent}
    PROVE  LET j == [Doing(call, seen, todo) EXCEPT !.id = i]
           IN  /\ JobRecord(j) /\ j.op = call /\ j.seen = seen /\ j.todo = todo
               /\ j.archive = Absent /\ j.id = i
  BY DEF JobRecord, Doing

LEMMA DoingIs ==
    ASSUME NEW call, NEW seen, NEW todo
    PROVE  [Doing(call, seen, todo) EXCEPT !.id = Absent] = Doing(call, seen, todo)
  BY DEF Doing

LEMMA RepairStep ==
    ASSUME EvidenceInv, ExecuteRepair
    PROVE  EvidenceInv'
  <1> DEFINE todo == <<"rewrite", "save">>
  <1>0. StoreFits /\ RecordsFit /\ ActiveFits
    BY DEF EvidenceInv
  <1>1. PICK j : j = Doing("repair", object, todo)
    OBVIOUS
  <1>2. BetweenCalls /\ Begin(j) /\ UNCHANGED <<origin, side, row, standing, receipts>>
    BY <1>1 DEF ExecuteRepair, Executes
  <1>3. object \in Objects /\ object # Absent
    BY <1>0 DEF ExecuteRepair, RecordsFit
  <1>4. Known # Absent
    BY <1>3 DEF Known, First
  <1>5. Repairable(Observation) /\ object.ident = Observation.stored
    BY DEF ExecuteRepair
  <1>6. ~busy /\ object.ident # Absent /\ Known.life # "active"
    BY <1>0, <1>4, <1>5, ObservationFits, Zenon DEF Repairable, AtRest, Retainable, CleanupCandidate
  <1>7. /\ JobRecord(j) /\ j.op = "repair" /\ j.seen = object /\ j.todo = RewriteOn
    BY <1>1, JobOf, DoingIs DEF Operations, StepsLeft, RewriteOn
  <1>8. /\ object' \in Objects /\ object'.life = object.life /\ object'.stale = object.stale
        /\ object'.ident = origin
    BY <1>0, <1>3 DEF ExecuteRepair, Objects, Identities, StoreFits
  <1>9. object' # Absent /\ origin # Absent
    BY <1>0, <1>8, RecordAssumption, AbsentAssumption DEF StoreFits, Origins
  <1>10. RecordsFit'
    BY <1>0, <1>2, <1>3, <1>8, <1>9 DEF RecordsFit, Consistent
  <1>11. EvidenceFits(j)'
    BY <1>3, <1>6, <1>7, <1>8, <1>9 DEF EvidenceFits
  <1>12. ProgressFits(j)
    BY <1>7, Tails DEF ProgressFits
  <1> QED
    BY <1>0, <1>2, <1>3, <1>4, <1>6, <1>7, <1>8, <1>9, <1>10, <1>11, <1>12, NotActive, BeginKeeps

LEMMA DispositionStep ==
    ASSUME EvidenceInv, PlanFits, ExecuteDisposition, ~Answer(answered)
    PROVE  EvidenceInv'
  <1>0. StoreFits /\ RecordsFit /\ ActiveFits
    BY DEF EvidenceInv
  <1>1. PICK j : j = Doing("disposition", DispositionState(plan.disp), <<"dispose", "note">>)
    OBVIOUS
  <1>2. /\ BetweenCalls /\ Begin(j) /\ UNCHANGED evidence
        /\ Known # Absent /\ Disposable(plan.disp) /\ plan.disp \in Dispositions
        /\ DispositionAllowed(DispositionState(plan.disp))
    BY <1>1 DEF ExecuteDisposition, Executes, PlanFits
  <1>3. UNCHANGED <<origin, side, row, object, standing, receipts>>
    BY <1>2 DEF evidence, records
  <1>4. ~busy /\ Known.life # "active"
    BY <1>2 DEF DispositionAllowed, DispositionState
  <1>5. /\ JobRecord(j) /\ j.op = "disposition" /\ j.seen = DispositionState(plan.disp)
        /\ j.todo = DisposeOn
    BY <1>1, JobOf, DoingIs DEF Operations, StepsLeft, DisposeOn
  <1>6. j.seen.side = side /\ j.seen.disp = plan.disp /\ side \in Sidecars
    BY <1>0, <1>2, <1>5 DEF DispositionState, Disposable, RecordsFit
  <1>7. EvidenceFits(j)' /\ ProgressFits(j)
    BY <1>2, <1>5, <1>6, Tails DEF EvidenceFits, ProgressFits
  <1>8. RecordsFit'
    BY <1>0, <1>3 DEF RecordsFit, Consistent
  <1> QED
    BY <1>0, <1>2, <1>3, <1>4, <1>5, <1>7, <1>8, NotActive, BeginKeeps

\* The snapshot carries the sidecar and the identity as recorded.
LEMMA SnapshotFits ==
    ASSUME RecordsFit
    PROVE  /\ Snapshot.side \in Sidecars \cup {Absent} /\ Snapshot.ident \in Identities
           /\ Snapshot.busy = busy /\ Snapshot.exists = (tree # Absent)
           /\ Snapshot.tree \in {tree, Absent}
  <1>1. StoredIdentity \in Identities
    BY DEF StoredIdentity, RecordsFit, Sidecars, SessionRows, Identities
  <1>2. side \in Sidecars \cup {Absent}
    BY DEF RecordsFit
  <1> QED BY <1>1, <1>2 DEF Snapshot, PhysicalFacts, WorktreeFacts

\* What a terminal receipt is compared with is the observation as it was.
LEMMA SameObservation ==
    ASSUME NEW c \in Observations, NEW d \in Observations
    PROVE  Immutable(c) = Immutable(d) <=>
             /\ c.stored = d.stored /\ c.current = d.current /\ c.tree = d.tree
             /\ c.busy = d.busy /\ c.live = d.live /\ c.conflicts = d.conflicts
             /\ c.disp = d.disp
  <1> DEFINE K == {"stored", "current", "tree", "busy", "live", "conflicts", "disp"}
  <1>1. Immutable(c) = [k \in K |-> c[k]]
    BY DEF Immutable, Observations
  <1>2. Immutable(d) = [k \in K |-> d[k]]
    BY DEF Immutable, Observations
  <1>3. Immutable(c) = Immutable(d) <=> \A k \in K : c[k] = d[k]
    <2> HIDE DEF K
    <2> QED BY <1>1, <1>2
  <1> QED BY <1>3

\* A terminal receipt that matches speaks of a session at rest.
LEMMA MatchIsAtRest ==
    ASSUME EvidenceInv, Known # Absent, NEW i \in Ids, TerminalMatches(receipts[i], RetainedState)
    PROVE  receipts[i].kind = "terminal" /\ ~busy
  <1> DEFINE c == receipts[i].seen.obs
  <1>1. receipts[i].kind = "terminal" /\ Immutable(c) = Immutable(Observation)
    BY DEF TerminalMatches, RetainedState
  <1>2. c \in Observations /\ ArchiveEligible(c)
    BY <1>1 DEF EvidenceInv, ReceiptsFit, ReceiptFits, EligibleEvidence
  <1>3. Observation \in Observations /\ Observation.busy = busy
    BY ObservationFits DEF EvidenceInv
  <1> HIDE DEF c
  <1>4. c.busy = busy
    BY <1>1, <1>2, <1>3, SameObservation
  <1>5. ~c.busy
    BY <1>2 DEF ArchiveEligible, AtRest
  <1> QED BY <1>1, <1>4, <1>5

LEMMA ArchiveBegins ==
    ASSUME EvidenceInv, ExecuteArchive
    PROVE  EvidenceInv'
  <1> DEFINE fits == {i \in Ids : TerminalMatches(receipts[i], RetainedState)}
  <1>0. StoreFits /\ RecordsFit /\ ActiveFits
    BY DEF EvidenceInv
  <1>1. BetweenCalls /\ Known # Absent /\ UNCHANGED evidence
    BY DEF ExecuteArchive, Executes
  <1>2. UNCHANGED <<origin, side, row, object, standing, receipts>>
    BY <1>1 DEF evidence, records
  <1>3. RecordsFit'
    BY <1>0, <1>2 DEF RecordsFit, Consistent
  <1>4. CASE /\ fits # {}
             /\ Begin([Doing("reuse", Snapshot, ReuseSteps) EXCEPT !.id = Latest(fits)])
    <2>1. PICK i : i = Latest(fits)
      OBVIOUS
    <2>2. PICK j : j = [Doing("reuse", Snapshot, ReuseSteps) EXCEPT !.id = i]
      OBVIOUS
    <2>3. i \in fits
      BY <1>0, <1>4, <2>1, LatestIsOne
    <2>4. i \in Ids /\ receipts[i].kind = "terminal" /\ ~busy
      BY <1>1, <2>3, MatchIsAtRest
    <2>5. i \in Nat
      BY <1>0, <2>4 DEF StoreFits, Ids
    <2>6. Begin(j)
      BY <1>4, <2>1, <2>2
    <2>7. /\ JobRecord(j) /\ j.op = "reuse" /\ j.seen = Snapshot /\ j.todo = RowOn
          /\ j.id = i
      BY <2>2, <2>5, JobOf DEF Operations, StepsLeft, ReuseSteps, RowOn
    <2>8. EvidenceFits(j)'
      BY <1>0, <2>7, SnapshotFits DEF EvidenceFits, SnapshotOf
    <2>9. ProgressFits(j)
      BY <2>4, <2>7, Tails DEF ProgressFits
    <2>10. ~(NotReconciled /\ SomeActive)
      BY <1>0, <2>4 DEF ActiveFits
    <2> QED BY <1>1, <1>2, <1>3, <2>4, <2>6, <2>7, <2>8, <2>9, <2>10, BeginKeeps
  <1>5. CASE /\ ArchiveEligible(Observation)
             /\ Begin(Doing("archive", RetainedState, ArchiveSteps))
    <2>1. PICK j : j = Doing("archive", RetainedState, ArchiveSteps)
      OBVIOUS
    <2>2. Begin(j)
      BY <1>5, <2>1
    <2>3. /\ JobRecord(j) /\ j.op = "archive" /\ j.seen = RetainedState /\ j.todo = BuildOn
      BY <2>1, JobOf, DoingIs DEF Operations, StepsLeft, ArchiveSteps, BuildOn
    <2>4. /\ Observation \in Observations /\ Observation.busy = busy
          /\ Observation.life = Known.life
      BY <1>0, <1>1, ObservationFits
    <2>5. ~busy /\ Known.life # "active"
      BY <1>5, <2>4 DEF ArchiveEligible, AtRest, Retainable, CleanupCandidate
    <2>6. /\ j.seen.obs = Observation /\ j.seen.snap = Snapshot
          /\ j.seen.preview = Observation.tree
      BY <1>5, <2>3 DEF RetainedState, Preview
    <2>7. EligibleEvidence(j.seen)
      BY <1>5, <2>4, <2>6 DEF EligibleEvidence
    <2>8. EvidenceFits(j)'
      BY <1>0, <2>3, <2>6, <2>7, SnapshotFits DEF EvidenceFits, SnapshotOf
    <2>9. ProgressFits(j)
      BY <2>3, Tails DEF ProgressFits
    <2> QED BY <1>0, <1>1, <1>2, <1>3, <2>2, <2>3, <2>5, <2>8, <2>9, NotActive, BeginKeeps
  <1> QED BY <1>4, <1>5 DEF ExecuteArchive, RetainedState

LEMMA ReconcileStepsAre ==
    ASSUME NEW s
    PROVE  \/ ReconcileSteps(s) = BuiltOn
           \/ ReconcileSteps(s) = ReconciledOn /\ ~(s.exists /\ s.tree # 0)
  <1> DEFINE a == <<"build", "publish", "book">>
             b == <<"receipt", "state", "side", "object">>
  <1>1. a \o b = BuiltOn
    <2> DEFINE S == {"build", "publish", "book", "receipt", "state", "side", "object"}
    <2>1. a \in Seq(S) /\ Len(a) = 3 /\ a[1] = "build" /\ a[2] = "publish" /\ a[3] = "book"
      OBVIOUS
    <2>2. /\ b \in Seq(S) /\ Len(b) = 4 /\ b[1] = "receipt" /\ b[2] = "state"
          /\ b[3] = "side" /\ b[4] = "object"
      OBVIOUS
    <2>3. /\ BuiltOn \in Seq(S) /\ Len(BuiltOn) = 7
          /\ BuiltOn[1] = "build" /\ BuiltOn[2] = "publish" /\ BuiltOn[3] = "book"
          /\ BuiltOn[4] = "receipt" /\ BuiltOn[5] = "state" /\ BuiltOn[6] = "side"
          /\ BuiltOn[7] = "object"
      BY DEF BuiltOn
    <2> HIDE DEF a, b, S
    <2>4. /\ a \o b \in Seq(S) /\ Len(a \o b) = 7
          /\ \A i \in 1..7 : (a \o b)[i] = IF i <= 3 THEN a[i] ELSE b[i - 3]
      <3>1. /\ a \o b \in Seq(S) /\ Len(a \o b) = Len(a) + Len(b)
            /\ \A i \in 1..(Len(a) + Len(b)) :
                  (a \o b)[i] = IF i <= Len(a) THEN a[i] ELSE b[i - Len(a)]
        BY <2>1, <2>2, ConcatProperties, Zenon
      <3> QED BY <2>1, <2>2, <3>1
    <2>5. \A i \in 1..7 : (a \o b)[i] = BuiltOn[i]
      BY <2>1, <2>2, <2>3, <2>4
    <2> QED BY <2>3, <2>4, <2>5, SeqEqual
  <1>2. <<>> \o b = ReconciledOn
    BY DEF ReconciledOn
  <1> QED BY <1>1, <1>2 DEF ReconcileSteps

LEMMA ReconcileBegins ==
    ASSUME EvidenceInv, ExecuteReconcile, ~Answer(answered)
    PROVE  EvidenceInv'
  <1>0. StoreFits /\ RecordsFit /\ ActiveFits
    BY DEF EvidenceInv
  <1>1. BetweenCalls /\ Known # Absent
    BY DEF ExecuteReconcile, Executes
  <1>2. UNCHANGED <<origin, side, row, object, standing, receipts>>
    BY DEF ExecuteReconcile, evidence, records
  <1>3. RecordsFit'
    BY <1>0, <1>2 DEF RecordsFit, Consistent
  <1>4. ~busy
    <2>1. Classify(Snapshot) # "blocked"
      BY DEF ExecuteReconcile, Resumed
    <2> QED BY <1>0, <2>1, SnapshotFits DEF Classify
  <1>5. CASE /\ Resumed(Snapshot)
             /\ SupportsRepair(receipts[Latest(Existing(plan.seen))], Snapshot)
             /\ Begin([Doing("resume", Snapshot, <<"side">>)
                          EXCEPT !.id = Latest(Existing(plan.seen))])
    <2>1. PICK i : i = Latest(Existing(plan.seen))
      OBVIOUS
    <2>2. PICK j : j = [Doing("resume", Snapshot, <<"side">>) EXCEPT !.id = i]
      OBVIOUS
    <2>3. i \in Ids
      <3>1. Existing(plan.seen) \subseteq Ids /\ Existing(plan.seen) # {}
        BY <1>5 DEF Resumed, Existing, WithDigest
      <3> QED BY <1>0, <2>1, <3>1, LatestIsOne
    <2>4. receipts[i].kind = "reconciled" /\ i \in Nat
      BY <1>0, <1>5, <2>1, <2>3 DEF SupportsRepair, StoreFits, Ids
    <2>5. Begin(j)
      BY <1>5, <2>1, <2>2
    <2>6. /\ JobRecord(j) /\ j.op = "resume" /\ j.seen = Snapshot /\ j.todo = SideOnly
          /\ j.id = i
      BY <2>2, <2>4, JobOf DEF Operations, StepsLeft, SideOnly
    <2>7. EvidenceFits(j)'
      BY <1>0, <2>6, SnapshotFits DEF EvidenceFits, SnapshotOf
    <2>8. ProgressFits(j)
      BY <2>3, <2>4, <2>6, Tails DEF ProgressFits
    <2>9. ~(NotReconciled /\ SomeActive)
      BY <2>3, <2>4 DEF NotReconciled
    <2> QED BY <1>1, <1>2, <1>3, <1>4, <2>5, <2>6, <2>7, <2>8, <2>9, BeginKeeps
  <1>6. CASE Begin(Doing("reconcile", Snapshot, ReconcileSteps(Snapshot)))
    <2>1. PICK j : j = Doing("reconcile", Snapshot, ReconcileSteps(Snapshot))
      OBVIOUS
    <2>2. Begin(j)
      BY <1>6, <2>1
    <2>3. \/ ReconcileSteps(Snapshot) = BuiltOn
          \/ ReconcileSteps(Snapshot) = ReconciledOn /\ Snapshot.tree \in {0, Absent}
      BY <1>0, SnapshotFits, ReconcileStepsAre
    <2>4. /\ JobRecord(j) /\ j.op = "reconcile" /\ j.seen = Snapshot
          /\ j.todo = ReconcileSteps(Snapshot)
      BY <2>1, <2>3, JobOf, DoingIs DEF Operations, StepsLeft
    <2>5. EvidenceFits(j)'
      BY <1>0, <2>4, SnapshotFits DEF EvidenceFits, SnapshotOf
    <2>6. ProgressFits(j)
      BY <2>3, <2>4, Tails DEF ProgressFits, ArchivedAsSeen
    <2> QED BY <1>1, <1>2, <1>3, <1>4, <2>2, <2>4, <2>5, <2>6, BeginKeeps
  <1> QED BY <1>5, <1>6 DEF ExecuteReconcile

-----------------------------------------------------------------------------
(* The steps of the executions.                                             *)

LEMMA Order ==
    ASSUME NEW j, JobRecord(j)
    PROVE  LET h == Head(j.todo) IN
           /\ h = "build" => j.op \in {"archive", "reconcile"} /\ Onward(j, "publish")
           /\ h = "publish" => j.op \in {"archive", "reconcile"} /\ Onward(j, "book")
           /\ h = "book" => j.op \in {"archive", "reconcile"} /\ Onward(j, "receipt")
           /\ h = "receipt" => \/ j.op = "archive" /\ Onward(j, "row")
                               \/ j.op = "reconcile" /\ Onward(j, "state")
           /\ h = "row" => j.op \in {"archive", "reuse"} /\ Onward(j, "side")
           /\ h = "state" => j.op = "reconcile" /\ Onward(j, "side")
           /\ h = "side" => \/ j.op \in {"archive", "reuse", "reconcile"} /\ Onward(j, "object")
                            \/ j.op = "resume" /\ Rest(j) = Absent
           /\ h = "object" => j.op \in {"archive", "reuse", "reconcile"} /\ Rest(j) = Absent
           /\ h = "rewrite" => j.op = "repair" /\ Onward(j, "save")
           /\ h \in {"save", "undo"} => j.op = "repair" /\ Rest(j) = Absent
           /\ h = "dispose" => j.op = "disposition" /\ Onward(j, "note")
           /\ h = "note" => j.op = "disposition" /\ Rest(j) = Absent
  <1>1. CASE j.op \in {"archive", "reuse"}
    BY <1>1, ArchiveOrder
  <1>2. CASE j.op \in {"reconcile", "resume"}
    BY <1>2, ReconcileOrder
  <1>3. CASE j.op \in {"repair", "disposition"}
    BY <1>3, ShortOrder
  <1> QED BY <1>1, <1>2, <1>3 DEF JobRecord, Operations

LEMMA WorkKeeps ==
    ASSUME EvidenceInv, job # Absent,
           UNCHANGED <<busy, up, imports, taskRow>>,
           StoreFits', RecordsFit', ReceiptsFit', DecidedFits', AnsweredIsRecorded', ActiveFits',
           imports => row' # Absent,
           job' # Absent => /\ JobRecord(job)' /\ EvidenceFits(job)' /\ ProgressFits(job)'
                            /\ (job'.op # "disposition" => answered' = Absent)
    PROVE  EvidenceInv'
  <1>1. up /\ ~busy
    BY DEF EvidenceInv, JobFits
  <1>2. JobFits'
    BY <1>1 DEF JobFits
  <1>3. LiveIsNotTerminal' /\ ImportIsWhole'
    BY <1>1 DEF EvidenceInv, LiveIsNotTerminal, ImportIsWhole
  <1> QED BY <1>2, <1>3 DEF EvidenceInv

\* A step of the pipeline: it leaves the records and the receipts alone.
LEMMA PipelineKeeps ==
    ASSUME EvidenceInv, job # Absent, UNCHANGED <<tree, evidence, calls, rest>>,
           booked \subseteq booked', booked' \subseteq Contents,
           filed' \in [Contents -> Contents \cup {Absent, Spoilt}], ArchivesHold',
           job' # Absent => /\ JobRecord(job)' /\ job'.op = job.op /\ job'.seen = job.seen
                            /\ ProgressFits(job)'
    PROVE  EvidenceInv'
  <1>0. UNCHANGED <<tree, origin, side, row, object, busy, expired, heir, receipts,
                    approved, answered, adopted, taskRow, imports, up>>
    BY DEF evidence, records, standing, calls, rest, import
  <1>1. StoreFits'
    BY <1>0 DEF EvidenceInv, StoreFits, Recorded, Ids
  <1>2. RecordsFit'
    BY <1>0 DEF EvidenceInv, RecordsFit, Consistent
  <1>3. ReceiptsFit'
    BY <1>0 DEF EvidenceInv, ReceiptsFit, ReceiptFits, Ids, ArchivedAsSeen, EligibleEvidence
  <1>4. DecidedFits'
    BY <1>0 DEF EvidenceInv, DecidedFits, Decided, Ids
  <1>5. AnsweredIsRecorded' /\ (imports => row' # Absent)
    BY <1>0 DEF EvidenceInv, AnsweredIsRecorded, ImportIsWhole
  <1>6. ActiveFits'
    BY <1>0 DEF EvidenceInv, ActiveFits, NotReconciled, SomeActive, Ids
  <1>7. EvidenceFits(job) /\ (job.op # "disposition" => answered = Absent)
    BY DEF EvidenceInv, JobFits
  <1>8. job' # Absent => EvidenceFits(job)'
    BY <1>0, <1>7 DEF EvidenceFits, EligibleEvidence, SnapshotOf
  <1> QED BY <1>0, <1>1, <1>2, <1>3, <1>4, <1>5, <1>6, <1>7, <1>8, WorkKeeps

LEMMA PipelineStep ==
    ASSUME EvidenceInv, ArchiveStep
    PROVE  EvidenceInv'
  <1>0. /\ job # Absent /\ JobRecord(job) /\ EvidenceFits(job) /\ ProgressFits(job)
        /\ StoreFits /\ UNCHANGED <<tree, evidence, calls, rest>>
    BY DEF EvidenceInv, JobFits, ArchiveStep, BuildSnapshot, PublishArchive,
           PublicationRefused, BookArchive, At, archives
  <1>1. CASE BuildSnapshot
    <2>1. Head(job.todo) = "build" /\ tree # Absent /\ UNCHANGED <<filed, booked>>
      BY <1>1 DEF BuildSnapshot, At, archives
    <2>2. Onward(job, "publish")
      BY <1>0, <2>1, Order
    <2>3. PICK f : f = [job EXCEPT !.todo = Tail(@)]
      OBVIOUS
    <2>4. JobRecord(f) /\ Head(f.todo) = "publish" /\ f.op = job.op /\ f.seen = job.seen
      BY <2>2, <2>3 DEF Onward
    <2>5. job' = [f EXCEPT !.archive = tree]
      BY <1>1, <2>3 DEF BuildSnapshot
    <2>6. tree \in Contents
      BY <1>0, <2>1 DEF StoreFits
    <2>7. /\ job'.op = f.op /\ job'.seen = f.seen /\ job'.todo = f.todo
          /\ job'.archive = tree /\ JobRecord(job)'
      BY <2>4, <2>5, <2>6 DEF JobRecord
    <2>8. ProgressFits(job)'
      BY <2>4, <2>6, <2>7 DEF ProgressFits
    <2>9. ArchivesHold' /\ booked \subseteq booked' /\ booked' \subseteq Contents
          /\ filed' \in [Contents -> Contents \cup {Absent, Spoilt}]
      BY <1>0, <2>1 DEF StoreFits, ArchivesHold
    <2> QED BY <1>0, <2>4, <2>7, <2>8, <2>9, PipelineKeeps
  <1>2. CASE PublishArchive
    <2>1. Head(job.todo) = "publish" /\ booked' = booked /\ job' = Rest(job)
          /\ filed' = [filed EXCEPT ![job.archive] = job.archive]
      BY <1>2 DEF PublishArchive, At
    <2>2. Onward(job, "book")
      BY <1>0, <2>1, Order
    <2>3. job.archive \in Contents
      BY <1>0, <2>1 DEF ProgressFits
    <2>4. /\ JobRecord(job)' /\ job'.op = job.op /\ job'.seen = job.seen
          /\ job'.archive = job.archive /\ Head(job'.todo) = "book"
      BY <2>1, <2>2 DEF Onward
    <2>5. ProgressFits(job)'
      BY <2>3, <2>4 DEF ProgressFits
    <2>6. filed' \in [Contents -> Contents \cup {Absent, Spoilt}]
      BY <1>0, <2>1, <2>3 DEF StoreFits
    <2>7. ArchivesHold'
      BY <1>0, <2>1, <2>3, ShapesAreThere DEF StoreFits, ArchivesHold
    <2> QED BY <1>0, <2>1, <2>4, <2>5, <2>6, <2>7, PipelineKeeps DEF StoreFits
  <1>3. CASE PublicationRefused
    <2>1. job' = Absent /\ UNCHANGED <<filed, booked>>
      BY <1>3 DEF PublicationRefused, archives
    <2>2. ArchivesHold' /\ booked \subseteq booked' /\ booked' \subseteq Contents
          /\ filed' \in [Contents -> Contents \cup {Absent, Spoilt}]
      BY <1>0, <2>1 DEF StoreFits, ArchivesHold
    <2> QED BY <1>0, <2>1, <2>2, PipelineKeeps
  <1>4. CASE At("book") /\ BookArchive(Wanted)
    <2>1. /\ Head(job.todo) = "book" /\ filed[job.archive] = job.archive
          /\ booked' = booked \cup {job.archive} /\ filed' = filed
          /\ \/ job' = Absent
             \/ job' = Rest(job) /\ job.archive \in Wanted
      BY <1>4 DEF BookArchive, At, VerifyPublished
    <2>2. Onward(job, "receipt") /\ job.op \in {"archive", "reconcile"}
      BY <1>0, <2>1, Order
    <2>3. job.archive \in Contents
      BY <1>0, <2>1 DEF ProgressFits
    <2>4. job' = Rest(job) =>
            /\ JobRecord(job)' /\ job'.op = job.op /\ job'.seen = job.seen
            /\ job'.archive = job.archive /\ Head(job'.todo) = "receipt"
      BY <2>2 DEF Onward
    <2>5. job' # Absent => ProgressFits(job)'
      BY <2>1, <2>2, <2>4 DEF ProgressFits, Wanted, ArchivedAsSeen
    <2>6. ArchivesHold'
      BY <1>0, <2>1, <2>3, ShapesAreThere DEF StoreFits, ArchivesHold
    <2>7. /\ booked \subseteq booked' /\ booked' \subseteq Contents
          /\ filed' \in [Contents -> Contents \cup {Absent, Spoilt}]
      BY <1>0, <2>1, <2>3 DEF StoreFits
    <2> QED BY <1>0, <2>1, <2>4, <2>5, <2>6, <2>7, PipelineKeeps
  <1> QED BY <1>1, <1>2, <1>3, <1>4 DEF ArchiveStep

\* The receipts before one more are what they were.
LEMMA OneMore ==
    ASSUME receipts \in Seq(Recorded), NEW c, receipts' = Append(receipts, c)
    PROVE  /\ receipts' \in Seq(Recorded') /\ Len(receipts') = Len(receipts) + 1
           /\ Len(receipts') \in Nat
           /\ Ids' = Ids \cup {Len(receipts')} /\ Len(receipts') \notin Ids
           /\ receipts'[Len(receipts')] = c
           /\ \A i \in Ids : receipts'[i] = receipts[i]
  <1> DEFINE S == Recorded \cup {c}
  <1>1. receipts \in Seq(S)
    BY DEF Recorded, Ids
  <1>2. /\ receipts' \in Seq(S) /\ Len(receipts') = Len(receipts) + 1
        /\ Len(receipts) \in Nat /\ Ids = 1..Len(receipts) /\ Ids' = 1..Len(receipts')
        /\ \A i \in 1..Len(receipts) : receipts'[i] = receipts[i]
        /\ receipts'[Len(receipts) + 1] = c
    BY <1>1 DEF Ids
  <1>3. \A i \in Ids' : receipts'[i] \in Recorded'
    BY DEF Recorded
  <1>4. receipts' \in Seq(Recorded')
    BY <1>2, <1>3
  <1>5. Ids' = Ids \cup {Len(receipts')} /\ Len(receipts') \notin Ids
    BY <1>2
  <1> QED BY <1>2, <1>4, <1>5

\* What the receipt of a job says.
LEMMA ReceiptOfJob ==
    ASSUME EvidenceInv, SaveReceipt
    PROVE  \E c : /\ receipts' = Append(receipts, c) /\ ReceiptFits(c)
                  /\ \/ job.op = "archive" /\ c.kind = "terminal" /\ Onward(job, "row")
                     \/ job.op = "reconcile" /\ c.kind = "reconciled" /\ Onward(job, "state")
                     \/ job.op = "disposition" /\ c.kind = "disposition" /\ Rest(job) = Absent
  <1>0. /\ job # Absent /\ JobRecord(job) /\ EvidenceFits(job) /\ ProgressFits(job)
        /\ Head(job.todo) \in {"receipt", "note"}
    BY DEF EvidenceInv, JobFits, SaveReceipt
  <1>1. CASE job.op = "archive" /\ Onward(job, "row") /\ Head(job.todo) = "receipt"
    <2>1. PICK c : c = Receipt("terminal", Absent, job.seen, job.archive)
      OBVIOUS
    <2>2. receipts' = Append(receipts, c)
      BY <1>1, <2>1 DEF SaveReceipt
    <2>3. c.kind = "terminal" /\ c.seen = job.seen /\ c.archive = job.archive
      BY <2>1 DEF Receipt
    <2>4. EligibleEvidence(c.seen) /\ c.archive = c.seen.preview /\ c.archive \in booked
      BY <1>0, <1>1, <2>3 DEF EvidenceFits, ProgressFits
    <2> QED BY <1>1, <2>2, <2>3, <2>4 DEF ReceiptFits, Kinds
  <1>2. CASE job.op = "reconcile" /\ Onward(job, "state") /\ Head(job.todo) = "receipt"
    <2>1. PICK c : c = Receipt("reconciled", Absent, job.seen, job.archive)
      OBVIOUS
    <2>2. receipts' = Append(receipts, c)
      BY <1>2, <2>1 DEF SaveReceipt
    <2>3. c.kind = "reconciled" /\ c.seen = job.seen /\ c.archive = job.archive
      BY <2>1 DEF Receipt
    <2>4. ArchivedAsSeen(c.seen, c.archive)
      BY <1>0, <1>2, <2>3 DEF ProgressFits
    <2> QED BY <1>2, <2>2, <2>3, <2>4 DEF ReceiptFits, Kinds
  <1>3. CASE job.op = "disposition" /\ Rest(job) = Absent
    <2>1. PICK c : c = Receipt("disposition", job.seen.disp, job.seen, Absent)
      OBVIOUS
    <2>2. receipts' = Append(receipts, c)
      BY <1>3, <2>1 DEF SaveReceipt
    <2>3. c.kind = "disposition"
      BY <2>1 DEF Receipt
    <2> QED BY <1>3, <2>2, <2>3 DEF ReceiptFits, Kinds
  <1> QED BY <1>0, <1>1, <1>2, <1>3, Order

LEMMA ReceiptStep ==
    ASSUME EvidenceInv, SaveReceipt
    PROVE  EvidenceInv'
  <1>0. /\ UNCHANGED <<tree, filed, booked, origin, side, row, object, busy, expired, heir,
                       approved, answered, adopted, taskRow, imports, up>>
        /\ job # Absent /\ JobRecord(job) /\ EvidenceFits(job) /\ ProgressFits(job) /\ StoreFits
        /\ (job.op # "disposition" => answered = Absent)
    BY DEF SaveReceipt, archives, records, standing, calls, rest, import, EvidenceInv, JobFits
  <1>1. PICK c : /\ receipts' = Append(receipts, c) /\ ReceiptFits(c)
                 /\ \/ job.op = "archive" /\ c.kind = "terminal" /\ Onward(job, "row")
                    \/ job.op = "reconcile" /\ c.kind = "reconciled" /\ Onward(job, "state")
                    \/ job.op = "disposition" /\ c.kind = "disposition" /\ Rest(job) = Absent
    BY ReceiptOfJob
  <1> DEFINE n == Len(receipts')
  <1>2. /\ receipts' \in Seq(Recorded') /\ n \in Nat
        /\ Ids' = Ids \cup {n} /\ n \notin Ids
        /\ receipts'[n] = c /\ \A i \in Ids : receipts'[i] = receipts[i]
    BY <1>0, <1>1, OneMore DEF StoreFits
  <1>3. job' = (IF Rest(job) = Absent THEN Absent ELSE [Rest(job) EXCEPT !.id = n])
    BY DEF SaveReceipt
  <1> HIDE DEF n
  <1>4. StoreFits'
    BY <1>0, <1>2 DEF StoreFits, ArchivesHold
  <1>5. RecordsFit' /\ (imports => row' # Absent)
    BY <1>0 DEF EvidenceInv, RecordsFit, Consistent, ImportIsWhole
  <1>6. ReceiptsFit'
    <2>1. ReceiptFits(c)'
      BY <1>0, <1>1 DEF ReceiptFits, ArchivedAsSeen, EligibleEvidence
    <2>2. ASSUME NEW i \in Ids PROVE ReceiptFits(receipts[i])'
      <3>1. ReceiptFits(receipts[i]) /\ receipts'[i] = receipts[i]
        BY <1>2 DEF EvidenceInv, ReceiptsFit
      <3> QED BY <1>0, <3>1 DEF ReceiptFits, ArchivedAsSeen, EligibleEvidence
    <2> QED BY <1>2, <2>1, <2>2 DEF ReceiptsFit
  <1>7. DecidedFits'
    <2>1. Decided => Decided'
      BY <1>2 DEF Decided
    <2> QED BY <1>0, <1>2, <2>1 DEF EvidenceInv, DecidedFits
  <1>8. AnsweredIsRecorded'
    BY <1>0, <1>2 DEF EvidenceInv, AnsweredIsRecorded, StoreFits
  <1>9. NotReconciled' => NotReconciled
    BY <1>2 DEF NotReconciled
  <1>10. ActiveFits'
    <2>1. CASE job.op = "reconcile"
      BY <1>1, <1>2, <2>1 DEF ActiveFits, NotReconciled
    <2>2. CASE job.op # "reconcile"
      <3>1. ~(NotReconciled /\ SomeActive)
        BY <1>0, <2>2 DEF EvidenceInv, ActiveFits
      <3>2. SomeActive' = SomeActive
        BY <1>0 DEF SomeActive
      <3> QED BY <1>9, <3>1, <3>2 DEF ActiveFits
    <2> QED BY <2>1, <2>2
  <1>11. job' # Absent => /\ JobRecord(job)' /\ EvidenceFits(job)' /\ ProgressFits(job)'
                          /\ (job'.op # "disposition" => answered' = Absent)
    <2> SUFFICES ASSUME job' # Absent
                 PROVE  /\ JobRecord(job)' /\ EvidenceFits(job)' /\ ProgressFits(job)'
                        /\ (job'.op # "disposition" => answered' = Absent)
      OBVIOUS
    <2>1. PICK f : f = Rest(job)
      OBVIOUS
    <2>2. /\ job' = [f EXCEPT !.id = n] /\ JobRecord(f) /\ f.op = job.op /\ f.seen = job.seen
          /\ f.archive = job.archive /\ Head(f.todo) \in {"row", "state"}
          /\ \/ job.op = "archive" /\ c.kind = "terminal"
             \/ job.op = "reconcile" /\ c.kind = "reconciled"
      BY <1>1, <1>3, <2>1 DEF Onward
    <2>3. /\ JobRecord(job)' /\ job'.op = job.op /\ job'.seen = job.seen /\ job'.id = n
          /\ job'.todo = f.todo
      BY <1>2, <2>2 DEF JobRecord
    <2>4. EvidenceFits(job)'
      BY <1>0, <2>3 DEF EvidenceFits, EligibleEvidence, SnapshotOf
    <2>5. ProgressFits(job)'
      BY <1>2, <2>2, <2>3 DEF ProgressFits
    <2> QED BY <1>0, <2>3, <2>4, <2>5
  <1> QED BY <1>0, <1>4, <1>5, <1>6, <1>7, <1>8, <1>10, <1>11, WorkKeeps

\* A step that changes a record, in a session that no record calls active.
LEMMA RecordKeeps ==
    ASSUME EvidenceInv, job # Absent,
           UNCHANGED <<archives, origin, standing, receipts, approved, rest>>,
           RecordsFit', DecidedFits', AnsweredIsRecorded', answered' \in Ids \cup {Absent},
           row # Absent => row' # Absent,
           ~(NotReconciled /\ SomeActive'),
           job' # Absent => /\ JobRecord(job)' /\ EvidenceFits(job)' /\ ProgressFits(job)'
                            /\ (job'.op # "disposition" => answered' = Absent)
    PROVE  EvidenceInv'
  <1>0. UNCHANGED <<tree, filed, booked, origin, busy, expired, heir, receipts, approved,
                    adopted, taskRow, imports, up>>
    BY DEF archives, standing, rest, import
  <1>1. StoreFits'
    BY <1>0 DEF EvidenceInv, StoreFits, ArchivesHold, Recorded, Ids
  <1>2. ReceiptsFit'
    BY <1>0 DEF EvidenceInv, ReceiptsFit, ReceiptFits, Ids, ArchivedAsSeen, EligibleEvidence
  <1>3. imports => row' # Absent
    BY DEF EvidenceInv, ImportIsWhole
  <1>4. ActiveFits'
    BY <1>0 DEF ActiveFits, NotReconciled, Ids
  <1> QED BY <1>0, <1>1, <1>2, <1>3, <1>4, WorkKeeps

\* What the invariant says of a job at work.
LEMMA AtWork ==
    ASSUME EvidenceInv, job # Absent
    PROVE  /\ JobRecord(job) /\ EvidenceFits(job) /\ ProgressFits(job)
           /\ (job.op # "disposition" => answered = Absent)
           /\ (job.op # "reconcile" => ~(NotReconciled /\ SomeActive))
           /\ StoreFits /\ RecordsFit /\ DecidedFits /\ AnsweredIsRecorded
  BY DEF EvidenceInv, JobFits, ActiveFits

\* The decision a job has recorded.
LEMMA DecisionOfJob ==
    ASSUME EvidenceInv, job # Absent, Head(job.todo) \in {"row", "state", "side", "object"}
    PROVE  /\ job.id \in Ids /\ job.id \in Nat /\ Decided
           /\ receipts[job.id].kind # "disposition"
           /\ (job.op \in {"archive", "reuse"} => receipts[job.id].kind = "terminal")
           /\ (job.op \notin {"archive", "reuse"} => receipts[job.id].kind = "reconciled")
           /\ ~(NotReconciled /\ SomeActive)
  <1>1. /\ job.id \in Ids
        /\ receipts[job.id].kind = IF job.op \in {"archive", "reuse"} THEN "terminal"
                                   ELSE "reconciled"
    BY AtWork DEF ProgressFits
  <1>2. job.id \in Nat
    BY <1>1, AtWork DEF StoreFits, Ids
  <1>3. ~(NotReconciled /\ SomeActive)
    BY <1>1, AtWork DEF NotReconciled
  <1> QED BY <1>1, <1>2, <1>3 DEF Decided

LEMMA PersistStep ==
    ASSUME EvidenceInv, PersistRetained \/ PersistReconciled
    PROVE  EvidenceInv'
  <1>0. /\ job # Absent /\ job' = Rest(job)
        /\ UNCHANGED <<archives, origin, side, object, standing, receipts, answered, approved,
                       rest>>
    BY DEF PersistRetained, PersistReconciled, At, calls
  <1>1. /\ JobRecord(job) /\ EvidenceFits(job) /\ ProgressFits(job) /\ RecordsFit /\ DecidedFits
        /\ (job.op # "disposition" => answered = Absent) /\ StoreFits
    BY <1>0, AtWork
  <1>2. UNCHANGED <<booked, receipts>>
    BY <1>0 DEF archives
  <1>3. /\ Onward(job, "side") /\ job.op \in {"archive", "reuse", "reconcile"}
        /\ Head(job.todo) \in {"row", "state"}
        /\ (PersistRetained => job.op \in {"archive", "reuse"})
        /\ (PersistReconciled => job.op = "reconcile")
    BY <1>0, <1>1, Order DEF PersistRetained, PersistReconciled, At
  <1>4. /\ job.id \in Ids /\ job.id \in Nat /\ Decided
        /\ (job.op \in {"archive", "reuse"} => receipts[job.id].kind = "terminal")
        /\ (job.op \notin {"archive", "reuse"} => receipts[job.id].kind = "reconciled")
        /\ ~(NotReconciled /\ SomeActive)
    BY <1>0, <1>3, DecisionOfJob
  <1>5. PICK i : i = SnapshotOf(job).ident
    OBVIOUS
  <1>6. i \in Identities
    BY <1>1, <1>3, <1>5 DEF EvidenceFits
  <1>7. /\ row' \in SessionRows /\ row'.life = CleanupCandidate /\ row'.stale = TRUE
        /\ (PersistRetained => row'.kept = job.id)
        /\ \/ row'.kept = Absent
           \/ row # Absent /\ row'.kept = row.kept
           \/ row'.kept = job.id /\ receipts[job.id].kind = "terminal"
    <2>1. PICK s : s = RowOf(Session(CleanupCandidate, TRUE, i))
      OBVIOUS
    <2>2. /\ s \in SessionRows /\ s.life = CleanupCandidate /\ s.stale = TRUE /\ s.kept = Absent
      BY <1>6, <2>1 DEF RowOf, Session, SessionRows, Lives
    <2>3. CASE PersistRetained
      <3>1. row' = (IF row = Absent THEN [s EXCEPT !.kept = job.id]
                    ELSE [row EXCEPT !.life = CleanupCandidate, !.stale = TRUE, !.kept = job.id])
        BY <1>5, <2>1, <2>3 DEF PersistRetained
      <3>2. row # Absent => row \in SessionRows
        BY <1>1 DEF RecordsFit
      <3>3. receipts[job.id].kind = "terminal"
        BY <1>3, <1>4, <2>3
      <3> QED BY <1>4, <2>2, <3>1, <3>2, <3>3 DEF SessionRows, Lives
    <2>4. CASE PersistReconciled /\ ~PersistRetained
      <3>1. i = job.seen.ident
        BY <1>3, <1>5, <2>4 DEF SnapshotOf
      <3>2. row' = (IF row = Absent THEN s
                    ELSE [row EXCEPT !.life = CleanupCandidate, !.stale = TRUE])
        BY <2>1, <2>4, <3>1 DEF PersistReconciled
      <3>3. row # Absent => row \in SessionRows
        BY <1>1 DEF RecordsFit
      <3> QED BY <2>2, <2>4, <3>2, <3>3 DEF SessionRows, Lives
    <2> QED BY <2>3, <2>4
  <1>8. row' # Absent
    BY <1>7, RecordAssumption
  <1>9. RecordsFit'
    BY <1>0, <1>1, <1>7 DEF RecordsFit, Consistent, CleanupCandidate
  <1>10. DecidedFits'
    BY <1>0, <1>1, <1>4, <1>7 DEF DecidedFits, Decided, Ids
  <1>11. answered' = Absent
    BY <1>0, <1>1, <1>3
  <1>12. ~(NotReconciled /\ SomeActive')
    BY <1>0, <1>4, <1>7 DEF SomeActive, CleanupCandidate
  <1>13. /\ JobRecord(job)' /\ job'.op = job.op /\ job'.seen = job.seen /\ job'.id = job.id
         /\ Head(job'.todo) = "side"
    BY <1>0, <1>3 DEF Onward
  <1>14. EvidenceFits(job)'
    BY <1>1, <1>3, <1>13 DEF EvidenceFits, EligibleEvidence, SnapshotOf
  <1>15. ProgressFits(job)'
    <2>1. job.op \in {"archive", "reuse"} => row'.kept = job.id
      BY <1>3, <1>7
    <2> QED BY <1>2, <1>4, <1>7, <1>8, <1>13, <2>1 DEF ProgressFits, Ids
  <1> QED
    BY <1>0, <1>8, <1>9, <1>10, <1>11, <1>12, <1>13, <1>14, <1>15, RecordKeeps
       DEF AnsweredIsRecorded

LEMMA TombstoneStep ==
    ASSUME EvidenceInv, Tombstone
    PROVE  EvidenceInv'
  <1>0. /\ job # Absent /\ job' = Rest(job) /\ Head(job.todo) = "side"
        /\ UNCHANGED <<archives, origin, row, object, standing, receipts, approved, rest>>
        /\ answered' = (IF Rest(job) = Absent THEN job.id ELSE answered)
    BY DEF Tombstone, At
  <1>1. /\ JobRecord(job) /\ EvidenceFits(job) /\ ProgressFits(job) /\ RecordsFit /\ DecidedFits
        /\ (job.op # "disposition" => answered = Absent) /\ StoreFits
    BY <1>0, AtWork
  <1>2. UNCHANGED <<booked, receipts>>
    BY <1>0 DEF archives
  <1>3. \/ Onward(job, "object") /\ job.op \in {"archive", "reuse", "reconcile"}
        \/ Rest(job) = Absent /\ job.op = "resume"
    BY <1>0, <1>1, Order
  <1>4. /\ job.id \in Ids /\ job.id \in Nat /\ Decided /\ receipts[job.id].kind # "disposition"
        /\ (job.op \notin {"archive", "reuse"} => receipts[job.id].kind = "reconciled")
        /\ ~(NotReconciled /\ SomeActive)
    BY <1>0, DecisionOfJob
  <1>5. PICK was : was = SnapshotOf(job).side
    OBVIOUS
  <1>6. was \in Sidecars \cup {Absent}
    BY <1>1, <1>3, <1>5 DEF EvidenceFits
  <1>7. /\ side' \in Sidecars /\ side'.life = CleanupCandidate /\ side'.stale = TRUE
        /\ side'.bound = job.id
    <2>1. PICK s : s = IF was # Absent THEN was
                       ELSE SidecarOf(Session(CleanupCandidate, TRUE, Absent))
      OBVIOUS
    <2>2. s \in Sidecars
      BY <1>6, <2>1 DEF SidecarOf, Session, Sidecars, Lives, Identities
    <2>3. side' = [s EXCEPT !.life = CleanupCandidate, !.stale = TRUE, !.bound = job.id]
      BY <1>5, <2>1 DEF Tombstone, SidecarPayload
    <2> QED BY <1>4, <2>2, <2>3 DEF Sidecars, Lives
  <1>8. side' # Absent
    BY <1>7, RecordAssumption
  <1>9. RecordsFit'
    BY <1>0, <1>1, <1>7 DEF RecordsFit, Consistent, CleanupCandidate
  <1>10. DecidedFits'
    BY <1>0, <1>1, <1>4, <1>7 DEF DecidedFits, Decided, Ids
  <1>11. ~(NotReconciled /\ SomeActive')
    BY <1>0, <1>4, <1>7 DEF SomeActive, CleanupCandidate
  <1>12. answered' \in {Absent, job.id} /\ (answered' # Absent => Rest(job) = Absent)
    BY <1>0, <1>1, <1>3
  <1>13. job.op \in {"archive", "reuse"} =>
            row # Absent /\ row.life = CleanupCandidate /\ row.kept = job.id
    BY <1>0, <1>1 DEF ProgressFits
  <1>14. AnsweredIsRecorded'
    <2>1. receipts[job.id].kind = "terminal" => job.op \in {"archive", "reuse"}
      BY <1>4
    <2> QED BY <1>0, <1>7, <1>8, <1>12, <1>13, <2>1 DEF AnsweredIsRecorded
  <1>15. job' # Absent => /\ JobRecord(job)' /\ EvidenceFits(job)' /\ ProgressFits(job)'
                          /\ (job'.op # "disposition" => answered' = Absent)
    <2> SUFFICES ASSUME job' # Absent
                 PROVE  /\ JobRecord(job)' /\ EvidenceFits(job)' /\ ProgressFits(job)'
                        /\ (job'.op # "disposition" => answered' = Absent)
      OBVIOUS
    <2>1. /\ JobRecord(job)' /\ job'.op = job.op /\ job'.seen = job.seen /\ job'.id = job.id
          /\ Head(job'.todo) = "object" /\ job.op \in {"archive", "reuse", "reconcile"}
      BY <1>0, <1>3 DEF Onward
    <2>2. EvidenceFits(job)'
      BY <1>1, <2>1 DEF EvidenceFits, EligibleEvidence, SnapshotOf
    <2>3. /\ job.id \in Ids
          /\ receipts[job.id].kind = IF job.op \in {"archive", "reuse"} THEN "terminal"
                                     ELSE "reconciled"
      BY <1>0, <1>1 DEF ProgressFits
    <2>4. ProgressFits(job)'
      BY <1>0, <1>2, <1>7, <1>8, <1>13, <2>1, <2>3 DEF ProgressFits, Ids
    <2>5. answered' = Absent
      BY <1>0, <1>12
    <2> QED BY <2>1, <2>2, <2>4, <2>5
  <1> QED
    BY <1>0, <1>4, <1>9, <1>10, <1>11, <1>12, <1>14, <1>15, RecordKeeps

LEMMA FollowStep ==
    ASSUME EvidenceInv, FollowInMemory
    PROVE  EvidenceInv'
  <1>0. /\ job # Absent /\ Head(job.todo) = "object" /\ answered' = job.id
        /\ UNCHANGED <<archives, origin, side, row, standing, receipts, approved, rest>>
    BY DEF FollowInMemory, At
  <1>1. /\ JobRecord(job) /\ ProgressFits(job) /\ RecordsFit /\ DecidedFits
    BY <1>0, AtWork
  <1>2. job' = Absent
    BY <1>0, <1>1, Order DEF FollowInMemory
  <1>3. /\ job.id \in Ids /\ Decided
        /\ (job.op \notin {"archive", "reuse"} => receipts[job.id].kind = "reconciled")
        /\ ~(NotReconciled /\ SomeActive)
    BY <1>0, DecisionOfJob
  <1>4. \/ object' = Absent
        \/ /\ object' \in Objects /\ object'.life = CleanupCandidate /\ object'.stale = TRUE
    <2>1. object # Absent => object \in Objects
      BY <1>1 DEF RecordsFit
    <2> QED BY <2>1 DEF FollowInMemory, Objects, Lives
  <1>5. RecordsFit'
    BY <1>0, <1>1, <1>4 DEF RecordsFit, Consistent, CleanupCandidate
  <1>6. DecidedFits'
    BY <1>0, <1>1, <1>3 DEF DecidedFits, Decided, Ids
  <1>7. ~(NotReconciled /\ SomeActive')
    BY <1>0, <1>3, <1>4 DEF SomeActive, CleanupCandidate
  <1>8. side # Absent /\ side.life = CleanupCandidate /\ side.bound = job.id
    BY <1>0, <1>1 DEF ProgressFits
  <1>9. receipts[job.id].kind = "terminal" =>
          row # Absent /\ row.life = CleanupCandidate /\ row.kept = job.id
    BY <1>0, <1>1, <1>3 DEF ProgressFits
  <1>10. AnsweredIsRecorded'
    BY <1>0, <1>8, <1>9 DEF AnsweredIsRecorded
  <1> QED
    BY <1>0, <1>2, <1>3, <1>5, <1>6, <1>7, <1>10, RecordKeeps

LEMMA DisposeStep ==
    ASSUME EvidenceInv, Dispose
    PROVE  EvidenceInv'
  <1>0. /\ job # Absent /\ Head(job.todo) = "dispose" /\ job' \in {Rest(job), Absent}
        /\ side = job.seen.side /\ side' = [side EXCEPT !.disp = job.seen.disp]
        /\ UNCHANGED <<archives, origin, row, object, standing, receipts, answered, approved,
                       rest>>
    BY DEF Dispose, At, calls
  <1>1. /\ JobRecord(job) /\ EvidenceFits(job) /\ RecordsFit /\ DecidedFits
        /\ (job.op # "reconcile" => ~(NotReconciled /\ SomeActive))
        /\ StoreFits /\ AnsweredIsRecorded
    BY <1>0, AtWork
  <1>2. Onward(job, "note") /\ job.op = "disposition"
    BY <1>0, <1>1, Order
  <1>3. side \in Sidecars /\ job.seen.disp \in Dispositions
    BY <1>0, <1>1, <1>2 DEF EvidenceFits
  <1>4. /\ side' \in Sidecars /\ side'.life = side.life /\ side'.stale = side.stale
        /\ side'.ident = side.ident /\ side'.bound = side.bound
    BY <1>0, <1>3 DEF Sidecars
  <1>5. side # Absent /\ side' # Absent
    BY <1>3, <1>4, RecordAssumption
  <1>6. RecordsFit'
    BY <1>0, <1>1, <1>4, <1>5 DEF RecordsFit, Consistent
  <1>7. DecidedFits'
    BY <1>0, <1>1, <1>4, <1>5 DEF DecidedFits, Decided, Ids
  <1>8. AnsweredIsRecorded'
    BY <1>0, <1>1, <1>4, <1>5 DEF AnsweredIsRecorded
  <1>9. ~(NotReconciled /\ SomeActive')
    BY <1>0, <1>1, <1>2, <1>4, <1>5 DEF SomeActive
  <1>10. job' # Absent => /\ JobRecord(job)' /\ job'.op = "disposition" /\ job'.seen = job.seen
                          /\ Head(job'.todo) = "note"
    BY <1>0, <1>2 DEF Onward
  <1>11. job' # Absent => EvidenceFits(job)'
    BY <1>1, <1>2, <1>10 DEF EvidenceFits
  <1>12. job' # Absent => ProgressFits(job)'
    BY <1>10 DEF ProgressFits
  <1>13. answered' \in Ids \cup {Absent}
    BY <1>0, <1>1 DEF StoreFits
  <1> QED
    BY <1>0, <1>6, <1>7, <1>8, <1>9, <1>10, <1>11, <1>12, <1>13, RecordKeeps

\* The steps of an identity repair: what they write is the object.
LEMMA RepairedStep ==
    ASSUME EvidenceInv, Rewrite \/ SaveRepaired
    PROVE  EvidenceInv'
  <1>0. /\ job # Absent /\ job' = Rest(job)
        /\ Head(job.todo) \in {"rewrite", "undo", "save"}
        /\ UNCHANGED <<archives, origin, object, standing, receipts, answered, approved, rest>>
        /\ \/ side' = SidecarOf(object) /\ row' = row
           \/ row' = RowOf(object) /\ side' = side
    BY DEF Rewrite, SaveRepaired, At, calls
  <1>1. /\ JobRecord(job) /\ EvidenceFits(job) /\ RecordsFit /\ DecidedFits
        /\ (job.op # "disposition" => answered = Absent)
        /\ (job.op # "reconcile" => ~(NotReconciled /\ SomeActive))
    BY <1>0, AtWork
  <1>2. /\ job.op = "repair"
        /\ \/ Onward(job, "save")
           \/ Rest(job) = Absent
    BY <1>0, <1>1, Order
  <1>3. object \in Objects /\ object # Absent /\ answered' = Absent
    BY <1>0, <1>1, <1>2 DEF EvidenceFits, RecordsFit
  <1>4. PICK s, r : s = SidecarOf(object) /\ r = RowOf(object)
    OBVIOUS
  <1>5. /\ s \in Sidecars /\ s.life = object.life /\ s.stale = object.stale
        /\ s.ident = object.ident /\ s.bound = Absent
    BY <1>3, <1>4 DEF SidecarOf, Sidecars, Objects
  <1>6. /\ r \in SessionRows /\ r.life = object.life /\ r.stale = object.stale
        /\ r.ident = object.ident /\ r.kept = Absent
    BY <1>3, <1>4 DEF RowOf, SessionRows, Objects
  <1>7. s # Absent /\ r # Absent
    BY <1>5, <1>6, RecordAssumption
  <1>8. (side' = s /\ row' = row) \/ (row' = r /\ side' = side)
    BY <1>0, <1>4
  <1>9. RecordsFit'
    BY <1>0, <1>1, <1>3, <1>5, <1>6, <1>8 DEF RecordsFit, Consistent
  <1>10. DecidedFits'
    BY <1>0, <1>1, <1>3, <1>5, <1>6, <1>8 DEF DecidedFits, Decided, Ids
  <1>11. ~(NotReconciled /\ SomeActive')
    BY <1>0, <1>1, <1>2, <1>3, <1>5, <1>6, <1>8 DEF SomeActive
  <1>12. job' # Absent => /\ JobRecord(job)' /\ job'.op = "repair" /\ job'.seen = job.seen
                          /\ Head(job'.todo) = "save"
    BY <1>0, <1>2 DEF Onward
  <1>13. job' # Absent => EvidenceFits(job)'
    BY <1>0, <1>1, <1>2, <1>12 DEF EvidenceFits
  <1>14. job' # Absent => ProgressFits(job)'
    BY <1>12 DEF ProgressFits
  <1> QED
    BY <1>0, <1>3, <1>7, <1>8, <1>9, <1>10, <1>11, <1>12, <1>13, <1>14, RecordKeeps
       DEF AnsweredIsRecorded

LEMMA FailStep ==
    ASSUME EvidenceInv, StepFails
    PROVE  EvidenceInv'
  <1>0. /\ job # Absent
        /\ UNCHANGED <<archives, origin, side, row, standing, receipts, answered, approved, rest>>
        /\ UNCHANGED calls
    BY DEF StepFails, calls
  <1>1. /\ JobRecord(job) /\ EvidenceFits(job) /\ RecordsFit /\ DecidedFits
        /\ (job.op # "disposition" => answered = Absent)
        /\ (job.op # "reconcile" => ~(NotReconciled /\ SomeActive)) /\ StoreFits
    BY <1>0, AtWork
  <1>2. CASE Head(job.todo) \in {"rewrite", "save"}
    <2>1. object' = job.seen /\ job' = [job EXCEPT !.todo = <<"undo">>]
      BY <1>2 DEF StepFails
    <2>2. job.op = "repair"
      BY <1>1, <1>2, Order
    <2>3. /\ object # Absent /\ job.seen \in Objects /\ job.seen.ident # Absent
          /\ job.seen.life = object.life /\ job.seen.stale = object.stale
          /\ answered' = Absent
      BY <1>0, <1>1, <2>2 DEF EvidenceFits
    <2>4. object' # Absent
      BY <2>1, <2>3, RecordAssumption
    <2>5. RecordsFit'
      BY <1>0, <1>1, <2>1, <2>3, <2>4 DEF RecordsFit, Consistent
    <2>6. DecidedFits'
      BY <1>0, <1>1, <2>1, <2>3 DEF DecidedFits, Decided, Ids
    <2>7. ~(NotReconciled /\ SomeActive')
      BY <1>0, <1>1, <2>1, <2>2, <2>3 DEF SomeActive
    <2>8. job' = [job EXCEPT !.todo = UndoOn]
      BY <2>1 DEF UndoOn
    <2>9. UndoOn \in StepsLeft("repair")
      BY DEF StepsLeft
    <2>10. /\ JobRecord(job)' /\ job'.op = "repair" /\ job'.seen = job.seen
           /\ job'.todo = UndoOn
      BY <1>1, <2>2, <2>8, <2>9 DEF JobRecord
    <2>11. EvidenceFits(job)'
      BY <2>1, <2>3, <2>4, <2>10 DEF EvidenceFits
    <2>12. ProgressFits(job)'
      BY <2>10, Tails DEF ProgressFits
    <2> QED
      BY <1>0, <2>3, <2>5, <2>6, <2>7, <2>10, <2>11, <2>12, RecordKeeps
         DEF AnsweredIsRecorded
  <1>3. CASE Head(job.todo) \notin {"rewrite", "save"}
    <2>1. job' = Absent /\ object' = object
      BY <1>3 DEF StepFails
    <2>2. UNCHANGED <<tree, evidence, calls, rest>> /\ booked' = booked /\ filed' = filed
      BY <1>0, <2>1 DEF archives, evidence, records
    <2>3. ArchivesHold' /\ booked \subseteq booked' /\ booked' \subseteq Contents
          /\ filed' \in [Contents -> Contents \cup {Absent, Spoilt}]
      BY <1>1, <2>2 DEF StoreFits, ArchivesHold
    <2> QED BY <1>0, <2>1, <2>2, <2>3, PipelineKeeps
  <1> QED BY <1>2, <1>3

-----------------------------------------------------------------------------
(* The other handlers, stops and boots: no call is at work afterwards.      *)

LEMMA RestKeeps ==
    ASSUME EvidenceInv, job' = Absent,
           UNCHANGED <<archives, origin, receipts, adopted>>,
           busy' \in BOOLEAN, expired' \in BOOLEAN, heir' \in BOOLEAN,
           approved' \in BOOLEAN, imports' \in BOOLEAN, up' \in BOOLEAN,
           answered' \in {answered, Absent},
           RecordsFit', DecidedFits', LiveIsNotTerminal', AnsweredIsRecorded', ImportIsWhole',
           \/ ~(NotReconciled /\ SomeActive')
           \/ /\ SomeActive /\ row' # Absent
              /\ \A v \in {side', row', object'} : v # Absent => v.life = "active"
    PROVE  EvidenceInv'
  <1>0. UNCHANGED <<tree, filed, booked, origin, receipts, adopted>>
    BY DEF archives
  <1>1. StoreFits'
    BY <1>0 DEF EvidenceInv, StoreFits, ArchivesHold, Recorded, Ids
  <1>2. ReceiptsFit'
    BY <1>0 DEF EvidenceInv, ReceiptsFit, ReceiptFits, Ids, ArchivedAsSeen, EligibleEvidence
  <1>3. JobFits'
    BY DEF JobFits
  <1>4. ActiveFits'
    <2>1. CASE ~(NotReconciled /\ SomeActive')
      BY <1>0, <2>1 DEF ActiveFits, NotReconciled, Ids
    <2>2. CASE SomeActive /\ row' # Absent
               /\ \A v \in {side', row', object'} : v # Absent => v.life = "active"
      <3>1. NotReconciled' => NotReconciled /\ \A i \in Ids : receipts[i].kind # "terminal"
        BY <1>0, <2>2 DEF EvidenceInv, ActiveFits, NotReconciled, Ids
      <3> QED BY <1>0, <2>2, <3>1 DEF ActiveFits, Ids
    <2> QED BY <2>1, <2>2
  <1> QED BY <1>1, <1>2, <1>3, <1>4 DEF EvidenceInv

LEMMA StopStep ==
    ASSUME EvidenceInv, RuntimeStops
    PROVE  EvidenceInv'
  <1>0. /\ UNCHANGED <<archives, origin, row, receipts, adopted, answered, standing, import>>
        /\ job' = Absent /\ object' = Absent /\ up' = FALSE /\ approved' = FALSE
    BY DEF RuntimeStops
  <1>1. UNCHANGED <<busy, expired, heir, imports, taskRow>>
    BY <1>0 DEF standing, import
  <1>2. \/ side' = side
        \/ side' = Absent /\ job # Absent /\ Head(job.todo) \in {"rewrite", "undo"}
    BY DEF RuntimeStops
  <1>3. side' = side \/ (side' = Absent /\ answered = Absent)
    <2>1. CASE side' = Absent /\ job # Absent /\ Head(job.todo) \in {"rewrite", "undo"}
      BY <2>1, AtWork, Order
    <2> QED BY <1>2, <2>1
  <1>4. /\ StoreFits /\ RecordsFit /\ DecidedFits /\ LiveIsNotTerminal /\ AnsweredIsRecorded
        /\ ActiveFits /\ ImportIsWhole
    BY DEF EvidenceInv
  <1>5. RecordsFit'
    BY <1>0, <1>3, <1>4 DEF RecordsFit, Consistent
  <1>6. DecidedFits'
    BY <1>0, <1>3, <1>4 DEF DecidedFits, Decided, Ids
  <1>7. LiveIsNotTerminal' /\ ImportIsWhole'
    BY <1>0, <1>1, <1>3, <1>4 DEF LiveIsNotTerminal, ImportIsWhole
  <1>8. AnsweredIsRecorded'
    BY <1>0, <1>3, <1>4 DEF AnsweredIsRecorded
  <1>9. SomeActive' => SomeActive
    BY <1>0, <1>3 DEF SomeActive
  <1>10. \/ ~(NotReconciled /\ SomeActive')
         \/ /\ SomeActive /\ row' # Absent
            /\ \A v \in {side', row', object'} : v # Absent => v.life = "active"
    BY <1>0, <1>3, <1>4, <1>9 DEF ActiveFits
  <1>11. /\ busy' \in BOOLEAN /\ expired' \in BOOLEAN /\ heir' \in BOOLEAN
         /\ approved' \in BOOLEAN /\ imports' \in BOOLEAN /\ up' \in BOOLEAN
    BY <1>0, <1>1, <1>4 DEF StoreFits
  <1> QED
    BY <1>0, <1>5, <1>6, <1>7, <1>8, <1>10, <1>11, RestKeeps

\* A boot takes its object from the sidecar or the row that is there.
LEMMA ObjectIs ==
    ASSUME NEW v \in Sidecars \cup SessionRows
    PROVE  /\ ObjectOf(v) \in Objects /\ ObjectOf(v).life = v.life
           /\ ObjectOf(v).stale = v.stale /\ ObjectOf(v).ident = v.ident
  <1> DEFINE p == IF "proof" \in DOMAIN v THEN v.proof ELSE Absent
  <1>1. v.life \in Lives /\ v.stale \in BOOLEAN /\ v.ident \in Identities
    BY DEF Sidecars, SessionRows
  <1>2. p \in Identities
    <2>1. CASE v \in Sidecars
      BY <2>1 DEF Sidecars, Identities
    <2>2. CASE v \in SessionRows
      <3>1. DOMAIN v = {"life", "stale", "ident", "kept"}
        BY <2>2 DEF SessionRows
      <3> QED BY <3>1 DEF Identities
    <2> QED BY <2>1, <2>2
  <1>3. ObjectOf(v) = [life |-> v.life, stale |-> v.stale, ident |-> v.ident, proof |-> p]
    BY DEF ObjectOf
  <1> HIDE DEF p
  <1> QED BY <1>1, <1>2, <1>3 DEF Objects

LEMMA BootStep ==
    ASSUME EvidenceInv, Boot
    PROVE  EvidenceInv'
  <1>0. /\ StoreFits /\ RecordsFit /\ DecidedFits /\ LiveIsNotTerminal /\ AnsweredIsRecorded
        /\ ActiveFits /\ ImportIsWhole
    BY DEF EvidenceInv
  <1>1. /\ job' = Absent /\ up' = TRUE
        /\ UNCHANGED <<archives, origin, receipts, adopted, answered, approved, busy, expired,
                       heir, imports, taskRow>>
    BY DEF Boot, EvidenceInv, JobFits, standing, calls, import
  <1>2. PICK v : v = IF side # Absent THEN side ELSE row
    OBVIOUS
  <1>3. PICK lost \in BOOLEAN :
          lost = (v # Absent /\ ~v.stale /\ v.life = "active" /\ ~expired /\ ~busy)
    OBVIOUS
  <1>4. PICK ident : ident = IF v = Absent THEN Absent
                             ELSE IF v.ident # Absent THEN v.ident ELSE StoredIdentity
    OBVIOUS
  <1>5. PICK s : s = IF v = Absent \/ ident = Absent THEN Absent
                     ELSE [ObjectOf(v) EXCEPT !.life = IF lost THEN "stale" ELSE @,
                                              !.stale = lost \/ @, !.ident = ident]
    OBVIOUS
  <1>6. /\ object' = s
        /\ side' = (IF lost THEN SidecarOf(s) ELSE side)
        /\ row' = (IF lost THEN RowOf(s) ELSE row)
    BY <1>2, <1>3, <1>4, <1>5 DEF Boot
  <1>7. v # Absent => v \in Sidecars \cup SessionRows /\ Consistent(v)
    BY <1>0, <1>2 DEF RecordsFit
  <1>8. ident \in Identities
    <2>1. StoredIdentity \in Identities
      BY <1>0, SnapshotFits DEF Snapshot
    <2> QED BY <1>4, <1>7, <2>1 DEF Sidecars, SessionRows, Identities
  <1>9. \/ s = Absent /\ ~lost
        \/ /\ s \in Objects /\ s # Absent /\ v # Absent /\ s.ident = ident /\ ident # Absent
           /\ IF lost THEN s.life = "stale" /\ s.stale = TRUE
              ELSE s.life = v.life /\ s.stale = v.stale
    <2>1. CASE v = Absent \/ ident = Absent
      BY <1>3, <1>4, <1>5, <1>7, <2>1 DEF Consistent
    <2>2. CASE v # Absent /\ ident # Absent
      <3>1. PICK u : u = ObjectOf(v)
        OBVIOUS
      <3>2. u \in Objects /\ u.life = v.life /\ u.stale = v.stale
        BY <1>7, <2>2, <3>1, ObjectIs
      <3>3. s = [u EXCEPT !.life = IF lost THEN "stale" ELSE @, !.stale = lost \/ @,
                          !.ident = ident]
        BY <1>5, <2>2, <3>1
      <3>4. CASE lost
        <4>1. s = [u EXCEPT !.life = "stale", !.stale = TRUE, !.ident = ident]
          BY <3>3, <3>4
        <4>2. s \in Objects /\ s.life = "stale" /\ s.stale = TRUE /\ s.ident = ident
          BY <1>8, <3>2, <4>1 DEF Objects, Lives
        <4> QED BY <2>2, <3>4, <4>2, RecordAssumption
      <3>5. CASE ~lost
        <4>1. u.stale \in BOOLEAN
          BY <3>2 DEF Objects
        <4>2. s = [u EXCEPT !.ident = ident]
          BY <3>2, <3>3, <3>5, <4>1 DEF Objects
        <4>3. s \in Objects /\ s.life = u.life /\ s.stale = u.stale /\ s.ident = ident
          BY <1>8, <3>2, <4>2 DEF Objects
        <4> QED BY <2>2, <3>2, <3>5, <4>3, RecordAssumption
      <3> QED BY <3>4, <3>5
    <2> QED BY <2>1, <2>2
  <1>10. CASE ~lost
    <2>1. side' = side /\ row' = row
      BY <1>6, <1>10
    <2>2. object' # Absent => /\ object' \in Objects /\ object'.life = v.life
                              /\ object'.stale = v.stale /\ object'.ident # Absent
                              /\ v # Absent
      BY <1>6, <1>9, <1>10
    <2>3. RecordsFit'
      BY <1>0, <1>7, <2>1, <2>2 DEF RecordsFit, Consistent
    <2>4. v \in {side, row}
      BY <1>2
    <2>5. DecidedFits'
      BY <1>0, <1>1, <2>1, <2>2, <2>4 DEF DecidedFits, Decided, Ids
    <2>6. LiveIsNotTerminal' /\ ImportIsWhole'
      BY <1>0, <1>1, <2>1 DEF LiveIsNotTerminal, ImportIsWhole
    <2>7. AnsweredIsRecorded'
      BY <1>0, <1>1, <2>1 DEF AnsweredIsRecorded
    <2>8. SomeActive' => SomeActive
      BY <2>1, <2>2, <2>4 DEF SomeActive
    <2>9. \/ ~(NotReconciled /\ SomeActive')
          \/ /\ SomeActive /\ row' # Absent
             /\ \A w \in {side', row', object'} : w # Absent => w.life = "active"
      BY <1>0, <2>1, <2>2, <2>4, <2>8 DEF ActiveFits
    <2>10. /\ busy' \in BOOLEAN /\ expired' \in BOOLEAN /\ heir' \in BOOLEAN
           /\ approved' \in BOOLEAN /\ imports' \in BOOLEAN /\ up' \in BOOLEAN
      BY <1>0, <1>1 DEF StoreFits
    <2> QED BY <1>1, <2>3, <2>5, <2>6, <2>7, <2>9, <2>10, RestKeeps
  <1>11. CASE lost
    <2>1. /\ s \in Objects /\ s # Absent /\ s.life = "stale" /\ s.stale = TRUE
          /\ v # Absent /\ v.life = "active" /\ ~busy
      BY <1>3, <1>9, <1>11
    <2>2. side' = SidecarOf(s) /\ row' = RowOf(s) /\ object' = s
      BY <1>6, <1>11
    <2>3. /\ side' \in Sidecars /\ side'.life = "stale" /\ side'.stale = TRUE
          /\ side'.bound = Absent
      BY <2>1, <2>2 DEF SidecarOf, Sidecars, Objects
    <2>4. /\ row' \in SessionRows /\ row'.life = "stale" /\ row'.stale = TRUE
          /\ row'.kept = Absent
      BY <2>1, <2>2 DEF RowOf, SessionRows, Objects
    <2>5. RecordsFit'
      BY <2>1, <2>2, <2>3, <2>4 DEF RecordsFit, Consistent
    <2>6. DecidedFits'
      BY <2>1, <2>2, <2>3, <2>4 DEF DecidedFits, CleanupCandidate
    <2>7. answered = Absent
      BY <1>0, <1>2, <2>1 DEF AnsweredIsRecorded, CleanupCandidate
    <2>8. row' # Absent
      BY <2>4, RecordAssumption
    <2>9. LiveIsNotTerminal' /\ ImportIsWhole' /\ AnsweredIsRecorded'
      BY <1>0, <1>1, <2>1, <2>7, <2>8 DEF LiveIsNotTerminal, ImportIsWhole, AnsweredIsRecorded
    <2>10. ~SomeActive'
      BY <2>1, <2>2, <2>3, <2>4 DEF SomeActive
    <2>11. /\ busy' \in BOOLEAN /\ expired' \in BOOLEAN /\ heir' \in BOOLEAN
           /\ approved' \in BOOLEAN /\ imports' \in BOOLEAN /\ up' \in BOOLEAN
      BY <1>0, <1>1 DEF StoreFits
    <2> QED BY <1>1, <2>5, <2>6, <2>9, <2>10, <2>11, RestKeeps
  <1> QED BY <1>10, <1>11

LEMMA AttachStep ==
    ASSUME EvidenceInv, Attach
    PROVE  EvidenceInv'
  <1>0. /\ StoreFits /\ RecordsFit /\ DecidedFits /\ ImportIsWhole
    BY DEF EvidenceInv
  <1>1. /\ job' = Absent /\ side' = Absent /\ object' = Absent /\ answered' = Absent
        /\ busy' = TRUE /\ heir' = TRUE /\ approved' = FALSE
        /\ row' = (IF row = Absent THEN Absent ELSE [row EXCEPT !.life = "stale", !.stale = TRUE])
        /\ UNCHANGED <<archives, origin, receipts, adopted, expired, imports, taskRow, up>>
    BY DEF Attach, BetweenCalls, rest, import
  <1>2. row # Absent => /\ row' \in SessionRows /\ row'.life = "stale" /\ row'.stale = TRUE
                        /\ row'.kept = row.kept /\ row' # Absent
    <2>1. row # Absent => row \in SessionRows
      BY <1>0 DEF RecordsFit
    <2>2. row # Absent => /\ row' \in SessionRows /\ row'.life = "stale" /\ row'.stale = TRUE
                          /\ row'.kept = row.kept
      BY <1>1, <2>1 DEF SessionRows, Lives
    <2> QED BY <2>2, RecordAssumption
  <1>3. row = Absent => row' = Absent
    BY <1>1
  <1>4. RecordsFit'
    BY <1>1, <1>2, <1>3 DEF RecordsFit, Consistent
  <1>5. DecidedFits'
    BY <1>0, <1>1, <1>2, <1>3 DEF DecidedFits, Decided, Ids, CleanupCandidate
  <1>6. LiveIsNotTerminal' /\ AnsweredIsRecorded'
    BY <1>1, <1>2, <1>3 DEF LiveIsNotTerminal, AnsweredIsRecorded, CleanupCandidate
  <1>7. ImportIsWhole'
    BY <1>0, <1>1, <1>2 DEF ImportIsWhole
  <1>8. ~SomeActive'
    BY <1>1, <1>2, <1>3 DEF SomeActive
  <1>9. /\ busy' \in BOOLEAN /\ expired' \in BOOLEAN /\ heir' \in BOOLEAN
        /\ approved' \in BOOLEAN /\ imports' \in BOOLEAN /\ up' \in BOOLEAN
    BY <1>0, <1>1 DEF StoreFits
  <1> QED BY <1>1, <1>4, <1>5, <1>6, <1>7, <1>8, <1>9, RestKeeps

LEMMA SuspendStep ==
    ASSUME EvidenceInv, Suspend
    PROVE  EvidenceInv'
  <1>0. /\ StoreFits /\ RecordsFit /\ DecidedFits /\ LiveIsNotTerminal /\ AnsweredIsRecorded
        /\ ActiveFits /\ ImportIsWhole
    BY DEF EvidenceInv
  <1>1. /\ job' = Absent /\ busy' = FALSE
        /\ UNCHANGED <<archives, origin, receipts, adopted, answered, approved, expired, heir,
                       imports, taskRow, up>>
    BY DEF Suspend, BetweenCalls, calls, rest, import
  <1>2. answered = Absent
    BY <1>0 DEF Suspend, LiveIsNotTerminal, AnsweredIsRecorded
  <1>3. AnsweredIsRecorded' /\ LiveIsNotTerminal'
    BY <1>1, <1>2 DEF AnsweredIsRecorded, LiveIsNotTerminal
  <1>4. /\ busy' \in BOOLEAN /\ expired' \in BOOLEAN /\ heir' \in BOOLEAN
        /\ approved' \in BOOLEAN /\ imports' \in BOOLEAN /\ up' \in BOOLEAN
    BY <1>0, <1>1 DEF StoreFits
  <1>5. CASE heir
    <2>1. UNCHANGED <<side, row, object>>
      BY <1>5 DEF Suspend, records
    <2>2. RecordsFit'
      BY <1>0, <2>1 DEF RecordsFit, Consistent
    <2>3. DecidedFits' /\ ImportIsWhole'
      BY <1>0, <1>1, <2>1 DEF DecidedFits, Decided, Ids, ImportIsWhole
    <2>4. \/ ~(NotReconciled /\ SomeActive')
          \/ /\ SomeActive /\ row' # Absent
             /\ \A v \in {side', row', object'} : v # Absent => v.life = "active"
      BY <1>0, <2>1 DEF ActiveFits, SomeActive
    <2> QED BY <1>1, <1>3, <1>4, <2>2, <2>3, <2>4, RestKeeps
  <1>6. CASE ~heir
    <2>1. PICK s : s = [object EXCEPT !.life = "suspended", !.stale = TRUE]
      OBVIOUS
    <2>2. object # Absent /\ object' = s /\ side' = SidecarOf(s) /\ row' = RowOf(s)
      BY <1>6, <2>1 DEF Suspend
    <2>3. s \in Objects /\ s.life = "suspended" /\ s.stale = TRUE
      BY <1>0, <2>1, <2>2 DEF RecordsFit, Objects, Lives
    <2>4. /\ side' \in Sidecars /\ side'.life = "suspended" /\ side'.stale = TRUE
          /\ side'.bound = Absent
      BY <2>2, <2>3 DEF SidecarOf, Sidecars, Objects
    <2>5. /\ row' \in SessionRows /\ row'.life = "suspended" /\ row'.stale = TRUE
          /\ row'.kept = Absent
      BY <2>2, <2>3 DEF RowOf, SessionRows, Objects
    <2>6. RecordsFit'
      BY <2>2, <2>3, <2>4, <2>5 DEF RecordsFit, Consistent
    <2>7. DecidedFits'
      BY <2>2, <2>3, <2>4, <2>5 DEF DecidedFits, CleanupCandidate
    <2>8. row' # Absent
      BY <2>5, RecordAssumption
    <2>9. ImportIsWhole'
      BY <1>0, <1>1, <2>8 DEF ImportIsWhole
    <2>10. ~SomeActive'
      BY <2>2, <2>3, <2>4, <2>5 DEF SomeActive
    <2> QED BY <1>1, <1>3, <1>4, <2>6, <2>7, <2>9, <2>10, RestKeeps
  <1> QED BY <1>5, <1>6

LEMMA ImportStep ==
    ASSUME EvidenceInv, ExecuteImport
    PROVE  EvidenceInv'
  <1>0. /\ StoreFits /\ RecordsFit /\ DecidedFits /\ LiveIsNotTerminal /\ AnsweredIsRecorded
        /\ ActiveFits /\ ImportIsWhole
    BY DEF EvidenceInv
  <1>1. plan.seen.session = Old /\ plan.seen.task = "older"
    BY DEF ExecuteImport, SourceUnchanged, Bundle
  <1>2. /\ job' = Absent /\ imports' = TRUE /\ taskRow' = "older"
        /\ row' = (IF row = Absent THEN Old ELSE row)
        /\ UNCHANGED <<archives, origin, side, object, receipts, adopted, answered, approved,
                       busy, expired, heir, up>>
    BY <1>1 DEF ExecuteImport, Executes, BetweenCalls, standing, Same
  <1>3. /\ Old \in SessionRows /\ Old.life = "stale" /\ Old.stale = TRUE /\ Old.kept = Absent
    BY DEF Old, RowOf, Session, SessionRows, Lives, Identities, Origins
  <1>4. PICK old : old = Old
    OBVIOUS
  <1>5. /\ old \in SessionRows /\ old.life = "stale" /\ old.stale = TRUE /\ old.kept = Absent
        /\ old # Absent /\ row' = (IF row = Absent THEN old ELSE row)
    BY <1>2, <1>3, <1>4, RecordAssumption
  <1>6. RecordsFit'
    BY <1>0, <1>2, <1>5 DEF RecordsFit, Consistent
  <1>7. DecidedFits'
    BY <1>0, <1>2, <1>5 DEF DecidedFits, Decided, Ids, CleanupCandidate
  <1>8. LiveIsNotTerminal' /\ AnsweredIsRecorded'
    BY <1>0, <1>2, <1>5 DEF LiveIsNotTerminal, AnsweredIsRecorded, CleanupCandidate
  <1>9. ImportIsWhole'
    BY <1>2, <1>5 DEF ImportIsWhole
  <1>10. SomeActive' => SomeActive
    BY <1>2, <1>5 DEF SomeActive
  <1>11. \/ ~(NotReconciled /\ SomeActive')
         \/ /\ SomeActive /\ row' # Absent
            /\ \A v \in {side', row', object'} : v # Absent => v.life = "active"
    BY <1>0, <1>2, <1>5, <1>10 DEF ActiveFits
  <1>12. /\ busy' \in BOOLEAN /\ expired' \in BOOLEAN /\ heir' \in BOOLEAN
         /\ approved' \in BOOLEAN /\ imports' \in BOOLEAN /\ up' \in BOOLEAN
    BY <1>0, <1>2 DEF StoreFits
  <1> QED BY <1>2, <1>6, <1>7, <1>8, <1>9, <1>11, <1>12, RestKeeps

LEMMA PlanStep ==
    ASSUME PlanFits, MaintenanceNext
    PROVE  PlanFits'
  <1>1. CASE \E call \in {"repair", "disposition", "archive", "reconcile"} : Preflight(call)
    <2>1. PICK call \in {"repair", "disposition", "archive", "reconcile"} : plan' \in PlanOf(call)
      BY <1>1 DEF Preflight
    <2>2. CASE call = "disposition"
      <3>1. PICK d \in Dispositions : plan' = DispositionPlan(d)
        BY <2>1, <2>2 DEF PlanOf
      <3> QED BY <3>1 DEF DispositionPlan, Observed, PlanFits
    <2>3. CASE call # "disposition"
      <3>1. plan'.op # "disposition"
        BY <2>1, <2>3 DEF PlanOf, RepairPlan, ArchivePlan, ReconcilePlan, Observed
      <3> QED BY <3>1 DEF PlanFits
    <2> QED BY <2>2, <2>3
  <1>2. CASE PreflightAdoption \/ PreflightImport
    <2>1. plan'.op # "disposition"
      BY <1>2 DEF PreflightAdoption, PreflightImport, Observed
    <2> QED BY <2>1 DEF PlanFits
  <1>3. CASE plan' \in {plan, Absent}
    BY <1>3 DEF PlanFits
  <1>4. Step => plan' = plan
    BY DEF Step, ArchiveStep, SaveReceipt, PersistRetained, PersistReconciled, Tombstone,
           FollowInMemory, Dispose, Rewrite, SaveRepaired, StepFails, calls
  <1>5. World => plan' \in {plan, Absent}
    BY DEF World, RuntimeStops, Boot, Expire, Remount, SourceChanges, TaskTaken, calls
  <1>6. Call => \/ \E call \in {"repair", "disposition", "archive", "reconcile"} : Preflight(call)
                \/ PreflightAdoption \/ PreflightImport
                \/ plan' \in {plan, Absent}
    BY DEF Call, ExecuteRepair, ExecuteDisposition, ExecuteArchive, ExecuteReconcile,
           ExecuteAdoption, ExecuteImport, RequestAttach, Attach, Suspend, Begin, Answer, calls,
           rest
  <1> QED BY <1>1, <1>2, <1>3, <1>4, <1>5, <1>6 DEF MaintenanceNext

-----------------------------------------------------------------------------
(* The evidence is sound.                                                   *)

LEMMA EvidenceStep == EvidenceInv /\ PlanFits /\ MaintenanceNext => EvidenceInv'
  <1> SUFFICES ASSUME EvidenceInv, PlanFits, MaintenanceNext PROVE EvidenceInv'
    OBVIOUS
  <1>1. CASE QuietActions
    BY <1>1, QuietHandlers
  <1>2. ASSUME ExecuteDisposition, ~Answer(answered) PROVE EvidenceInv'
    BY <1>2, DispositionStep
  <1>3. ASSUME ExecuteReconcile, ~Answer(answered) PROVE EvidenceInv'
    BY <1>3, ReconcileBegins
  <1>4. CASE Call
    BY <1>1, <1>2, <1>3, <1>4, RepairStep, ArchiveBegins, ImportStep, AttachStep, SuspendStep
       DEF Call, QuietActions
  <1>5. CASE Step
    BY <1>5, PipelineStep, ReceiptStep, PersistStep, TombstoneStep, FollowStep, DisposeStep,
       RepairedStep, FailStep DEF Step
  <1>6. CASE World
    BY <1>1, <1>6, StopStep, BootStep DEF World, QuietActions
  <1> QED BY <1>4, <1>5, <1>6 DEF MaintenanceNext

LEMMA EvidenceStutter == EvidenceInv /\ PlanFits /\ UNCHANGED maintenanceVars
                            => EvidenceInv' /\ PlanFits'
  <1> SUFFICES ASSUME EvidenceInv, PlanFits, UNCHANGED maintenanceVars
               PROVE  EvidenceInv' /\ PlanFits'
    OBVIOUS
  <1>1. /\ UNCHANGED <<tree, filed, booked, job, origin, side, row, object, busy, expired, heir,
                       receipts, approved, answered, adopted, taskRow, imports, up>>
        /\ plan' = plan
    BY DEF maintenanceVars, archives, evidence, records, standing, calls, rest, import
  <1>2. StoreFits' /\ ImportIsWhole'
    BY <1>1 DEF EvidenceInv, StoreFits, ArchivesHold, Recorded, Ids, ImportIsWhole
  <1>3. EvidenceInv'
    BY <1>1, <1>2, QuietKeeps
  <1> QED BY <1>1, <1>3 DEF PlanFits

\* Where nothing has changed since, a terminal receipt matches again.
LEMMA CutOffMatches ==
    ASSUME EvidenceInv
    PROVE  CutOffIsRepairable
  <1> SUFFICES
        ASSUME NEW i \in Ids,
               receipts[i].kind = "terminal", job = Absent, object # Absent,
               \A k \in Ids \ {i} : /\ receipts[k].kind = "disposition"
                                    /\ Anchor(receipts[k]) = Anchor(receipts[i]),
               Len(receipts) <= 2,
               \A k \in Ids \ {i} : receipts[k].disp = receipts[i].seen.obs.disp,
               booked = {receipts[i].archive}, ~LiveSession,
               tree = receipts[i].seen.obs.tree, busy = receipts[i].seen.obs.busy,
               origin = receipts[i].seen.obs.current,
               side # Absent, side.disp = receipts[i].seen.obs.disp,
               object.ident = receipts[i].seen.obs.stored
        PROVE  TerminalMatches(receipts[i], RetainedState)
    BY DEF CutOffIsRepairable
  <1>0. StoreFits /\ RecordsFit /\ ActiveFits /\ ReceiptsFit
    BY DEF EvidenceInv
  <1>1. PICK c : c = receipts[i]
    OBVIOUS
  <1>2. PICK o : o = c.seen.obs
    OBVIOUS
  <1>3. /\ c.kind = "terminal" /\ o \in Observations /\ ArchiveEligible(o)
        /\ c.seen.preview = o.tree /\ c.archive = o.tree /\ c.archive \in booked
    BY <1>0, <1>1, <1>2 DEF ReceiptsFit, ReceiptFits, EligibleEvidence
  <1>4. /\ o.disp \in Dispositions /\ ~o.live /\ ~o.busy /\ ~o.conflicts
        /\ o.stored # Absent /\ o.tree # Absent
    BY <1>3 DEF ArchiveEligible, AtRest
  <1>5. Known = side
    BY DEF Known, First
  <1>6. ObservedIdentity = object.ident
    BY <1>1, <1>2, <1>4, RecordAssumption DEF ObservedIdentity
  <1>7. ~Conflicts
    <2>1. Cardinality(booked) = 1
      BY FS_Singleton
    <2>2. Len(receipts) > 1 => Compatible(receipts)
      <3> SUFFICES ASSUME Len(receipts) > 1 PROVE Compatible(receipts)
        OBVIOUS
      <3>0. Len(receipts) \in Nat /\ Ids = 1..Len(receipts)
        BY <1>0 DEF StoreFits, Ids
      <3>1. Len(receipts) = 2 /\ Ids = 1..2
        <4>1. PICK n : n = Len(receipts)
          OBVIOUS
        <4>2. n \in Nat /\ n <= 2 /\ n > 1
          BY <3>0, <4>1
        <4>3. n = 2
          BY <4>2
        <4> QED BY <3>0, <4>1, <4>3
      <3>2. PICK k \in 1..2 : k # i
        OBVIOUS
      <3>3. /\ receipts[k].kind = "disposition" /\ receipts[k].disp = o.disp
            /\ Anchor(receipts[k]) = Anchor(receipts[i])
        BY <1>1, <1>2, <3>1, <3>2
      <3>4. /\ receipts[i].seen.obs.disp = o.disp
            /\ receipts[i].archive = receipts[i].seen.preview
        BY <1>1, <1>2, <1>3
      <3>5. k \in 1..2 /\ i \in 1..2
        BY <3>1, <3>2
      <3> QED BY <1>4, <3>1, <3>3, <3>4, <3>5 DEF Compatible
    <2> QED BY <2>1, <2>2 DEF Conflicts
  <1>8. /\ Observation \in Observations /\ Observation.tree = tree
        /\ Observation.busy = busy /\ Observation.current = origin
        /\ Observation.stored = ObservedIdentity /\ Observation.live = LiveSession
        /\ Observation.life = side.life /\ Observation.stale = side.stale
        /\ Observation.conflicts = Conflicts /\ Observation.disp = side.disp
    BY <1>0, <1>5, ObservationFits
  <1>9. /\ o.live = FALSE /\ o.conflicts = FALSE /\ Observation.live = FALSE
        /\ Observation.conflicts = FALSE
    <2>1. o.live \in BOOLEAN /\ o.conflicts \in BOOLEAN
      BY <1>3 DEF Observations
    <2>2. Observation.live \in BOOLEAN /\ Observation.conflicts \in BOOLEAN
      BY <1>8 DEF Observations
    <2>3. ~Observation.live /\ ~Observation.conflicts
      BY <1>7, <1>8
    <2> QED BY <1>4, <2>1, <2>2, <2>3
  <1>10. /\ o.stored = Observation.stored /\ o.current = Observation.current
         /\ o.tree = Observation.tree /\ o.busy = Observation.busy
         /\ o.disp = Observation.disp
    BY <1>1, <1>2, <1>6, <1>8
  <1>11. Immutable(o) = Immutable(Observation)
    BY <1>3, <1>8, <1>9, <1>10, SameObservation
  <1>12. side.life \in Retainable /\ side.stale
    <2>1. side \in Sidecars /\ Consistent(side)
      BY <1>0 DEF RecordsFit
    <2>2. NotReconciled
      BY DEF NotReconciled
    <2>3. side.life # "active"
      BY <1>0, <2>2 DEF ActiveFits, SomeActive
    <2>4. side.life \in Lives
      BY <2>1 DEF Sidecars
    <2> QED BY <2>1, <2>3, <2>4 DEF Consistent, Retainable, Lives
  <1>13. ArchiveEligible(Observation)
    <2>1. ~Observation.live /\ ~Observation.busy /\ ~Observation.conflicts
      BY <1>4, <1>9, <1>10
    <2>2. Observation.life \in Retainable /\ Observation.stale
      BY <1>8, <1>12
    <2>3. /\ Observation.disp \in Dispositions /\ Observation.stored # Absent
          /\ Observation.tree # Absent
      BY <1>4, <1>10
    <2> QED BY <2>1, <2>2, <2>3 DEF ArchiveEligible, AtRest
  <1>14. /\ RetainedState.preview = o.tree /\ RetainedState.obs = Observation
    BY <1>10, <1>13 DEF RetainedState, Preview
  <1>15. filed[c.archive] # Absent
    BY <1>0, <1>3 DEF StoreFits, ArchivesHold
  <1> QED BY <1>1, <1>2, <1>3, <1>4, <1>11, <1>14, <1>15 DEF TerminalMatches

\* A job at work has a step to go.
LEMMA StepsRemain ==
    ASSUME NEW call \in Operations, NEW todo \in StepsLeft(call)
    PROVE  todo # <<>>
  <1>1. ObjectOn # <<>> /\ SideOn # <<>> /\ RowOn # <<>>
    BY DEF ObjectOn, SideOn, RowOn
  <1>2. ReceiptOn # <<>> /\ BookOn # <<>> /\ PublishOn # <<>> /\ BuildOn # <<>>
    BY DEF ReceiptOn, BookOn, PublishOn, BuildOn
  <1>3. StateOn # <<>> /\ ReconciledOn # <<>> /\ BookedOn # <<>>
    BY DEF StateOn, ReconciledOn, BookedOn
  <1>4. PublishedOn # <<>> /\ BuiltOn # <<>> /\ SideOnly # <<>>
    BY DEF PublishedOn, BuiltOn, SideOnly
  <1>5. RewriteOn # <<>> /\ DisposeOn # <<>> /\ SaveOn # <<>> /\ UndoOn # <<>> /\ NoteOn # <<>>
    BY DEF RewriteOn, DisposeOn, SaveOn, UndoOn, NoteOn
  <1> QED BY <1>1, <1>2, <1>3, <1>4, <1>5 DEF Operations, StepsLeft

\* The invariant says at least what the property does.
LEMMA InvariantIsSound == EvidenceInv => EvidenceIsSound
  <1> SUFFICES ASSUME EvidenceInv PROVE EvidenceIsSound
    OBVIOUS
  <1>0. /\ StoreFits /\ RecordsFit /\ ReceiptsFit /\ DecidedFits /\ JobFits
    BY DEF EvidenceInv
  <1>1. MaintenanceTypes
    <2>1. job # Absent => up /\ job.todo # <<>>
      <3>1. ASSUME job # Absent PROVE job.todo # <<>>
        <4>1. JobRecord(job)
          BY <1>0, <3>1 DEF JobFits
        <4>2. job.op \in Operations /\ job.todo \in StepsLeft(job.op)
          BY <4>1 DEF JobRecord
        <4> QED BY <4>2, StepsRemain
      <3> QED BY <1>0, <3>1 DEF JobFits
    <2>2. \A v \in {side, row, object} : v # Absent => v.life \in Lives /\ v.stale \in BOOLEAN
      BY <1>0 DEF RecordsFit, Sidecars, SessionRows, Objects
    <2> QED BY <1>0, <2>1, <2>2 DEF StoreFits, MaintenanceTypes
  <1>2. TerminalIsArchived
    BY <1>0 DEF ReceiptsFit, ReceiptFits, EligibleEvidence, ArchivedAsSeen, TerminalIsArchived
  <1>3. CleanupIsDecided
    <2>1. \A i \in Ids : receipts[i].kind # "disposition"
                            => Transition(receipts[i]) = CleanupCandidate
      BY DEF Transition
    <2>2. Decided => \E i \in Ids : Transition(receipts[i]) = CleanupCandidate
      BY <2>1 DEF Decided
    <2> QED BY <1>0, <2>1, <2>2 DEF DecidedFits, CleanupIsDecided
  <1>4. CutOffIsRepairable
    BY CutOffMatches
  <1> QED BY <1>0, <1>1, <1>2, <1>3, <1>4 DEF EvidenceInv, StoreFits, EvidenceIsSound

\* Whatever maintenance calls are cut off, repeated or overtaken, for any contents,
\* dispositions, archives, receipts, mishaps and uses: what the receipts, the row,
\* the sidecar and the object say of the session agrees with the archives and with
\* one another.
THEOREM EvidenceTheorem == MaintenanceSpec => []EvidenceIsSound
  <1>1. MaintenanceInit => EvidenceInv /\ PlanFits
    BY EvidenceInit DEF MaintenanceInit, PlanFits
  <1>2. EvidenceInv /\ PlanFits /\ [MaintenanceNext]_maintenanceVars => EvidenceInv' /\ PlanFits'
    BY EvidenceStep, PlanStep, EvidenceStutter
  <1>3. EvidenceInv => EvidenceIsSound
    BY InvariantIsSound
  <1> QED BY <1>1, <1>2, <1>3, PTL DEF MaintenanceSpec
=============================================================================
