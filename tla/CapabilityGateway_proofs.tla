----------------------- MODULE CapabilityGateway_proofs -----------------------
(* For any number of runtimes, workspaces, receipts and changes: what a      *)
(* receipt shows is what is written, it is carried out once, nobody is       *)
(* trusted unasked, and the locks exclude each other's writers. The argument *)
(* follows a call from the receipt it is about: CallKnows is what it has     *)
(* established of its change, Once what its receipt may still be used for.   *)
EXTENDS CapabilityGateway, FiniteSetTheorems, SequenceTheorems, WellFoundedInduction, TLAPS

-----------------------------------------------------------------------------
(* The inductive invariant.                                                 *)

\* The kinds of change by the argument they take.
Profiles == {"browser", "desktop", "slot", "command"}
Removals == {"remove", "cleanup"}
Trusts == {"patch", "policy", "trust"}
Mutations == Registrations \cup Moves \cup Profiles \cup Removals \cup Trusts
Ops ==
    {op \in [kind : Mutations \cup {"other"}, ws : Workspaces,
             arg : Workspaces \cup Paths \cup Specs \cup Levels \cup {None}, path : Paths \cup {None}] :
        /\ op.kind \in {"register"} \cup Moves => op.arg \in Paths
        /\ op.kind \in Moves => op.path \in Paths
        /\ op.kind = "rename" => op.arg \in Workspaces
        /\ op.kind \in Trusts => op.arg \in Levels
        /\ op.kind \in Profiles \cup Removals => op.arg \in Specs}

\* A receipt of the registry's own handlers has no binding; one of the gateway has
\* the binding of its kind, and a trust level is never raised unasked.
Binding == [pins : Profiles \cup Removals \cup {"trust", "nothing", "digest"},
            writes : BOOLEAN, bound : BOOLEAN]
Receipts ==
    {c \in [op : Ops, base : Document \cup {None}, owner : Runtimes, kept : BOOLEAN,
            outer : {"none", "fresh", "spent", "gone"}, spec : Binding \cup {None},
            trust : Levels \cup {None}, asks : BOOLEAN, seen : Nat] :
        /\ c.op.kind \notin {"back", "policy"}
        /\ c.op.kind # "other" => c.base \in Document
        /\ c.outer = "none" <=> c.op.kind \in Registrations \cup {"relocate"}
        /\ c.outer # "none" =>
             /\ c.spec \in Binding
             /\ c.spec.pins = c.op.kind \/ (c.spec.pins \in {"nothing", "digest"} /\ c.op.kind = "other")
        /\ Grants(c.op) => c.asks}

Locking == {"lock", "replace", "readback", "written", "refused", "failed"}
Writing == {"replace", "readback"}
Calls(k, b) ==
    [at : Locking \cup {"rename", "rollback", "moveback", "context", "handler"}, op : Ops,
     base : Document \cup {None}, before : {b},
     after : Document \cup {None}, rcpt : 0..k, whole : BOOLEAN, word : BOOLEAN]

\* What a call has established of its change and of the receipt it is about.
CallKnows(j, t) ==
    /\ j.at \in Locking => j.op.kind \in Mutations
    /\ j.at = "rename" => j.op.kind = "relocate"
    /\ j.at \in {"rollback", "moveback"} => j.op.kind \in Moves
    /\ j.rcpt = 0 => j.op.kind \in {"register", "policy"} /\ j.at \in Locking
    /\ j.rcpt # 0 =>
         /\ j.op = t[j.rcpt].op \/ (j.op.kind = "back" /\ t[j.rcpt].op.kind = "relocate")
         /\ j.at \in {"context", "handler"} => t[j.rcpt].outer # "none" /\ j.op = t[j.rcpt].op
         /\ j.at \in {"rename", "lock"} \cup Writing /\ j.op.kind \notin {"back", "command"}
              => j.base = t[j.rcpt].base
    /\ j.at \in Writing =>
         /\ j.before \in Document /\ j.after \in Results(j.before, j.op)
         /\ j.base \in {None, j.before}

JobFits(j, t) == j = Idle \/ (j \in Calls(Len(t), j.before) /\ CallKnows(j, t))

\* What a call knows of trust that was granted.
TrustFits(j, g) ==
    /\ j.at \notin {"idle", "context"} /\ Grants(j.op) => g
    /\ j.at \in Writing => (Trusted(j.before) # {} => g) /\ (Trusted(j.after) # {} => g)

\* A replacement in progress has read what is there, or the last replacement was
\* one that its lock does not exclude.
ReadFits(j, f, a) == j.at = "replace" => f = j.before \/ a # LockOf(j.op)

Exclusive ==
    \A r, s \in Runtimes :
        r # s /\ job[r].at \in Writing /\ job[s].at \in Writing
            => LockOf(job[r].op) # LockOf(job[s].op)

\* The receipt that a call is carrying out, and whether another call may begin to.
Work(j) == IF j.at \in {"idle", "context"} THEN 0 ELSE j.rcpt
Open(c) == c.outer = "fresh" \/ (c.outer = "none" /\ c.kept)

Once(n) ==
    /\ succeeded[n] <= 1 /\ started[n] <= 1
    /\ n > Len(rcpt) => succeeded[n] = 0 /\ started[n] = 0
    /\ n <= Len(rcpt) =>
         /\ Open(rcpt[n]) => succeeded[n] = 0
         /\ rcpt[n].outer = "fresh" => started[n] = 0
         /\ \A r \in Runtimes : Work(job[r]) = n =>
              /\ succeeded[n] = 0
              /\ \A s \in Runtimes : Work(job[s]) = n => r = s
              /\ rcpt[n].op.kind \in Registrations => rcpt[n].kept /\ rcpt[n].owner = r
              /\ Open(rcpt[n]) => rcpt[n].op.kind \in Registrations

Fresh(t) == {n \in DOMAIN t : t[n].outer = "fresh"}

Shape ==
    /\ file \in Document /\ author \in {"registry", "policy", "operator"}
    /\ dirs \subseteq Paths /\ apart \in BOOLEAN /\ granted \in BOOLEAN /\ world \in Nat
    /\ rcpt \in Seq(Receipts) /\ Len(rcpt) <= MaxReceipts
    /\ started \in [Ids -> Nat] /\ succeeded \in [Ids -> Nat]
    /\ job = [r \in Runtimes |-> job[r]]

GatewayInv ==
    /\ Shape
    /\ Cardinality(Fresh(rcpt)) <= MaxOpen
    /\ \A r \in Runtimes :
         JobFits(job[r], rcpt) /\ TrustFits(job[r], granted) /\ ReadFits(job[r], file, author)
    /\ Exclusive /\ LocksSerialize /\ TrustIsGranted
    /\ \A n \in Ids : Once(n)

-----------------------------------------------------------------------------
(* What a change makes of a document.                                       *)

\* An entry of a document, and an entry that is changed.
LEMMA EntryFits ==
    ASSUME NEW doc \in Document, NEW w \in Workspaces, NEW e \in Entry \cup {None}
    PROVE  /\ [doc EXCEPT ![w] = e] \in Document
           /\ [doc EXCEPT ![w] = e][w] = e
           /\ \A v \in Workspaces \ {w} : [doc EXCEPT ![w] = e][v] = doc[v]
  BY DEF Document

LEMMA EntryChanged ==
    ASSUME NEW e \in Entry
    PROVE  /\ \A p \in Paths : [e EXCEPT !.path = p] \in Entry /\ [e EXCEPT !.path = p].trust = e.trust
           /\ \A l \in Levels : [e EXCEPT !.trust = l] \in Entry /\ [e EXCEPT !.trust = l].trust = l
           /\ \A i \in Specs \cup {None} :
                [e EXCEPT !.item = i] \in Entry /\ [e EXCEPT !.item = i].trust = e.trust
  BY DEF Entry

\* Replacing one entry trusts nobody else.
LEMMA TrustedAfter ==
    ASSUME NEW doc \in Document, NEW w \in Workspaces, NEW e \in Entry \cup {None},
           e # None /\ e.trust = "trusted" => Trusted(doc) # {}
    PROVE  Trusted([doc EXCEPT ![w] = e]) # {} => Trusted(doc) # {}
<1> DEFINE d == [doc EXCEPT ![w] = e]
<1> SUFFICES ASSUME NEW v \in Trusted(d) PROVE Trusted(doc) # {}
  OBVIOUS
<1>1. v \in Workspaces /\ d[v] # None /\ d[v].trust = "trusted"
  BY DEF Trusted, Registered
<1>2. CASE v = w
  BY <1>1, <1>2, EntryFits
<1>3. CASE v # w
  <2>1. d[v] = doc[v]
    BY <1>1, <1>3, EntryFits
  <2>2. v \in Trusted(doc)
    BY <1>1, <2>1 DEF Trusted, Registered
  <2> QED BY <2>2
<1> QED BY <1>2, <1>3

\* A document of every change is a document, and it trusts a workspace that was not
\* trusted only where the change is a grant of trust.
LEMMA ResultsFit ==
    ASSUME NEW doc \in Document, NEW op \in Ops, op.kind \in Mutations,
           NEW d \in Results(doc, op)
    PROVE  d \in Document /\ (Trusted(d) # {} => Trusted(doc) # {} \/ Grants(op))
<1> DEFINE w == op.ws
           e == doc[w]
           Good(f) == f \in Document /\ (Trusted(f) # {} => Trusted(doc) # {} \/ Grants(op))
<1>1. w \in Workspaces /\ e \in Entry \cup {None}
  BY DEF Ops, Document
<1>2. Good(doc)
  OBVIOUS
<1>3. ASSUME NEW v \in Workspaces, NEW x \in Entry \cup {None},
             x # None /\ x.trust = "trusted" => Trusted(doc) # {} \/ Grants(op)
      PROVE  Good([doc EXCEPT ![v] = x])
  BY <1>3, EntryFits, TrustedAfter
<1>4. e # None /\ e.trust = "trusted" => Trusted(doc) # {}
  <2> SUFFICES ASSUME e # None, e.trust = "trusted" PROVE w \in Trusted(doc)
    OBVIOUS
  <2> QED BY <1>1 DEF Trusted, Registered
<1>5. NewEntry(op.arg).trust # "trusted"
  BY DEF NewEntry
<1>6. ASSUME NEW x \in Entry, e # None, x.trust = e.trust \/ x.trust # "trusted"
      PROVE  Good([doc EXCEPT ![w] = x])
  BY <1>1, <1>3, <1>4, <1>6
<1>7. CASE op.kind = "register"
  <2>1. NewEntry(op.arg) \in Entry
    BY <1>7 DEF NewEntry, Entry, Ops, Levels
  <2>2. d = doc \/ d = [doc EXCEPT ![w] = NewEntry(op.arg)]
    BY <1>7 DEF Results, AddWorkspace
  <2> QED BY <1>1, <1>2, <1>3, <1>5, <2>1, <2>2
<1>8. CASE op.kind = "unregister"
  <2>1. d = [doc EXCEPT ![w] = None]
    BY <1>8 DEF Results, RemoveWorkspace
  <2> QED BY <1>1, <1>3, <2>1
<1>9. CASE op.kind = "rename"
  <2>1. d = [doc EXCEPT ![op.arg] = e, ![w] = None]
    BY <1>9 DEF Results, RenameWorkspace
  <2>2. op.arg \in Workspaces
    BY <1>9 DEF Ops
  <2> DEFINE m == [doc EXCEPT ![op.arg] = e]
  <2>3. Good(m)
    BY <1>1, <1>3, <1>4, <2>2
  <2>4. d = [m EXCEPT ![w] = None]
    BY <2>1
  <2> HIDE DEF m
  <2> QED BY <1>1, <2>3, <2>4, EntryFits, TrustedAfter
<1>10. CASE op.kind = "patch"
  <2>1. e # None /\ ~ExpandsTrust(e, op.arg) /\ d = [doc EXCEPT ![w].trust = op.arg]
    BY <1>10 DEF Results, PatchWorkspace, Pinned
  <2>2. d = [doc EXCEPT ![w] = [e EXCEPT !.trust = op.arg]]
    BY <1>1, <2>1 DEF Document
  <2>3. [e EXCEPT !.trust = op.arg] \in Entry /\ [e EXCEPT !.trust = op.arg].trust = op.arg
    BY <1>1, <1>10, <2>1, EntryChanged DEF Ops, Trusts
  <2> QED BY <1>6, <2>1, <2>2, <2>3 DEF ExpandsTrust
<1>11. CASE op.kind \in Moves
  <2>1. e # None /\ d = [doc EXCEPT ![w].path = op.arg]
    BY <1>11 DEF Results, RelocatePath, Pinned, Moves
  <2>2. d = [doc EXCEPT ![w] = [e EXCEPT !.path = op.arg]]
    BY <1>1, <2>1 DEF Document
  <2>3. e \in Entry /\ op.arg \in Paths
    BY <1>1, <1>11, <2>1 DEF Ops
  <2>4. [e EXCEPT !.path = op.arg] \in Entry /\ [e EXCEPT !.path = op.arg].trust = e.trust
    BY <2>3, EntryChanged
  <2> QED BY <1>6, <2>1, <2>2, <2>4
<1>12. CASE op.kind \in Profiles
  <2>1. e # None /\ d = [doc EXCEPT ![w].item = op.arg]
    BY <1>12 DEF Profiles, Results, RegisterBrowser, RegisterDesktop, RegisterCredentialSlot,
                 RegisterCommandProfile, WithItem, Pinned
  <2>2. d = [doc EXCEPT ![w] = [e EXCEPT !.item = op.arg]]
    BY <1>1, <2>1 DEF Document
  <2>3. e \in Entry /\ op.arg \in Specs
    BY <1>1, <1>12, <2>1 DEF Ops
  <2>4. [e EXCEPT !.item = op.arg] \in Entry /\ [e EXCEPT !.item = op.arg].trust = e.trust
    BY <2>3, EntryChanged
  <2> QED BY <1>6, <2>1, <2>2, <2>4
<1>13. CASE op.kind \in Removals
  <2>1. e # None /\ d = [doc EXCEPT ![w].item = None]
    BY <1>13 DEF Removals, Results, UnregisterCommandProfile, CleanupCommandProfiles, Pinned
  <2>2. d = [doc EXCEPT ![w] = [e EXCEPT !.item = None]]
    BY <1>1, <2>1 DEF Document
  <2>3. [e EXCEPT !.item = None] \in Entry /\ [e EXCEPT !.item = None].trust = e.trust
    BY <1>1, <2>1, EntryChanged
  <2> QED BY <1>6, <2>1, <2>2, <2>3
<1>14. CASE op.kind = "policy"
  <2>1. e # None /\ ~ExpandsTrust(e, op.arg) /\ d = [doc EXCEPT ![w].trust = op.arg]
    BY <1>14 DEF Results, UpdatePolicy
  <2>2. d = [doc EXCEPT ![w] = [e EXCEPT !.trust = op.arg]]
    BY <1>1, <2>1 DEF Document
  <2>3. [e EXCEPT !.trust = op.arg] \in Entry /\ [e EXCEPT !.trust = op.arg].trust = op.arg
    BY <1>1, <1>14, <2>1, EntryChanged DEF Ops, Trusts
  <2> QED BY <1>6, <2>1, <2>2, <2>3 DEF ExpandsTrust
<1>15. CASE op.kind = "trust"
  <2>1. e # None /\ d = [doc EXCEPT ![w].trust = op.arg]
    BY <1>15 DEF Results, SetTrustLevel
  <2>2. d = [doc EXCEPT ![w] = [e EXCEPT !.trust = op.arg]]
    BY <1>1, <2>1 DEF Document
  <2>3. [e EXCEPT !.trust = op.arg] \in Entry /\ [e EXCEPT !.trust = op.arg].trust = op.arg
    BY <1>1, <1>15, <2>1, EntryChanged DEF Ops, Trusts
  <2> QED BY <1>1, <1>3, <1>15, <2>2, <2>3 DEF Grants
<1> QED
  BY <1>7, <1>8, <1>9, <1>10, <1>11, <1>12, <1>13, <1>14, <1>15
  DEF Mutations, Registrations, Trusts

-----------------------------------------------------------------------------
(* What becomes of the receipts.                                            *)

\* A receipt keeps what it shows; it is never kept, fresh or of the gateway anew.
Keeps(c, d) ==
    /\ d.op = c.op /\ d.base = c.base /\ d.owner = c.owner /\ d.spec = c.spec
    /\ d.kept => c.kept
    /\ d.outer = "fresh" => c.outer = "fresh"
    /\ d.outer = "none" <=> c.outer = "none"

Grown(t, u) ==
    /\ u \in Seq(Receipts) /\ Len(t) <= Len(u)
    /\ \A n \in 1..Len(t) : Keeps(t[n], u[n])

LEMMA ReceiptsOf ==
    ASSUME NEW t \in Seq(Receipts)
    PROVE  /\ Len(t) \in Nat /\ DOMAIN t = 1..Len(t)
           /\ \A n \in 1..Len(t) : t[n] \in Receipts
  OBVIOUS

LEMMA ReceiptChanged ==
    ASSUME NEW t \in Seq(Receipts), NEW n \in 1..Len(t), NEW c \in Receipts, Keeps(t[n], c)
    PROVE  LET u == [t EXCEPT ![n] = c]
           IN  /\ Grown(t, u) /\ Len(u) = Len(t)
               /\ \A k \in 1..Len(t) : u[k] = IF k = n THEN c ELSE t[k]
<1> DEFINE u == [t EXCEPT ![n] = c]
<1>1. u \in Seq(Receipts) /\ Len(u) = Len(t)
  OBVIOUS
<1>2. \A k \in 1..Len(t) : u[k] = IF k = n THEN c ELSE t[k]
  OBVIOUS
<1>3. Len(t) \in Nat
  OBVIOUS
<1>4. \A k \in 1..Len(t) : Keeps(t[k], u[k])
  BY <1>2 DEF Keeps
<1> QED BY <1>1, <1>2, <1>3, <1>4 DEF Grown

LEMMA ReceiptAdded ==
    ASSUME NEW t \in Seq(Receipts), NEW c \in Receipts
    PROVE  LET u == Append(t, c)
           IN  /\ Grown(t, u) /\ Len(u) = Len(t) + 1 /\ u[Len(t) + 1] = c
               /\ \A k \in 1..Len(t) : u[k] = t[k]
<1> DEFINE u == Append(t, c)
<1>1. u \in Seq(Receipts) /\ Len(u) = Len(t) + 1 /\ u[Len(t) + 1] = c
  OBVIOUS
<1>2. \A k \in 1..Len(t) : u[k] = t[k]
  OBVIOUS
<1>3. Len(t) \in Nat
  OBVIOUS
<1>4. \A k \in 1..Len(t) : Keeps(t[k], u[k])
  BY <1>2 DEF Keeps
<1> QED BY <1>1, <1>2, <1>3, <1>4 DEF Grown

LEMMA GrownTwice ==
    ASSUME NEW t \in Seq(Receipts), NEW u, NEW v, Grown(t, u), Grown(u, v)
    PROVE  Grown(t, v)
<1>1. Len(t) \in Nat /\ Len(u) \in Nat /\ Len(v) \in Nat /\ Len(t) <= Len(u) /\ Len(u) <= Len(v)
  BY DEF Grown
<1>2. \A n \in 1..Len(t) : n \in 1..Len(u)
  BY <1>1
<1>3. \A n \in 1..Len(t) : Keeps(t[n], u[n]) /\ Keeps(u[n], v[n])
  BY <1>2 DEF Grown
<1>4. \A n \in 1..Len(t) : Keeps(t[n], v[n])
  BY <1>3 DEF Keeps
<1> QED BY <1>1, <1>4 DEF Grown

LEMMA GrownNot ==
    ASSUME NEW t \in Seq(Receipts)
    PROVE  Grown(t, t)
<1>1. Len(t) \in Nat
  OBVIOUS
<1> QED BY <1>1 DEF Grown, Keeps

\* Dropping a receipt, and consuming one of the gateway.
LEMMA DroppedFits ==
    ASSUME NEW c \in Receipts
    PROVE  LET d == [c EXCEPT !.kept = FALSE]
           IN  d \in Receipts /\ Keeps(c, d) /\ ~d.kept /\ d.outer = c.outer
  BY DEF Receipts, Keeps

LEMMA SpentFits ==
    ASSUME NEW c \in Receipts, c.outer # "none", NEW o \in {"spent", "gone"}
    PROVE  LET d == [c EXCEPT !.outer = o]
           IN  d \in Receipts /\ Keeps(c, d) /\ d.outer = o /\ d.kept = c.kept
<1> DEFINE d == [c EXCEPT !.outer = o]
<1>1. c \in [op : Ops, base : Document \cup {None}, owner : Runtimes, kept : BOOLEAN,
             outer : {"none", "fresh", "spent", "gone"}, spec : Binding \cup {None},
             trust : Levels \cup {None}, asks : BOOLEAN, seen : Nat]
  BY DEF Receipts
<1>2. d \in [op : Ops, base : Document \cup {None}, owner : Runtimes, kept : BOOLEAN,
             outer : {"none", "fresh", "spent", "gone"}, spec : Binding \cup {None},
             trust : Levels \cup {None}, asks : BOOLEAN, seen : Nat]
  BY <1>1
<1>3. /\ d.op = c.op /\ d.base = c.base /\ d.owner = c.owner /\ d.spec = c.spec
      /\ d.kept = c.kept /\ d.asks = c.asks /\ d.outer = o /\ d.outer # "none" /\ d.outer # "fresh"
  BY <1>1
<1> HIDE DEF d
<1>4. d \in Receipts
  BY <1>2, <1>3 DEF Receipts
<1>5. Keeps(c, d)
  BY <1>3 DEF Keeps
<1> QED BY <1>3, <1>4, <1>5 DEF d

\* The number of fresh receipts.
LEMMA FreshIsFinite ==
    ASSUME NEW t \in Seq(Receipts)
    PROVE  IsFiniteSet(Fresh(t)) /\ Fresh(t) \subseteq 1..Len(t)
<1>1. Fresh(t) \subseteq 1..Len(t) /\ Len(t) \in Int /\ 1 \in Int
  BY DEF Fresh
<1>2. IsFiniteSet(1..Len(t))
  BY <1>1, FS_Interval
<1> QED BY <1>1, <1>2, FS_Subset

LEMMA FewerFresh ==
    ASSUME NEW t \in Seq(Receipts), Cardinality(Fresh(t)) <= MaxOpen,
           NEW S, S \subseteq Fresh(t)
    PROVE  Cardinality(S) <= MaxOpen
<1>1. /\ Cardinality(S) <= Cardinality(Fresh(t))
      /\ Cardinality(S) \in Nat /\ Cardinality(Fresh(t)) \in Nat
  BY FreshIsFinite, FS_Subset, FS_CardinalityType
<1> QED BY <1>1, GatewayAssumption

\* No receipt becomes fresh that was not.
LEMMA FreshStays ==
    ASSUME NEW t \in Seq(Receipts), NEW u, Grown(t, u),
           Cardinality(Fresh(t)) <= MaxOpen,
           \A n \in 1..Len(u) : n > Len(t) => u[n].outer # "fresh"
    PROVE  Cardinality(Fresh(u)) <= MaxOpen
<1>1. ASSUME NEW n \in Fresh(u) PROVE n \in Fresh(t)
  <2>1. n \in 1..Len(u) /\ u[n].outer = "fresh" /\ Len(u) \in Nat /\ Len(t) \in Nat
    BY DEF Fresh, Grown
  <2>2. n \in 1..Len(t)
    BY <2>1
  <2> QED BY <2>1, <2>2 DEF Grown, Keeps, Fresh
<1> QED BY <1>1, FewerFresh

\* The least element of a set of natural numbers.
LEMMA Least ==
    ASSUME NEW S, S \subseteq Nat, S # {}
    PROVE  \E i \in S : \A j \in S : i <= j
<1>1. PICK x \in S : \A y \in S : ~(<<y, x>> \in OpToRel(<, Nat))
  BY NatLessThanWellFounded, WFMin
<1>2. \A y \in S : ~(y < x)
  BY <1>1 DEF OpToRel
<1>3. ASSUME NEW y \in S PROVE x <= y
  <2>1. x \in Nat /\ y \in Nat /\ ~(y < x)
    BY <1>2
  <2> QED BY <2>1
<1> QED BY <1>3

\* Pruning leaves no more than the limit: the oldest that stays is one of at most
\* that many.
LEMMA PrunedFits ==
    ASSUME NEW t \in Seq(Receipts)
    PROVE  /\ Grown(t, Pruned(t)) /\ Len(Pruned(t)) = Len(t)
           /\ \A n \in 1..Len(t) : Pruned(t)[n].kept = t[n].kept
           /\ Cardinality(Fresh(Pruned(t))) <= MaxOpen
<1> DEFINE u == Pruned(t)
           Above(n) == {m \in Fresh(t) : m >= n}
           oldest == {n \in Fresh(t) : Cardinality(Above(n)) > MaxOpen}
           d(n) == IF n \in oldest THEN [t[n] EXCEPT !.outer = "gone"] ELSE t[n]
<1>1. Len(t) \in Nat /\ DOMAIN t = 1..Len(t) /\ \A n \in 1..Len(t) : t[n] \in Receipts
  BY ReceiptsOf
<1>2. u = [n \in 1..Len(t) |-> d(n)]
  BY <1>1 DEF Pruned, Fresh
<1>3. ASSUME NEW n \in 1..Len(t)
      PROVE  /\ d(n) \in Receipts /\ Keeps(t[n], d(n)) /\ d(n).kept = t[n].kept
             /\ d(n).outer = "fresh" => n \in Fresh(t) \ oldest
  <2>1. CASE n \in oldest
    <3>1. t[n].outer = "fresh" /\ d(n) = [t[n] EXCEPT !.outer = "gone"]
      BY <2>1 DEF Fresh
    <3>2. /\ [t[n] EXCEPT !.outer = "gone"] \in Receipts
          /\ Keeps(t[n], [t[n] EXCEPT !.outer = "gone"])
          /\ [t[n] EXCEPT !.outer = "gone"].outer = "gone"
          /\ [t[n] EXCEPT !.outer = "gone"].kept = t[n].kept
      BY <3>1, <1>1, SpentFits
    <3> QED BY <3>1, <3>2
  <2>2. CASE n \notin oldest
    <3>1. d(n) = t[n]
      BY <2>2
    <3>2. d(n).outer = "fresh" => n \in Fresh(t)
      BY <3>1, <1>1 DEF Fresh
    <3> HIDE DEF d
    <3> QED BY <3>1, <3>2, <2>2, <1>1 DEF Keeps
  <2> QED BY <2>1, <2>2
<1> HIDE DEF d
<1>4. u \in Seq(Receipts) /\ Len(u) = Len(t) /\ \A n \in 1..Len(t) : u[n] = d(n)
  <2> HIDE DEF u
  <2>1. u \in [1..Len(t) -> Receipts] /\ \A n \in 1..Len(t) : u[n] = d(n)
    BY <1>2, <1>3
  <2> QED BY <1>1, <2>1
<1> HIDE DEF u, oldest
<1>5. Grown(t, u)
  BY <1>1, <1>3, <1>4 DEF Grown
<1>6. Fresh(u) \subseteq Fresh(t) \ oldest
  <2> SUFFICES ASSUME NEW n \in Fresh(u) PROVE n \in Fresh(t) \ oldest
    OBVIOUS
  <2>1. n \in 1..Len(t) /\ u[n].outer = "fresh"
    BY <1>4 DEF Fresh
  <2> QED BY <2>1, <1>3, <1>4
<1>7. Cardinality(Fresh(t) \ oldest) <= MaxOpen /\ IsFiniteSet(Fresh(t) \ oldest)
  <2>1. IsFiniteSet(Fresh(t)) /\ Fresh(t) \subseteq Nat
    BY FreshIsFinite
  <2>2. IsFiniteSet(Fresh(t) \ oldest)
    BY <2>1, FS_Subset
  <2>3. CASE Fresh(t) \ oldest = {}
    BY <2>2, <2>3, FS_EmptySet, GatewayAssumption
  <2>4. CASE Fresh(t) \ oldest # {}
    <3>1. PICK n \in Fresh(t) \ oldest : \A m \in Fresh(t) \ oldest : n <= m
      BY <2>1, <2>4, Least
    <3>2. Fresh(t) \ oldest \subseteq Above(n)
      BY <2>1, <3>1
    <3>3. IsFiniteSet(Above(n)) /\ Cardinality(Above(n)) \in Nat
      BY <2>1, FS_Subset, FS_CardinalityType
    <3>4. ~(Cardinality(Above(n)) > MaxOpen)
      BY <3>1 DEF oldest
    <3>5. Cardinality(Fresh(t) \ oldest) <= Cardinality(Above(n))
      BY <3>2, <3>3, FS_Subset
    <3>6. Cardinality(Fresh(t) \ oldest) \in Nat
      BY <2>2, FS_CardinalityType
    <3> HIDE DEF Above
    <3> QED BY <2>2, <3>3, <3>4, <3>5, <3>6, GatewayAssumption
  <2> QED BY <2>3, <2>4
<1>8. Cardinality(Fresh(u)) <= MaxOpen
  <2>1. /\ Cardinality(Fresh(u)) <= Cardinality(Fresh(t) \ oldest)
        /\ Cardinality(Fresh(u)) \in Nat /\ Cardinality(Fresh(t) \ oldest) \in Nat
    BY <1>6, <1>7, FS_Subset, FS_CardinalityType
  <2> QED BY <1>7, <2>1, GatewayAssumption
<1> QED BY <1>3, <1>4, <1>5, <1>8 DEF u

-----------------------------------------------------------------------------
(* What a step of one runtime does to the invariant.                        *)

LEMMA JobStays ==
    ASSUME NEW t \in Seq(Receipts), NEW u, Grown(t, u), NEW j, JobFits(j, t)
    PROVE  JobFits(j, u)
<1>1. Len(t) \in Nat /\ Len(u) \in Nat /\ Len(t) <= Len(u)
  BY DEF Grown
<1> SUFFICES ASSUME j \in Calls(Len(t), j.before), CallKnows(j, t)
             PROVE  j \in Calls(Len(u), j.before) /\ CallKnows(j, u)
  BY DEF JobFits
<1>2. j.rcpt \in 0..Len(t) /\ j.rcpt \in 0..Len(u)
  BY <1>1 DEF Calls
<1>3. j \in Calls(Len(u), j.before)
  BY <1>2 DEF Calls
<1>4. CASE j.rcpt = 0
  BY <1>3, <1>4 DEF CallKnows
<1>5. CASE j.rcpt # 0
  <2>1. Keeps(t[j.rcpt], u[j.rcpt])
    BY <1>1, <1>2, <1>5 DEF Grown
  <2> QED BY <1>3, <1>5, <2>1 DEF CallKnows, Keeps
<1> QED BY <1>4, <1>5

LEMMA TrustStays ==
    ASSUME NEW j, NEW g \in BOOLEAN, NEW h \in BOOLEAN, g => h, TrustFits(j, g)
    PROVE  TrustFits(j, h)
  BY DEF TrustFits

\* A call works on a receipt that was issued.
LEMMA WorkBound ==
    ASSUME NEW t \in Seq(Receipts), NEW j, JobFits(j, t)
    PROVE  Work(j) \in Nat /\ Work(j) <= Len(t)
<1>1. Len(t) \in Nat
  OBVIOUS
<1>2. CASE j = Idle
  BY <1>1, <1>2 DEF Idle, Work
<1>3. CASE j \in Calls(Len(t), j.before)
  BY <1>1, <1>3 DEF Calls, Work
<1> QED BY <1>2, <1>3 DEF JobFits

\* The call of every other runtime is left alone.
Others(r) ==
    /\ job' = [s \in Runtimes |-> job'[s]]
    /\ \A s \in Runtimes \ {r} : job'[s] = job[s]

\* The step neither begins nor ends the work on a receipt with a success; the
\* receipt of a registration under way is not dropped.
Rests(r) ==
    /\ succeeded' = succeeded /\ started' = started
    /\ Work(job'[r]) \in {0, Work(job[r])}
    /\ \A n \in 1..Len(rcpt) :
         rcpt[n].op.kind \in Registrations /\ rcpt'[n].kept # rcpt[n].kept
            => \A s \in Runtimes : Work(job'[s]) # n

\* The step begins the work on a receipt that is open; only that of a registration
\* stays open, and it is one of the runtime's own.
Starts(r) ==
    \E n \in 1..Len(rcpt) :
        /\ Work(job[r]) = 0 /\ Work(job'[r]) = n
        /\ Open(rcpt[n])
        /\ IF rcpt[n].op.kind \in Registrations THEN rcpt'[n].kept /\ rcpt[n].owner = r
           ELSE ~Open(rcpt'[n])
        /\ \A k \in 1..Len(rcpt) \ {n} : rcpt'[k].kept = rcpt[k].kept
        /\ succeeded' = succeeded
        /\ \/ started' = started
           \/ /\ rcpt[n].outer = "fresh" /\ rcpt'[n].outer # "fresh"
              /\ started' = [started EXCEPT ![n] = @ + 1]

\* The step ends the work on a receipt with a success, and the receipt is used up.
Reports(r) ==
    \E n \in 1..Len(rcpt) :
        /\ Work(job[r]) = n /\ Work(job'[r]) = 0
        /\ ~Open(rcpt'[n])
        /\ \A k \in 1..Len(rcpt) \ {n} : rcpt'[k].kept = rcpt[k].kept
        /\ succeeded' = [succeeded EXCEPT ![n] = @ + 1] /\ started' = started

\* The registry is left alone, whatever becomes of the rest.
Quiet ==
    /\ file' = file /\ author' = author /\ lost' = lost
    /\ granted' \in BOOLEAN /\ (granted => granted')
    /\ dirs' \subseteq Paths /\ apart' \in BOOLEAN /\ world' \in Nat

Effect(r) ==
    /\ Others(r) /\ Quiet
    /\ Grown(rcpt, rcpt') /\ Len(rcpt') <= MaxReceipts /\ Cardinality(Fresh(rcpt')) <= MaxOpen
    /\ \/ job'[r] = job[r]
       \/ /\ JobFits(job'[r], rcpt') /\ TrustFits(job'[r], granted')
          /\ job'[r].at \notin Writing
    /\ Rests(r) \/ Starts(r) \/ Reports(r)

\* What a receipt may be used for, after a step of one runtime.
LEMMA OnceKept ==
    ASSUME GatewayInv, NEW r \in Runtimes, Others(r), Grown(rcpt, rcpt'),
           Rests(r) \/ Starts(r) \/ Reports(r), NEW n \in Ids
    PROVE  Once(n)' /\ succeeded'[n] \in Nat /\ started'[n] \in Nat
<1>1. /\ rcpt \in Seq(Receipts) /\ Len(rcpt) \in Nat /\ Len(rcpt') \in Nat /\ Len(rcpt) <= Len(rcpt')
      /\ Len(rcpt) <= MaxReceipts
      /\ n \in Nat \ {0} /\ succeeded[n] \in Nat /\ started[n] \in Nat
      /\ started \in [Ids -> Nat] /\ succeeded \in [Ids -> Nat] /\ Once(n)
      /\ \A k \in 1..Len(rcpt) : k \in Ids
  BY ReceiptsAssumption DEF GatewayInv, Shape, Grown, Ids
<1>2. \A s \in Runtimes : Work(job[s]) \in Nat /\ Work(job[s]) <= Len(rcpt)
  BY WorkBound DEF GatewayInv, Shape
<1>3. \A s \in Runtimes \ {r} : Work(job'[s]) = Work(job[s])
  BY DEF Others
<1>4. CASE Rests(r)
  <2>1. succeeded'[n] = succeeded[n] /\ started'[n] = started[n]
    BY <1>4 DEF Rests
  <2>2. \A s \in Runtimes : Work(job'[s]) \in {0, Work(job[s])}
    BY <1>3, <1>4 DEF Rests
  <2>3. CASE n > Len(rcpt)
    <3>1. \A s \in Runtimes : Work(job'[s]) # n
      <4> SUFFICES ASSUME NEW s \in Runtimes PROVE Work(job'[s]) # n
        OBVIOUS
      <4>1. Work(job'[s]) = 0 \/ Work(job'[s]) = Work(job[s])
        BY <2>2
      <4> QED BY <4>1, <1>1, <1>2, <2>3
    <3>2. succeeded[n] = 0 /\ started[n] = 0
      BY <1>1, <2>3 DEF Once
    <3> QED BY <2>1, <3>1, <3>2 DEF Once
  <2>4. CASE n <= Len(rcpt)
    <3>1. n \in 1..Len(rcpt) /\ Keeps(rcpt[n], rcpt'[n])
      BY <1>1, <2>4 DEF Grown
    <3>2. \A s \in Runtimes : Work(job'[s]) = n => Work(job[s]) = n
      BY <1>1, <2>2
    <3>3. Open(rcpt'[n]) => Open(rcpt[n])
      BY <3>1 DEF Keeps, Open
    <3>4. ASSUME NEW s \in Runtimes, Work(job'[s]) = n
          PROVE  /\ succeeded[n] = 0
                 /\ \A q \in Runtimes : Work(job'[q]) = n => s = q
                 /\ rcpt'[n].op.kind \in Registrations => rcpt'[n].kept /\ rcpt'[n].owner = s
                 /\ Open(rcpt'[n]) => rcpt'[n].op.kind \in Registrations
      <4>1. Work(job[s]) = n
        BY <3>2, <3>4
      <4>2. /\ succeeded[n] = 0
            /\ \A q \in Runtimes : Work(job[q]) = n => s = q
            /\ rcpt[n].op.kind \in Registrations => rcpt[n].kept /\ rcpt[n].owner = s
            /\ Open(rcpt[n]) => rcpt[n].op.kind \in Registrations
        BY <1>1, <2>4, <4>1 DEF Once
      <4>3. rcpt'[n].op = rcpt[n].op /\ rcpt'[n].owner = rcpt[n].owner
        BY <3>1 DEF Keeps
      <4>4. rcpt[n].op.kind \in Registrations => rcpt'[n].kept = rcpt[n].kept
        BY <1>4, <3>1, <3>4 DEF Rests
      <4> QED BY <3>2, <3>3, <4>2, <4>3, <4>4
    <3>5. /\ Open(rcpt'[n]) => succeeded[n] = 0
          /\ rcpt'[n].outer = "fresh" => started[n] = 0
          /\ succeeded[n] <= 1 /\ started[n] <= 1
      BY <1>1, <2>4, <3>1, <3>3 DEF Once, Keeps
    <3>6. ~(n > Len(rcpt'))
      BY <1>1, <2>4
    <3> QED BY <1>1, <2>1, <3>4, <3>5, <3>6 DEF Once
  <2> QED BY <1>1, <2>3, <2>4
<1>5. CASE Starts(r)
  <2>1. PICK m \in 1..Len(rcpt) :
          /\ Work(job[r]) = 0 /\ Work(job'[r]) = m
          /\ Open(rcpt[m])
          /\ IF rcpt[m].op.kind \in Registrations THEN rcpt'[m].kept /\ rcpt[m].owner = r
             ELSE ~Open(rcpt'[m])
          /\ \A k \in 1..Len(rcpt) \ {m} : rcpt'[k].kept = rcpt[k].kept
          /\ succeeded' = succeeded
          /\ \/ started' = started
             \/ /\ rcpt[m].outer = "fresh" /\ rcpt'[m].outer # "fresh"
                /\ started' = [started EXCEPT ![m] = @ + 1]
    BY <1>5 DEF Starts
  <2>2. m \in Ids /\ Once(m) /\ Keeps(rcpt[m], rcpt'[m])
    BY <1>1, <2>1 DEF GatewayInv, Grown
  <2>3. \A s \in Runtimes : Work(job[s]) # m
    <3> SUFFICES ASSUME NEW s \in Runtimes, Work(job[s]) = m PROVE FALSE
      OBVIOUS
    <3>1. s # r
      BY <1>1, <2>1
    <3>2. m <= Len(rcpt)
      BY <1>1, <2>1
    <3>3. rcpt[m].op.kind \in Registrations /\ rcpt[m].owner = s
      BY <2>1, <2>2, <3>2 DEF Once
    <3> QED BY <2>1, <3>1, <3>3
  <2>4. CASE n = m
    <3>1. succeeded'[n] = 0 /\ n <= Len(rcpt) /\ ~(n > Len(rcpt'))
      BY <1>1, <2>1, <2>2, <2>4 DEF Once
    <3>2. /\ started'[n] \in Nat /\ started'[n] <= 1
          /\ rcpt'[n].outer = "fresh" => started'[n] = 0
      <4>1. CASE started' = started
        BY <1>1, <2>2, <2>4, <3>1, <4>1 DEF Once, Keeps
      <4>2. CASE /\ rcpt[m].outer = "fresh" /\ rcpt'[m].outer # "fresh"
                 /\ started' = [started EXCEPT ![m] = @ + 1]
        <5>1. started[n] = 0
          BY <2>2, <2>4, <3>1, <4>2 DEF Once
        <5>2. started'[n] = 1
          BY <1>1, <2>4, <4>2, <5>1
        <5> QED BY <2>4, <4>2, <5>2
      <4> QED BY <2>1, <4>1, <4>2
    <3>3. ASSUME NEW s \in Runtimes, Work(job'[s]) = n PROVE s = r
      BY <1>3, <2>3, <2>4, <3>3
    <3>4. rcpt'[n].op = rcpt[n].op /\ rcpt'[n].owner = rcpt[n].owner
      BY <2>2, <2>4 DEF Keeps
    <3>5. /\ rcpt'[n].op.kind \in Registrations => rcpt'[n].kept /\ rcpt'[n].owner = r
          /\ Open(rcpt'[n]) => rcpt'[n].op.kind \in Registrations
      BY <2>1, <2>4, <3>4
    <3> QED BY <3>1, <3>2, <3>3, <3>5 DEF Once
  <2>5. CASE n # m
    <3>1. succeeded'[n] = succeeded[n] /\ started'[n] = started[n]
      BY <1>1, <2>1, <2>5
    <3>2. \A s \in Runtimes : Work(job'[s]) = n => Work(job[s]) = n
      BY <1>3, <2>1, <2>5
    <3>3. CASE n > Len(rcpt)
      <4>1. \A s \in Runtimes : Work(job'[s]) # n
        <5> SUFFICES ASSUME NEW s \in Runtimes, Work(job[s]) = n PROVE FALSE
          BY <3>2
        <5> QED BY <1>1, <1>2, <3>3
      <4>2. succeeded[n] = 0 /\ started[n] = 0
        BY <1>1, <3>3 DEF Once
      <4> QED BY <3>1, <4>1, <4>2 DEF Once
    <3>4. CASE n <= Len(rcpt)
      <4>1. n \in 1..Len(rcpt) /\ Keeps(rcpt[n], rcpt'[n]) /\ rcpt'[n].kept = rcpt[n].kept
        BY <1>1, <2>1, <2>5, <3>4 DEF Grown
      <4>2. ~(n > Len(rcpt'))
        BY <1>1, <3>4
      <4>3. Open(rcpt'[n]) => Open(rcpt[n])
        BY <4>1 DEF Keeps, Open
      <4> QED BY <1>1, <3>1, <3>2, <3>4, <4>1, <4>2, <4>3 DEF Once, Keeps
    <3> QED BY <1>1, <3>3, <3>4
  <2> QED BY <2>4, <2>5
<1>6. CASE Reports(r)
  <2>1. PICK m \in 1..Len(rcpt) :
          /\ Work(job[r]) = m /\ Work(job'[r]) = 0
          /\ ~Open(rcpt'[m])
          /\ \A k \in 1..Len(rcpt) \ {m} : rcpt'[k].kept = rcpt[k].kept
          /\ succeeded' = [succeeded EXCEPT ![m] = @ + 1] /\ started' = started
    BY <1>6 DEF Reports
  <2>2. m \in Ids /\ Once(m) /\ Keeps(rcpt[m], rcpt'[m]) /\ m <= Len(rcpt) /\ m # 0
    BY <1>1, <2>1 DEF GatewayInv, Grown
  <2>3. succeeded[m] = 0 /\ \A s \in Runtimes : Work(job[s]) = m => s = r
    BY <2>1, <2>2 DEF Once
  <2>4. CASE n = m
    <3>1. succeeded'[n] = 1 /\ started'[n] = started[n] /\ ~(n > Len(rcpt'))
      BY <1>1, <2>1, <2>2, <2>3, <2>4
    <3>2. \A s \in Runtimes : Work(job'[s]) # n
      BY <1>3, <2>1, <2>2, <2>3, <2>4
    <3>3. started[n] <= 1 /\ (rcpt'[n].outer = "fresh" => started[n] = 0)
      BY <2>2, <2>4 DEF Once, Keeps
    <3> QED BY <1>1, <2>1, <2>4, <3>1, <3>2, <3>3 DEF Once
  <2>5. CASE n # m
    <3>1. succeeded'[n] = succeeded[n] /\ started'[n] = started[n]
      BY <1>1, <2>1, <2>5
    <3>2. \A s \in Runtimes : Work(job'[s]) = n => Work(job[s]) = n
      BY <1>1, <1>3, <2>1
    <3>3. CASE n > Len(rcpt)
      <4>1. \A s \in Runtimes : Work(job'[s]) # n
        <5> SUFFICES ASSUME NEW s \in Runtimes, Work(job[s]) = n PROVE FALSE
          BY <3>2
        <5> QED BY <1>1, <1>2, <3>3
      <4>2. succeeded[n] = 0 /\ started[n] = 0
        BY <1>1, <3>3 DEF Once
      <4> QED BY <3>1, <4>1, <4>2 DEF Once
    <3>4. CASE n <= Len(rcpt)
      <4>1. n \in 1..Len(rcpt) /\ Keeps(rcpt[n], rcpt'[n]) /\ rcpt'[n].kept = rcpt[n].kept
        BY <1>1, <2>1, <2>5, <3>4 DEF Grown
      <4>2. ~(n > Len(rcpt'))
        BY <1>1, <3>4
      <4>3. Open(rcpt'[n]) => Open(rcpt[n])
        BY <4>1 DEF Keeps, Open
      <4> QED BY <1>1, <3>1, <3>2, <3>4, <4>1, <4>2, <4>3 DEF Once, Keeps
    <3> QED BY <1>1, <3>3, <3>4
  <2> QED BY <2>4, <2>5
<1> QED BY <1>4, <1>5, <1>6

LEMMA CountsTyped ==
    ASSUME GatewayInv, NEW r \in Runtimes, Rests(r) \/ Starts(r) \/ Reports(r)
    PROVE  started' \in [Ids -> Nat] /\ succeeded' \in [Ids -> Nat]
<1>1. /\ started \in [Ids -> Nat] /\ succeeded \in [Ids -> Nat]
      /\ \A k \in 1..Len(rcpt) : k \in Ids
  BY ReceiptsAssumption DEF GatewayInv, Shape, Ids
<1>2. \A f \in [Ids -> Nat] : \A k \in Ids : [f EXCEPT ![k] = @ + 1] \in [Ids -> Nat]
  OBVIOUS
<1>3. CASE Rests(r)
  BY <1>1, <1>3 DEF Rests
<1>4. CASE Starts(r)
  <2>1. PICK n \in 1..Len(rcpt) :
          succeeded' = succeeded /\ (started' = started \/ started' = [started EXCEPT ![n] = @ + 1])
    BY <1>4 DEF Starts
  <2>2. [started EXCEPT ![n] = @ + 1] \in [Ids -> Nat]
    BY <1>1, <1>2
  <2> QED BY <1>1, <2>1, <2>2
<1>5. CASE Reports(r)
  <2>1. PICK n \in 1..Len(rcpt) :
          started' = started /\ succeeded' = [succeeded EXCEPT ![n] = @ + 1]
    BY <1>5 DEF Reports
  <2>2. [succeeded EXCEPT ![n] = @ + 1] \in [Ids -> Nat]
    BY <1>1, <1>2
  <2> QED BY <1>1, <2>1, <2>2
<1> QED BY <1>3, <1>4, <1>5

\* A step of one runtime that leaves the registry alone.
LEMMA EffectKeeps ==
    ASSUME GatewayInv, NEW r \in Runtimes, Effect(r)
    PROVE  GatewayInv'
<1>1. Others(r) /\ Quiet /\ Grown(rcpt, rcpt') /\ rcpt \in Seq(Receipts)
  BY DEF Effect, GatewayInv, Shape
<1>2. Shape'
  BY <1>1, CountsTyped DEF Effect, GatewayInv, Shape, Quiet, Others, Grown
<1>3. ASSUME NEW s \in Runtimes
      PROVE  /\ JobFits(job'[s], rcpt') /\ TrustFits(job'[s], granted')
             /\ ReadFits(job'[s], file', author')
             /\ job'[s] = job[s] \/ job'[s].at \notin Writing
  <2>1. CASE job'[s] = job[s]
    <3>1. JobFits(job[s], rcpt) /\ TrustFits(job[s], granted) /\ ReadFits(job[s], file, author)
      BY DEF GatewayInv
    <3>2. JobFits(job[s], rcpt')
      BY <1>1, <3>1, JobStays
    <3>3. TrustFits(job[s], granted')
      BY <1>1, <3>1, TrustStays DEF GatewayInv, Shape, Quiet
    <3> QED BY <1>1, <2>1, <3>1, <3>2, <3>3 DEF Quiet
  <2>2. CASE job'[s] # job[s]
    <3>1. s = r
      BY <1>1, <2>2 DEF Others
    <3> QED BY <2>2, <3>1 DEF Effect, ReadFits, Writing
  <2> QED BY <2>1, <2>2
<1>4. Exclusive'
  BY <1>3 DEF Exclusive, GatewayInv
<1>5. LocksSerialize' /\ TrustIsGranted'
  BY <1>1 DEF GatewayInv, LocksSerialize, TrustIsGranted, Quiet, Trusted, Registered
<1>6. \A n \in Ids : Once(n)'
  BY <1>1, OnceKept DEF Effect
<1>7. (Cardinality(Fresh(rcpt)) <= MaxOpen)'
  BY DEF Effect
<1> QED BY <1>2, <1>3, <1>4, <1>5, <1>6, <1>7 DEF GatewayInv

-----------------------------------------------------------------------------
(* The mutation itself, and the operator.                                   *)

\* Goto changes where a call is.
LEMMA GotoFits ==
    ASSUME GatewayInv, NEW r \in Runtimes, NEW step, Goto(r, step)
    PROVE  Others(r) /\ job'[r] = [job[r] EXCEPT !.at = step]
<1>1. job = [s \in Runtimes |-> job[s]]
  BY DEF GatewayInv, Shape
<1> QED BY <1>1 DEF Goto, Others

\* A call that is not idle.
LEMMA Busy ==
    ASSUME GatewayInv, NEW r \in Runtimes, job[r].at # "idle"
    PROVE  job[r] \in Calls(Len(rcpt), job[r].before) /\ CallKnows(job[r], rcpt)
  BY DEF GatewayInv, JobFits, Idle

\* A call of the registry goes on under its lock.
LEMMA LockedOn ==
    ASSUME GatewayInv, NEW r \in Runtimes, job[r].at \in Locking,
           NEW step \in Locking \ Writing, step # "lock"
    PROVE  LET j == [job[r] EXCEPT !.at = step]
           IN  /\ JobFits(j, rcpt) /\ TrustFits(j, granted) /\ j.at = step
               /\ Work(j) = Work(job[r])
<1> DEFINE i == job[r]
           j == [job[r] EXCEPT !.at = step]
<1>1. i \in Calls(Len(rcpt), i.before) /\ CallKnows(i, rcpt) /\ TrustFits(i, granted)
  BY Busy DEF Locking, GatewayInv
<1>2. /\ j \in Calls(Len(rcpt), j.before) /\ j.at = step /\ j.op = i.op /\ j.base = i.base
      /\ j.rcpt = i.rcpt
  BY <1>1 DEF Calls, Locking, Writing
<1> HIDE DEF j
<1>3. CallKnows(j, rcpt)
  BY <1>1, <1>2 DEF CallKnows, Locking, Writing
<1>4. TrustFits(j, granted)
  BY <1>1, <1>2 DEF TrustFits, Locking, Writing
<1>5. Work(j) = Work(i)
  BY <1>2 DEF Work, Locking
<1> QED BY <1>2, <1>3, <1>4, <1>5 DEF JobFits, j

\* Where nothing but the registry and the calls change.
Still == UNCHANGED <<dirs, apart, rcpt, succeeded, started, world>>

LEMMA StillKeeps ==
    ASSUME GatewayInv, Still, NEW r \in Runtimes, Others(r), Work(job'[r]) \in {0, Work(job[r])},
           file' \in Document, author' \in {"registry", "policy", "operator"},
           granted' \in BOOLEAN
    PROVE  /\ Shape' /\ Grown(rcpt, rcpt') /\ (Cardinality(Fresh(rcpt)) <= MaxOpen)'
           /\ \A n \in Ids : Once(n)'
<1>1. rcpt \in Seq(Receipts) /\ rcpt' = rcpt
  BY DEF GatewayInv, Shape, Still
<1>2. Grown(rcpt, rcpt')
  BY <1>1, GrownNot
<1>3. Rests(r)
  BY DEF Rests, Still
<1>4. \A n \in Ids : Once(n)'
  BY <1>2, <1>3, OnceKept
<1>5. Shape'
  BY DEF GatewayInv, Shape, Still, Others
<1> QED BY <1>1, <1>2, <1>4, <1>5 DEF GatewayInv

LEMMA RegistryKeeps ==
    ASSUME GatewayInv, Still, NEW r \in Runtimes, Others(r), Work(job'[r]) \in {0, Work(job[r])},
           file' \in Document, author' \in {"registry", "policy", "operator"},
           granted' \in BOOLEAN, granted => granted',
           JobFits(job'[r], rcpt), TrustFits(job'[r], granted'),
           \A s \in Runtimes : ReadFits(job'[s], file', author'),
           Exclusive', LocksSerialize', TrustIsGranted'
    PROVE  GatewayInv'
<1>1. /\ Shape' /\ (Cardinality(Fresh(rcpt)) <= MaxOpen)'
      /\ \A n \in Ids : Once(n)'
  BY StillKeeps
<1>2. ASSUME NEW s \in Runtimes
      PROVE  JobFits(job'[s], rcpt') /\ TrustFits(job'[s], granted')
  <2>1. rcpt' = rcpt
    BY DEF Still
  <2>2. CASE s = r
    BY <2>1, <2>2
  <2>3. CASE s # r
    <3>1. job'[s] = job[s] /\ JobFits(job[s], rcpt) /\ TrustFits(job[s], granted)
      BY <2>3 DEF GatewayInv, Others
    <3>2. TrustFits(job[s], granted')
      BY <3>1, TrustStays DEF GatewayInv, Shape
    <3> QED BY <2>1, <3>1, <3>2
  <2> QED BY <2>2, <2>3
<1> QED BY <1>1, <1>2 DEF GatewayInv

\* A call under its lock that comes to an end of its mutation, the registry left alone.
LEMMA LockedStep ==
    ASSUME GatewayInv, Still, UNCHANGED registry, NEW r \in Runtimes, job[r].at \in Locking,
           NEW step \in Locking \ Writing, step # "lock", Goto(r, step)
    PROVE  GatewayInv'
<1>1. Others(r) /\ job'[r] = [job[r] EXCEPT !.at = step]
  BY GotoFits
<1>2. /\ JobFits(job'[r], rcpt) /\ TrustFits(job'[r], granted) /\ job'[r].at = step
      /\ Work(job'[r]) = Work(job[r])
  BY <1>1, LockedOn
<1>3. rcpt \in Seq(Receipts) /\ rcpt' = rcpt
  BY DEF GatewayInv, Shape, Still
<1>4. Rests(r)
  BY <1>2 DEF Rests, Still
<1>5. Grown(rcpt, rcpt')
  BY <1>3, GrownNot
<1>6. Quiet
  BY DEF Quiet, Still, registry, GatewayInv, Shape
<1>7. Effect(r)
  BY <1>1, <1>2, <1>3, <1>4, <1>5, <1>6 DEF Effect, GatewayInv, Shape, registry
<1> QED BY <1>7, EffectKeeps

\* The call of a runtime that has read the registry and is to replace it.
LEMMA ReadsFits ==
    ASSUME GatewayInv, NEW r \in Runtimes, job[r].at = "lock", DigestHolds(r),
           NEW doc \in Results(file, job[r].op)
    PROVE  LET j == [job[r] EXCEPT !.at = "replace", !.before = file, !.after = doc]
           IN  /\ JobFits(j, rcpt) /\ TrustFits(j, granted)
               /\ j.at = "replace" /\ j.before = file /\ j.op = job[r].op
               /\ Work(j) = Work(job[r])
<1> DEFINE i == job[r]
           j == [job[r] EXCEPT !.at = "replace", !.before = file, !.after = doc]
<1>1. i \in Calls(Len(rcpt), i.before) /\ CallKnows(i, rcpt) /\ TrustFits(i, granted)
  BY Busy DEF GatewayInv
<1>2. i.op \in Ops /\ i.op.kind \in Mutations /\ file \in Document
  BY <1>1 DEF Calls, CallKnows, Locking, GatewayInv, Shape
<1>3. doc \in Document /\ (Trusted(doc) # {} => Trusted(file) # {} \/ Grants(i.op))
  BY <1>2, ResultsFit
<1>4. /\ j \in Calls(Len(rcpt), j.before) /\ j.at = "replace" /\ j.before = file /\ j.after = doc
      /\ j.op = i.op /\ j.base = i.base /\ j.rcpt = i.rcpt
  BY <1>1, <1>3 DEF Calls, Locking
<1>5. i.base \in {None, file}
  BY DEF DigestHolds
<1> HIDE DEF j
<1>6. CallKnows(j, rcpt)
  BY <1>1, <1>2, <1>3, <1>4, <1>5 DEF CallKnows, Locking, Writing
<1>7. Trusted(file) # {} => granted
  BY DEF GatewayInv, TrustIsGranted
<1>8. Grants(i.op) => granted
  BY <1>1 DEF TrustFits
<1>9. TrustFits(j, granted)
  BY <1>3, <1>4, <1>7, <1>8 DEF TrustFits
<1>10. Work(j) = Work(i)
  BY <1>4 DEF Work
<1> QED BY <1>4, <1>6, <1>9, <1>10 DEF JobFits, j

LEMMA SnapshotStep ==
    ASSUME GatewayInv, Still, NEW r \in Runtimes, Snapshot(r)
    PROVE  GatewayInv'
<1>1. job[r].at = "lock" /\ Free(r) /\ UNCHANGED registry
  BY DEF Snapshot
<1>2. \/ Goto(r, "refused") \/ Goto(r, "written")
      \/ \E doc \in Results(file, job[r].op) : 
           /\ DigestHolds(r)
           /\ job' = [job EXCEPT ![r].at = "replace", ![r].before = file, ![r].after = doc]
  BY DEF Snapshot
<1>3. CASE Goto(r, "refused") \/ Goto(r, "written")
  BY <1>1, <1>3, LockedStep DEF Locking, Writing
<1>4. ASSUME NEW doc \in Results(file, job[r].op), DigestHolds(r),
             job' = [job EXCEPT ![r].at = "replace", ![r].before = file, ![r].after = doc]
      PROVE  GatewayInv'
  <2> DEFINE j == [job[r] EXCEPT !.at = "replace", !.before = file, !.after = doc]
  <2>1. job = [s \in Runtimes |-> job[s]]
    BY DEF GatewayInv, Shape
  <2>2. Others(r) /\ job'[r] = j
    BY <1>4, <2>1 DEF Others
  <2>3. /\ JobFits(j, rcpt) /\ TrustFits(j, granted)
        /\ j.at = "replace" /\ j.before = file /\ j.op = job[r].op
        /\ Work(j) = Work(job[r])
    BY <1>1, <1>4, ReadsFits
  <2> HIDE DEF j
  <2>4. file' = file /\ author' = author /\ lost' = lost /\ granted' = granted
    BY <1>1 DEF registry
  <2>5. \A s \in Runtimes : ReadFits(job'[s], file', author')
    BY <2>2, <2>3, <2>4 DEF ReadFits, Others, GatewayInv
  <2>6. Exclusive'
    <3> SUFFICES ASSUME NEW s \in Runtimes, NEW q \in Runtimes, s # q,
                        job'[s].at \in Writing, job'[q].at \in Writing
                 PROVE  LockOf(job'[s].op) # LockOf(job'[q].op)
      BY DEF Exclusive
    <3>1. CASE s = r
      BY <1>1, <2>2, <2>3, <3>1 DEF Free, Writing, Others
    <3>2. CASE q = r
      BY <1>1, <2>2, <2>3, <3>2 DEF Free, Writing, Others
    <3>3. CASE s # r /\ q # r
      BY <2>2, <3>3 DEF Others, Exclusive, GatewayInv
    <3> QED BY <3>1, <3>2, <3>3
  <2>7. LocksSerialize' /\ TrustIsGranted'
    BY <2>4 DEF GatewayInv, LocksSerialize, TrustIsGranted, Trusted, Registered
  <2> QED BY <2>2, <2>3, <2>4, <2>5, <2>6, <2>7, RegistryKeeps DEF GatewayInv, Shape
<1> QED BY <1>2, <1>3, <1>4

\* What a call is about to write is a document, and so is what it has read.
LEMMA WrittenFits ==
    ASSUME GatewayInv, NEW r \in Runtimes, job[r].at \in Writing
    PROVE  /\ job[r].before \in Document /\ job[r].after \in Document
           /\ LockOf(job[r].op) \in {"registry", "policy"}
           /\ Trusted(job[r].before) # {} => granted
           /\ Trusted(job[r].after) # {} => granted
<1>1. /\ job[r] \in Calls(Len(rcpt), job[r].before) /\ CallKnows(job[r], rcpt)
      /\ TrustFits(job[r], granted)
  BY Busy DEF Writing, GatewayInv
<1>2. /\ job[r].op \in Ops /\ job[r].op.kind \in Mutations /\ job[r].before \in Document
      /\ job[r].after \in Results(job[r].before, job[r].op)
  BY <1>1 DEF Calls, CallKnows, Locking, Writing
<1> QED BY <1>1, <1>2, ResultsFit DEF TrustFits, LockOf

\* A call that is reading back, after it has replaced the file.
LEMMA ReplacedOn ==
    ASSUME GatewayInv, NEW r \in Runtimes, job[r].at = "replace"
    PROVE  LET j == [job[r] EXCEPT !.at = "readback"]
           IN  /\ JobFits(j, rcpt) /\ TrustFits(j, granted) /\ j.at = "readback"
               /\ Work(j) = Work(job[r]) /\ j.op = job[r].op
<1> DEFINE i == job[r]
           j == [job[r] EXCEPT !.at = "readback"]
<1>1. i \in Calls(Len(rcpt), i.before) /\ CallKnows(i, rcpt) /\ TrustFits(i, granted)
  BY Busy DEF GatewayInv
<1>2. /\ j \in Calls(Len(rcpt), j.before) /\ j.at = "readback" /\ j.op = i.op /\ j.base = i.base
      /\ j.rcpt = i.rcpt /\ j.before = i.before /\ j.after = i.after
  BY <1>1 DEF Calls, Locking
<1> HIDE DEF j
<1>3. CallKnows(j, rcpt)
  BY <1>1, <1>2 DEF CallKnows, Locking, Writing
<1>4. TrustFits(j, granted)
  BY <1>1, <1>2 DEF TrustFits, Writing
<1>5. Work(j) = Work(i)
  BY <1>2 DEF Work
<1> QED BY <1>2, <1>3, <1>4, <1>5 DEF JobFits, j

\* The file is put in place by a call that holds its lock: it has read what it
\* replaces, unless the other lock's holder or the operator came between.
LEMMA PutStep ==
    ASSUME GatewayInv, Still, NEW r \in Runtimes, job[r].at \in Writing, Others(r),
           job'[r].at # "replace", job'[r].op = job[r].op,
           Work(job'[r]) \in {0, Work(job[r])},
           JobFits(job'[r], rcpt), TrustFits(job'[r], granted),
           NEW doc \in Document, Trusted(doc) # {} => granted,
           NEW read, Put(doc, LockOf(job[r].op), read), granted' = granted,
           file = read \/ author # LockOf(job[r].op)
    PROVE  GatewayInv'
<1>1. /\ file' = doc /\ author' = LockOf(job[r].op)
      /\ lost' = lost \/ (author # author' /\ lost' = lost \cup {<<author, author'>>})
  BY DEF Put
<1>2. author' \in {"registry", "policy"}
  BY <1>1 DEF LockOf
<1>3. ASSUME NEW s \in Runtimes PROVE ReadFits(job'[s], file', author')
  <2>1. CASE s = r
    BY <2>1 DEF ReadFits
  <2>2. CASE s # r
    <3>1. job'[s] = job[s]
      BY <2>2 DEF Others
    <3>2. job[s].at = "replace" => LockOf(job[s].op) # LockOf(job[r].op)
      BY <2>2 DEF GatewayInv, Exclusive, Writing
    <3> QED BY <1>1, <3>1, <3>2 DEF ReadFits
  <2> QED BY <2>1, <2>2
<1>4. Exclusive'
  <2> SUFFICES ASSUME NEW s \in Runtimes, NEW q \in Runtimes, s # q,
                      job'[s].at \in Writing, job'[q].at \in Writing
               PROVE  LockOf(job'[s].op) # LockOf(job'[q].op)
    BY DEF Exclusive
  <2>1. \A p \in {s, q} : job'[p].op = job[p].op /\ job[p].at \in Writing
    BY DEF Others
  <2> QED BY <2>1 DEF GatewayInv, Exclusive
<1>5. LocksSerialize'
  BY <1>1, <1>2 DEF GatewayInv, LocksSerialize
<1>6. TrustIsGranted'
  BY <1>1 DEF TrustIsGranted, Trusted, Registered
<1>7. granted' \in BOOLEAN
  BY DEF GatewayInv, Shape
<1> QED BY <1>1, <1>2, <1>3, <1>4, <1>5, <1>6, <1>7, RegistryKeeps

LEMMA ReplaceStep ==
    ASSUME GatewayInv, Still, NEW r \in Runtimes, Replace(r)
    PROVE  GatewayInv'
<1>1. job[r].at = "replace"
  BY DEF Replace
<1>2. \/ /\ Goto(r, "readback") \/ Goto(r, "failed")
         /\ Put(job[r].after, LockOf(job[r].op), job[r].before) /\ granted' = granted
      \/ Goto(r, "failed") /\ UNCHANGED registry
  BY DEF Replace
<1>3. CASE Goto(r, "failed") /\ UNCHANGED registry
  BY <1>1, <1>3, LockedStep DEF Locking, Writing
<1>4. CASE /\ Goto(r, "readback") \/ Goto(r, "failed")
           /\ Put(job[r].after, LockOf(job[r].op), job[r].before) /\ granted' = granted
  <2>1. job[r].after \in Document /\ (Trusted(job[r].after) # {} => granted)
    BY <1>1, WrittenFits DEF Writing
  <2>2. file = job[r].before \/ author # LockOf(job[r].op)
    BY <1>1 DEF GatewayInv, ReadFits
  <2>3. /\ Others(r) /\ job'[r].at # "replace" /\ job'[r].op = job[r].op
        /\ JobFits(job'[r], rcpt) /\ TrustFits(job'[r], granted)
        /\ Work(job'[r]) \in {0, Work(job[r])}
    <3>1. CASE Goto(r, "readback")
      BY <1>1, <3>1, GotoFits, ReplacedOn
    <3>2. CASE Goto(r, "failed")
      <4>1. Others(r) /\ job'[r] = [job[r] EXCEPT !.at = "failed"]
        BY <3>2, GotoFits
      <4>2. [job[r] EXCEPT !.at = "failed"].op = job[r].op
        BY <1>1, Busy DEF Calls
      <4> QED BY <1>1, <4>1, <4>2, LockedOn DEF Locking, Writing
    <3> QED BY <1>4, <3>1, <3>2
  <2> QED BY <1>1, <1>4, <2>1, <2>2, <2>3, PutStep DEF Writing
<1> QED BY <1>2, <1>3, <1>4

LEMMA ReadBackStep ==
    ASSUME GatewayInv, Still, NEW r \in Runtimes, ReadBack(r)
    PROVE  GatewayInv'
<1>1. job[r].at = "readback"
  BY DEF ReadBack
<1>2. \/ (Goto(r, "written") \/ Goto(r, "failed")) /\ UNCHANGED registry
      \/ /\ Goto(r, "failed") /\ LockOf(job[r].op) = "registry"
         /\ Put(job[r].before, "registry", file) /\ granted' = granted
  BY DEF ReadBack
<1>3. CASE (Goto(r, "written") \/ Goto(r, "failed")) /\ UNCHANGED registry
  BY <1>1, <1>3, LockedStep DEF Locking, Writing
<1>4. CASE /\ Goto(r, "failed") /\ LockOf(job[r].op) = "registry"
           /\ Put(job[r].before, "registry", file) /\ granted' = granted
  <2>1. job[r].before \in Document /\ (Trusted(job[r].before) # {} => granted)
    BY <1>1, WrittenFits DEF Writing
  <2>2. Others(r) /\ job'[r] = [job[r] EXCEPT !.at = "failed"]
    BY <1>4, GotoFits
  <2>3. [job[r] EXCEPT !.at = "failed"].op = job[r].op
    BY <1>1, Busy DEF Calls
  <2>4. /\ JobFits(job'[r], rcpt) /\ TrustFits(job'[r], granted)
        /\ job'[r].at # "replace" /\ Work(job'[r]) = Work(job[r])
    BY <1>1, <2>2, LockedOn DEF Locking, Writing
  <2> QED BY <1>1, <1>4, <2>1, <2>2, <2>3, <2>4, PutStep DEF Writing
<1> QED BY <1>2, <1>3, <1>4

LEMMA OperatorStep ==
    ASSUME GatewayInv, Still, job' = job, OperatorEdits
    PROVE  GatewayInv'
<1>1. PICK doc \in Edited : /\ Put(doc, "operator", file)
                            /\ granted' = (granted \/ Trusted(doc) # {})
  BY DEF OperatorEdits
<1>2. file' = doc /\ author' = "operator" /\ lost' = lost
  BY <1>1 DEF Put
<1>3. doc \in Document
  <2>1. PICK w \in Registered(file) :
          \/ \E l \in Levels : doc = [file EXCEPT ![w].trust = l]
          \/ \E i \in Specs \cup {None} : doc = [file EXCEPT ![w].item = i]
    BY <1>1 DEF Edited
  <2>2. w \in Workspaces /\ file \in Document /\ file[w] \in Entry
    BY <2>1 DEF Registered, GatewayInv, Shape, Document
  <2>3. \E e \in Entry : doc = [file EXCEPT ![w] = e]
    <3>1. CASE \E l \in Levels : doc = [file EXCEPT ![w].trust = l]
      <4>1. PICK l \in Levels : doc = [file EXCEPT ![w].trust = l]
        BY <3>1
      <4>2. doc = [file EXCEPT ![w] = [file[w] EXCEPT !.trust = l]]
        BY <2>2, <4>1 DEF Document
      <4> QED BY <2>2, <4>2, EntryChanged
    <3>2. CASE \E i \in Specs \cup {None} : doc = [file EXCEPT ![w].item = i]
      <4>1. PICK i \in Specs \cup {None} : doc = [file EXCEPT ![w].item = i]
        BY <3>2
      <4>2. doc = [file EXCEPT ![w] = [file[w] EXCEPT !.item = i]]
        BY <2>2, <4>1 DEF Document
      <4> QED BY <2>2, <4>2, EntryChanged
    <3> QED BY <2>1, <3>1, <3>2
  <2>4. PICK e \in Entry : doc = [file EXCEPT ![w] = e]
    BY <2>3
  <2>5. [file EXCEPT ![w] = e] \in Document
    BY <2>2, EntryFits
  <2> QED BY <2>4, <2>5
<1>4. granted \in BOOLEAN /\ granted' \in BOOLEAN /\ (granted => granted')
  BY <1>1 DEF GatewayInv, Shape
<1>5. Shape'
  BY <1>2, <1>3, <1>4 DEF GatewayInv, Shape, Still
<1>6. ASSUME NEW s \in Runtimes
      PROVE  /\ JobFits(job'[s], rcpt') /\ TrustFits(job'[s], granted')
             /\ ReadFits(job'[s], file', author')
  <2>1. job'[s] = job[s] /\ JobFits(job[s], rcpt) /\ TrustFits(job[s], granted) /\ rcpt' = rcpt
    BY DEF GatewayInv, Still
  <2>2. TrustFits(job[s], granted')
    BY <1>4, <2>1, TrustStays
  <2> QED BY <1>2, <2>1, <2>2 DEF ReadFits, LockOf
<1>7. Exclusive' /\ LocksSerialize' /\ TrustIsGranted'
  BY <1>1, <1>2 DEF GatewayInv, Exclusive, LocksSerialize, TrustIsGranted, Trusted, Registered
<1>8. (Cardinality(Fresh(rcpt)) <= MaxOpen)' /\ \A n \in Ids : Once(n)'
  BY DEF GatewayInv, Still, Once
<1> QED BY <1>5, <1>6, <1>7, <1>8 DEF GatewayInv

LEMMA WorldStep ==
    ASSUME GatewayInv, WorldChanges
    PROVE  GatewayInv'
<1>1. UNCHANGED <<registry, job, dirs, apart, rcpt, succeeded, started>> /\ world' = world + 1
  BY DEF WorldChanges, places, receipts
<1>2. Shape'
  BY <1>1 DEF GatewayInv, Shape, registry
<1>3. UNCHANGED <<file, author, lost, granted, job, rcpt, succeeded, started>>
  BY <1>1 DEF registry
<1> QED BY <1>2, <1>3
        DEF GatewayInv, Exclusive, LocksSerialize, TrustIsGranted, Trusted, Registered, Once

\* The process dies: no call is left, and no receipt that could be used.
LEMMA CrashStep ==
    ASSUME GatewayInv, Crash, UNCHANGED gateway
    PROVE  GatewayInv'
<1> DEFINE d(n) == [rcpt[n] EXCEPT !.kept = FALSE, !.outer = IF @ = "none" THEN @ ELSE "gone"]
<1>1. /\ job' = [r \in Runtimes |-> Idle] /\ rcpt' = [n \in DOMAIN rcpt |-> d(n)]
      /\ UNCHANGED <<file, author, lost, granted, dirs, succeeded, started, world>>
      /\ apart' \in BOOLEAN
  BY DEF Crash, registry, gateway, GatewayInv, Shape
<1>2. rcpt \in Seq(Receipts) /\ Len(rcpt) \in Nat /\ DOMAIN rcpt = 1..Len(rcpt)
      /\ \A n \in 1..Len(rcpt) : rcpt[n] \in Receipts
  BY ReceiptsOf DEF GatewayInv, Shape
<1>3. ASSUME NEW n \in 1..Len(rcpt)
      PROVE  d(n) \in Receipts /\ ~Open(d(n)) /\ d(n).outer # "fresh"
  <2> DEFINE c == rcpt[n]
             k == [c EXCEPT !.kept = FALSE]
  <2>1. k \in Receipts /\ ~k.kept /\ k.outer = c.outer
    BY <1>2, DroppedFits
  <2>2. CASE c.outer = "none"
    <3>1. d(n) = k
      BY <2>2, <1>2 DEF Receipts
    <3> QED BY <2>1, <2>2, <3>1 DEF Open
  <2>3. CASE c.outer # "none"
    <3>1. d(n) = [k EXCEPT !.outer = "gone"]
      BY <2>3
    <3> HIDE DEF k, c, d
    <3>2. /\ [k EXCEPT !.outer = "gone"] \in Receipts
          /\ [k EXCEPT !.outer = "gone"].outer = "gone"
      BY <2>1, <2>3, SpentFits
    <3> QED BY <3>1, <3>2 DEF Open
  <2> QED BY <2>2, <2>3
<1> HIDE DEF d
<1>4. rcpt' \in Seq(Receipts) /\ Len(rcpt') = Len(rcpt) /\ \A n \in 1..Len(rcpt) : rcpt'[n] = d(n)
  <2>1. rcpt' \in [1..Len(rcpt) -> Receipts] /\ \A n \in 1..Len(rcpt) : rcpt'[n] = d(n)
    BY <1>1, <1>2, <1>3
  <2> QED BY <1>2, <2>1
<1>5. Shape'
  BY <1>1, <1>4 DEF GatewayInv, Shape
<1>6. (Cardinality(Fresh(rcpt)) <= MaxOpen)'
  <2>1. DOMAIN rcpt' = 1..Len(rcpt)
    BY <1>4, ReceiptsOf
  <2>2. Fresh(rcpt)' = {}
    BY <1>3, <1>4, <2>1 DEF Fresh
  <2> QED BY <2>2, FS_EmptySet, GatewayAssumption
<1>7. ASSUME NEW s \in Runtimes
      PROVE  /\ JobFits(job'[s], rcpt') /\ TrustFits(job'[s], granted')
             /\ ReadFits(job'[s], file', author') /\ job'[s].at \notin Writing
             /\ Work(job'[s]) = 0
  BY <1>1 DEF JobFits, TrustFits, ReadFits, Idle, Work, Writing
<1>8. Exclusive' /\ LocksSerialize' /\ TrustIsGranted'
  BY <1>1, <1>7 DEF GatewayInv, Exclusive, LocksSerialize, TrustIsGranted, Trusted, Registered
<1>9. ASSUME NEW n \in Ids PROVE Once(n)'
  <2>1. /\ n # 0 /\ n \in Nat /\ Once(n) /\ succeeded'[n] = succeeded[n] /\ started'[n] = started[n]
    BY <1>1 DEF GatewayInv, Ids
  <2>2. n <= Len(rcpt) => ~Open(rcpt'[n]) /\ rcpt'[n].outer # "fresh"
    BY <1>2, <1>3, <1>4, <2>1
  <2>3. \A s \in Runtimes : Work(job'[s]) # n
    BY <1>7, <2>1
  <2> QED BY <1>4, <2>1, <2>2, <2>3 DEF Once
<1> QED BY <1>5, <1>6, <1>7, <1>8, <1>9 DEF GatewayInv

-----------------------------------------------------------------------------
(* The shapes that the steps of the handlers have.                          *)

LEMMA SameReceipts ==
    ASSUME GatewayInv, rcpt' = rcpt
    PROVE  /\ Grown(rcpt, rcpt') /\ Len(rcpt') <= MaxReceipts
           /\ Cardinality(Fresh(rcpt')) <= MaxOpen
  BY GrownNot DEF GatewayInv, Shape

\* A receipt is dropped: it is not open any more, if it was not a fresh one.
LEMMA DropReceipt ==
    ASSUME GatewayInv, NEW n \in 1..Len(rcpt), Drop(n)
    PROVE  /\ Grown(rcpt, rcpt') /\ Len(rcpt') <= MaxReceipts
           /\ Cardinality(Fresh(rcpt')) <= MaxOpen
           /\ Len(rcpt') = Len(rcpt)
           /\ rcpt'[n].kept = FALSE /\ rcpt'[n].outer = rcpt[n].outer
           /\ \A k \in 1..Len(rcpt) \ {n} : rcpt'[k] = rcpt[k]
<1> DEFINE c == [rcpt[n] EXCEPT !.kept = FALSE]
<1>1. rcpt \in Seq(Receipts) /\ rcpt[n] \in Receipts /\ Len(rcpt) \in Nat /\ Len(rcpt) <= MaxReceipts
      /\ Cardinality(Fresh(rcpt)) <= MaxOpen /\ DOMAIN rcpt = 1..Len(rcpt)
  BY ReceiptsOf DEF GatewayInv, Shape
<1>2. c \in Receipts /\ Keeps(rcpt[n], c) /\ ~c.kept /\ c.outer = rcpt[n].outer
  BY <1>1, DroppedFits
<1>3. rcpt' = [rcpt EXCEPT ![n] = c]
  BY <1>1 DEF Drop
<1> HIDE DEF c
<1>4. /\ Grown(rcpt, rcpt') /\ Len(rcpt') = Len(rcpt)
      /\ \A k \in 1..Len(rcpt) : rcpt'[k] = IF k = n THEN c ELSE rcpt[k]
  BY <1>1, <1>2, <1>3, ReceiptChanged
<1>5. Cardinality(Fresh(rcpt')) <= MaxOpen
  BY <1>1, <1>4, FreshStays
<1>6. c.kept = FALSE
  BY <1>2 DEF Receipts
<1> QED BY <1>1, <1>2, <1>4, <1>5, <1>6

LEMMA IdleFits ==
    ASSUME NEW t, NEW g
    PROVE  /\ JobFits(Idle, t) /\ TrustFits(Idle, g) /\ Idle.at = "idle" /\ Idle.at \notin Writing
           /\ Work(Idle) = 0
  BY DEF JobFits, TrustFits, Idle, Writing, Work

\* The call of one runtime is replaced.
LEMMA JobReplaced ==
    ASSUME GatewayInv, NEW r \in Runtimes, NEW j, job' = [job EXCEPT ![r] = j]
    PROVE  Others(r) /\ job'[r] = j
<1>1. job = [s \in Runtimes |-> job[s]]
  BY DEF GatewayInv, Shape
<1> QED BY <1>1 DEF Others

\* A step of a call that touches neither receipts nor counts.
LEMMA JobStep ==
    ASSUME GatewayInv, NEW r \in Runtimes, Others(r), Quiet,
           rcpt' = rcpt, succeeded' = succeeded, started' = started,
           JobFits(job'[r], rcpt), TrustFits(job'[r], granted'), job'[r].at \notin Writing,
           Work(job'[r]) \in {0, Work(job[r])}
    PROVE  GatewayInv'
<1>1. Rests(r)
  BY DEF Rests
<1>2. Effect(r)
  BY <1>1, SameReceipts DEF Effect
<1> QED BY <1>2, EffectKeeps

\* A step that touches no call.
LEMMA IdleStep ==
    ASSUME GatewayInv, NEW r \in Runtimes, Quiet, job' = job,
           Grown(rcpt, rcpt'), Len(rcpt') <= MaxReceipts, Cardinality(Fresh(rcpt')) <= MaxOpen,
           succeeded' = succeeded, started' = started,
           \A n \in 1..Len(rcpt) :
             rcpt[n].op.kind \in Registrations /\ rcpt'[n].kept # rcpt[n].kept
                => \A s \in Runtimes : Work(job[s]) # n
    PROVE  GatewayInv'
<1>1. Rests(r)
  BY DEF Rests
<1>2. Others(r)
  BY DEF Others, GatewayInv, Shape
<1>3. Effect(r)
  BY <1>1, <1>2 DEF Effect
<1> QED BY <1>3, EffectKeeps

\* What Once says of the receipt that a call works on.
LEMMA WorksOn ==
    ASSUME GatewayInv, NEW r \in Runtimes, Work(job[r]) # 0
    PROVE  /\ Work(job[r]) \in 1..Len(rcpt) /\ Work(job[r]) = job[r].rcpt
           /\ job[r].at \notin {"idle", "context"}
           /\ \A s \in Runtimes : Work(job[s]) = Work(job[r]) => s = r
           /\ Open(rcpt[Work(job[r])]) => rcpt[Work(job[r])].op.kind \in Registrations
<1> DEFINE n == Work(job[r])
<1>1. n \in Nat /\ n <= Len(rcpt) /\ Len(rcpt) \in Nat /\ Len(rcpt) <= MaxReceipts
  BY WorkBound, ReceiptsOf DEF GatewayInv, Shape
<1>2. n \in 1..Len(rcpt) /\ n \in Ids
  BY <1>1, ReceiptsAssumption DEF Ids
<1>3. Once(n)
  BY <1>2 DEF GatewayInv
<1>4. \A s \in Runtimes : Work(job[s]) = n => s = r
  BY <1>1, <1>3 DEF Once
<1>5. Open(rcpt[n]) => rcpt[n].op.kind \in Registrations
  BY <1>1, <1>3 DEF Once
<1> QED BY <1>2, <1>4, <1>5 DEF Work

\* A call ends: without a word, dropping its receipt, or reporting a success.
LEMMA EndStep ==
    ASSUME GatewayInv, NEW r \in Runtimes, Done(r), Quiet, started' = started,
           \/ rcpt' = rcpt /\ succeeded' = succeeded
           \/ \E n \in 1..Len(rcpt) :
                /\ Work(job[r]) = n
                /\ \/ Drop(n) /\ (succeeded' = succeeded \/ Report(r, n))
                   \/ rcpt' = rcpt /\ rcpt[n].op.kind \notin Registrations /\ Report(r, n)
    PROVE  GatewayInv'
<1>1. Others(r) /\ job'[r] = Idle
  BY JobReplaced DEF Done
<1>2. /\ JobFits(job'[r], rcpt) /\ JobFits(job'[r], rcpt') /\ TrustFits(job'[r], granted')
      /\ job'[r].at \notin Writing /\ Work(job'[r]) = 0
  BY <1>1, IdleFits
<1>3. CASE rcpt' = rcpt /\ succeeded' = succeeded
  BY <1>1, <1>2, <1>3, JobStep
<1>4. ASSUME NEW n \in 1..Len(rcpt), Work(job[r]) = n,
             \/ Drop(n) /\ (succeeded' = succeeded \/ Report(r, n))
             \/ rcpt' = rcpt /\ rcpt[n].op.kind \notin Registrations /\ Report(r, n)
      PROVE  GatewayInv'
  <2>1. n # 0 /\ rcpt[n] \in Receipts
    BY ReceiptsOf DEF GatewayInv, Shape
  <2>2. /\ \A s \in Runtimes : Work(job[s]) = n => s = r
        /\ Open(rcpt[n]) => rcpt[n].op.kind \in Registrations
    BY <1>4, <2>1, WorksOn
  <2>3. /\ Grown(rcpt, rcpt') /\ Len(rcpt') <= MaxReceipts /\ Cardinality(Fresh(rcpt')) <= MaxOpen
        /\ \A k \in 1..Len(rcpt) \ {n} : rcpt'[k].kept = rcpt[k].kept
    BY <1>4, SameReceipts, DropReceipt
  <2>4. rcpt[n].op.kind \in Registrations => rcpt[n].outer = "none"
    BY <2>1 DEF Receipts
  <2>5. ~Open(rcpt'[n]) \/ succeeded' = succeeded
    <3>1. CASE Drop(n)
      <4>1. rcpt'[n].kept = FALSE /\ rcpt'[n].outer = rcpt[n].outer
        BY <3>1, DropReceipt
      <4>2. rcpt[n].outer # "fresh"
        BY <2>2, <2>4 DEF Open
      <4> QED BY <4>1, <4>2 DEF Open
    <3>2. CASE rcpt' = rcpt /\ rcpt[n].op.kind \notin Registrations
      BY <2>2, <3>2
    <3> QED BY <1>4, <3>1, <3>2
  <2>6. \A s \in Runtimes : Work(job'[s]) # n
    BY <1>1, <1>2, <2>1, <2>2 DEF Others
  <2>7. Rests(r) \/ Reports(r)
    <3>1. CASE succeeded' = succeeded
      BY <1>2, <2>3, <2>6, <3>1 DEF Rests
    <3>2. CASE succeeded' # succeeded
      BY <1>2, <1>4, <2>3, <2>5, <3>2 DEF Reports, Report
    <3> QED BY <3>1, <3>2
  <2>8. Effect(r)
    BY <1>1, <1>2, <2>3, <2>7 DEF Effect
  <2> QED BY <2>8, EffectKeeps
<1> QED BY <1>3, <1>4

-----------------------------------------------------------------------------
(* The registry's own handlers.                                             *)

\* What the frames of the handlers amount to.
LEMMA QuietHandler ==
    ASSUME GatewayInv, UNCHANGED registry, dirs' \subseteq Paths, apart' \in BOOLEAN,
           world' \in Nat
    PROVE  Quiet
  BY DEF Quiet, registry, GatewayInv, Shape

LEMMA QuietPlaces ==
    ASSUME GatewayInv, UNCHANGED <<registry, places, gateway>>
    PROVE  Quiet
  BY QuietHandler DEF GatewayInv, Shape, places, gateway

\* Issuing a receipt.
LEMMA IssueStep ==
    ASSUME GatewayInv, UNCHANGED gateway, NEW r \in Runtimes, NEW c \in Receipts,
           c.outer = "none", Issue(c)
    PROVE  GatewayInv'
<1>1. /\ rcpt \in Seq(Receipts) /\ Len(rcpt) \in Nat /\ Cardinality(Fresh(rcpt)) <= MaxOpen
      /\ rcpt' = Append(rcpt, c) /\ Len(rcpt) < MaxReceipts /\ MaxReceipts \in Nat
  BY ReceiptsAssumption DEF Issue, GatewayInv, Shape
<1>2. /\ Grown(rcpt, rcpt') /\ Len(rcpt') = Len(rcpt) + 1 /\ rcpt'[Len(rcpt) + 1] = c
      /\ \A k \in 1..Len(rcpt) : rcpt'[k] = rcpt[k]
  BY <1>1, ReceiptAdded
<1>3. \A n \in 1..Len(rcpt') : n > Len(rcpt) => rcpt'[n].outer # "fresh"
  <2> SUFFICES ASSUME NEW n \in 1..Len(rcpt'), n > Len(rcpt) PROVE n = Len(rcpt) + 1
    BY <1>2
  <2> QED BY <1>1, <1>2
<1>4. Cardinality(Fresh(rcpt')) <= MaxOpen
  BY <1>1, <1>2, <1>3, FreshStays
<1>5. Len(rcpt') <= MaxReceipts
  BY <1>1, <1>2
<1>6. Quiet /\ job' = job /\ succeeded' = succeeded /\ started' = started
  BY QuietPlaces DEF Issue, gateway
<1> QED BY <1>2, <1>4, <1>5, <1>6, IdleStep

\* A preflight of the registry's own shows the registry that it has read.
LEMMA ReceiptFits ==
    ASSUME GatewayInv, NEW r \in Runtimes, NEW op \in Ops, op.kind \in Registrations \cup {"relocate"}
    PROVE  Receipt(op, r) \in Receipts /\ Receipt(op, r).outer = "none"
<1>1. op.kind \notin {"back", "policy", "trust", "other"}
  BY DEF Registrations
<1>2. file \in Document
  BY DEF GatewayInv, Shape
<1> DEFINE c == Receipt(op, r)
<1>3. c \in [op : Ops, base : Document \cup {None}, owner : Runtimes, kept : BOOLEAN,
             outer : {"none", "fresh", "spent", "gone"}, spec : Binding \cup {None},
             trust : Levels \cup {None}, asks : BOOLEAN, seen : Nat]
  BY <1>2 DEF Receipt
<1>4. c.op = op /\ c.outer = "none" /\ c.base = file
  BY DEF Receipt
<1> HIDE DEF c
<1>5. c \in Receipts
  BY <1>1, <1>2, <1>3, <1>4 DEF Receipts, Grants
<1> QED BY <1>4, <1>5 DEF c

\* An entry is where its workspace was registered.
LEMMA EntryAt ==
    ASSUME GatewayInv, NEW w \in Registered(file)
    PROVE  /\ w \in Workspaces /\ file[w] \in Entry /\ file[w].path \in Paths
           /\ file[w].trust \in Levels /\ file[w].item \in Specs \cup {None}
<1>1. file \in [Workspaces -> Entry \cup {None}] /\ w \in Workspaces /\ file[w] # None
  BY DEF GatewayInv, Shape, Document, Registered
<1> QED BY <1>1 DEF Entry

LEMMA RegisterPreflightStep ==
    ASSUME GatewayInv, UNCHANGED gateway, NEW r \in Runtimes, RegisterPreflight(r)
    PROVE  GatewayInv'
<1>1. PICK w \in Workspaces, p \in dirs : Issue(Receipt(Change("register", w, p, p), r))
  BY DEF RegisterPreflight
<1>2. p \in Paths
  BY DEF GatewayInv, Shape
<1>3. Change("register", w, p, p) \in Ops /\ Change("register", w, p, p).kind = "register"
  BY <1>2 DEF Change, Ops, Mutations, Registrations, Moves, Trusts, Profiles, Removals
<1> QED BY <1>1, <1>3, ReceiptFits, IssueStep DEF Registrations

LEMMA UnregisterPreflightStep ==
    ASSUME GatewayInv, UNCHANGED gateway, NEW r \in Runtimes, UnregisterPreflight(r)
    PROVE  GatewayInv'
<1>1. PICK w \in Registered(file) : Issue(Receipt(Change("unregister", w, None, file[w].path), r))
  BY DEF UnregisterPreflight
<1> DEFINE op == Change("unregister", w, None, file[w].path)
<1>2. op \in Ops /\ op.kind = "unregister"
  BY EntryAt DEF Change, Ops, Mutations, Registrations, Moves, Trusts, Profiles, Removals
<1> HIDE DEF op
<1>3. Receipt(op, r) \in Receipts /\ Receipt(op, r).outer = "none"
  BY <1>2, ReceiptFits DEF Registrations
<1>4. Issue(Receipt(op, r))
  BY <1>1 DEF op
<1> QED BY <1>3, <1>4, IssueStep

LEMMA UpdatePreflightStep ==
    ASSUME GatewayInv, UNCHANGED gateway, NEW r \in Runtimes, UpdatePreflight(r)
    PROVE  GatewayInv'
<1>1. PICK w \in Registered(file), arg \in Workspaces \cup Levels :
        Issue(Receipt(Change(IF arg \in Levels THEN "patch" ELSE "rename", w, arg, file[w].path), r))
  BY DEF UpdatePreflight
<1> DEFINE op == Change(IF arg \in Levels THEN "patch" ELSE "rename", w, arg, file[w].path)
<1>2. op \in Ops /\ op.kind \in {"patch", "rename"}
  BY EntryAt DEF Change, Ops, Mutations, Registrations, Moves, Trusts, Profiles, Removals
<1>3. Issue(Receipt(op, r))
  BY <1>1
<1> HIDE DEF op
<1>4. Receipt(op, r) \in Receipts /\ Receipt(op, r).outer = "none"
  BY <1>2, ReceiptFits DEF Registrations
<1> QED BY <1>3, <1>4, IssueStep

LEMMA RelocatePreflightStep ==
    ASSUME GatewayInv, UNCHANGED gateway, NEW r \in Runtimes, RelocatePreflight(r)
    PROVE  GatewayInv'
<1>1. PICK w \in Registered(file), p \in Paths :
        Issue(Receipt(Change("relocate", w, p, file[w].path), r))
  BY DEF RelocatePreflight
<1> DEFINE op == Change("relocate", w, p, file[w].path)
<1>2. op \in Ops /\ op.kind = "relocate"
  BY EntryAt DEF Change, Ops, Mutations, Registrations, Moves, Trusts, Profiles, Removals
<1>3. Issue(Receipt(op, r))
  BY <1>1
<1> HIDE DEF op
<1>4. Receipt(op, r) \in Receipts /\ Receipt(op, r).outer = "none"
  BY <1>2, ReceiptFits
<1> QED BY <1>3, <1>4, IssueStep

\* A receipt of a registration that is worked on is that of a call of its owner.
LEMMA OwnersWork ==
    ASSUME GatewayInv, NEW n \in 1..Len(rcpt), rcpt[n].op.kind \in Registrations,
           NEW s \in Runtimes, Work(job[s]) = n
    PROVE  rcpt[n].owner = s
<1>1. n \in Ids /\ n <= Len(rcpt)
  BY ReceiptsAssumption DEF GatewayInv, Shape, Ids
<1> QED BY <1>1 DEF GatewayInv, Once

LEMMA ExpireStep ==
    ASSUME GatewayInv, UNCHANGED gateway, NEW r \in Runtimes, Expire(r)
    PROVE  GatewayInv'
<1>1. job[r] = Idle /\ job' = job /\ UNCHANGED <<registry, places, succeeded>>
  BY DEF Expire
<1>2. PICK n \in 1..Len(rcpt) : rcpt[n].owner = r /\ Drop(n)
  BY ReceiptsOf DEF Expire, GatewayInv, Shape
<1>3. Quiet /\ started' = started /\ succeeded' = succeeded
  BY <1>1, QuietPlaces DEF gateway
<1>4. Work(job[r]) = 0
  BY <1>1, IdleFits
<1>5. rcpt[n].op.kind \in Registrations => \A s \in Runtimes : Work(job[s]) # n
  BY <1>2, <1>4, OwnersWork
<1>6. /\ Grown(rcpt, rcpt') /\ Len(rcpt') <= MaxReceipts
      /\ Cardinality(Fresh(rcpt')) <= MaxOpen
      /\ \A k \in 1..Len(rcpt) \ {n} : rcpt'[k] = rcpt[k]
  BY <1>2, DropReceipt
<1> QED BY <1>1, <1>3, <1>5, <1>6, IdleStep

\* A call that begins.
Call(step, op, base, n) ==
    [Idle EXCEPT !.at = step, !.op = op, !.base = base, !.rcpt = n]

LEMMA CallIs ==
    ASSUME NEW step, NEW op, NEW base, NEW n
    PROVE  LET j == Call(step, op, base, n)
           IN  /\ j.at = step /\ j.op = op /\ j.base = base /\ j.before = None /\ j.rcpt = n
               /\ \A k \in Nat :
                    /\ step \in Locking \cup {"rename", "rollback", "moveback", "context", "handler"}
                    /\ op \in Ops /\ base \in Document \cup {None} /\ n \in 0..k
                    => j \in Calls(k, None)
<1> DEFINE U == [at : {step, "idle"}, op : {op, NoChange}, base : {base, None}, before : {None},
                 after : {None}, rcpt : {n, 0}, whole : {TRUE}, word : {FALSE}]
           a == [Idle EXCEPT !.at = step]
           b == [a EXCEPT !.op = op]
           c == [b EXCEPT !.base = base]
           d == [c EXCEPT !.rcpt = n]
<1>1. Idle \in U
  BY DEF Idle
<1>2. Call(step, op, base, n) = d
  BY DEF Call
<1>3. a \in U /\ a.at = step
  BY <1>1
<1> HIDE DEF a
<1>4. b \in U /\ b.at = step /\ b.op = op
  BY <1>3
<1> HIDE DEF b
<1>5. c \in U /\ c.at = step /\ c.op = op /\ c.base = base
  BY <1>4
<1> HIDE DEF c
<1>6. d \in U /\ d.at = step /\ d.op = op /\ d.base = base /\ d.rcpt = n
  BY <1>5
<1> HIDE DEF d
<1>7. d.before = None
  BY <1>6
<1>8. ASSUME NEW k \in Nat,
             step \in Locking \cup {"rename", "rollback", "moveback", "context", "handler"},
             op \in Ops, base \in Document \cup {None}, n \in 0..k
      PROVE  d \in Calls(k, None)
  BY <1>6, <1>8 DEF Calls
<1> QED BY <1>2, <1>6, <1>7, <1>8

LEMMA BeginIs ==
    ASSUME GatewayInv, NEW r \in Runtimes, NEW step, NEW op, NEW base, NEW n,
           Begin(r, step, op, base, n)
    PROVE  Others(r) /\ job[r] = Idle /\ job'[r] = Call(step, op, base, n) /\ Work(job[r]) = 0
<1>1. job[r] = Idle /\ job' = [job EXCEPT ![r] = Call(step, op, base, n)]
  BY DEF Begin, Call
<1> QED BY <1>1, JobReplaced, IdleFits

\* A call that begins without a receipt.
LEMMA PlainStep ==
    ASSUME GatewayInv, NEW r \in Runtimes, Quiet,
           rcpt' = rcpt, succeeded' = succeeded, started' = started,
           NEW op \in Ops, op.kind \in {"register", "policy"}, NEW base \in {None, file},
           Begin(r, "lock", op, base, 0)
    PROVE  GatewayInv'
<1> DEFINE j == Call("lock", op, base, 0)
<1>1. Others(r) /\ job'[r] = j /\ Work(job[r]) = 0
  BY BeginIs
<1>2. file \in Document /\ Len(rcpt) \in Nat
  BY ReceiptsOf DEF GatewayInv, Shape
<1>3. /\ j.at = "lock" /\ j.op = op /\ j.base = base /\ j.before = None /\ j.rcpt = 0
      /\ \A k \in Nat :
           /\ "lock" \in Locking \cup {"rename", "rollback", "moveback", "context", "handler"}
           /\ op \in Ops /\ base \in Document \cup {None} /\ 0 \in 0..k
           => j \in Calls(k, None)
  BY CallIs
<1> HIDE DEF j
<1>4. j \in Calls(Len(rcpt), j.before)
  <2>1. 0 \in 0..Len(rcpt)
    BY <1>2
  <2> QED BY <1>2, <1>3, <2>1 DEF Locking
<1>5. CallKnows(j, rcpt)
  BY <1>3 DEF CallKnows, Locking, Writing, Mutations, Registrations, Trusts
<1>6. TrustFits(j, granted')
  BY <1>3 DEF TrustFits, Grants, Writing
<1>7. j.at \notin Writing /\ Work(j) = 0
  BY <1>3 DEF Writing, Work
<1> QED BY <1>1, <1>4, <1>5, <1>6, <1>7, JobStep DEF JobFits

LEMMA PromoteStep ==
    ASSUME GatewayInv, UNCHANGED gateway, NEW r \in Runtimes, Promote(r)
    PROVE  GatewayInv'
<1>1. UNCHANGED <<registry, places, receipts>>
  BY DEF Promote
<1>2. PICK w \in Workspaces, p \in dirs, base \in {None, file} :
        Begin(r, "lock", Change("register", w, p, p), base, 0)
  BY DEF Promote
<1>3. p \in Paths
  BY DEF GatewayInv, Shape
<1>4. Change("register", w, p, p) \in Ops /\ Change("register", w, p, p).kind = "register"
  BY <1>3 DEF Change, Ops, Mutations, Registrations, Moves, Trusts, Profiles, Removals
<1>5. Quiet /\ rcpt' = rcpt /\ succeeded' = succeeded /\ started' = started
  BY <1>1, QuietPlaces DEF receipts, gateway
<1> QED BY <1>2, <1>4, <1>5, PlainStep

LEMMA ProjectCreateStep ==
    ASSUME GatewayInv, UNCHANGED gateway, NEW r \in Runtimes, ProjectCreate(r)
    PROVE  GatewayInv'
<1>1. UNCHANGED <<registry, apart, receipts>>
  BY DEF ProjectCreate
<1>2. PICK w \in Workspaces, p \in Paths \ dirs :
        Begin(r, "lock", Change("register", w, p, p), None, 0) /\ NewDirectory(p)
  BY DEF ProjectCreate
<1>3. Change("register", w, p, p) \in Ops /\ Change("register", w, p, p).kind = "register"
  BY DEF Change, Ops, Mutations, Registrations, Moves, Trusts, Profiles, Removals
<1>4. dirs' \subseteq Paths /\ apart' \in BOOLEAN /\ world' \in Nat
  BY <1>1, <1>2 DEF GatewayInv, Shape, NewDirectory, gateway
<1>5. Quiet /\ rcpt' = rcpt /\ succeeded' = succeeded /\ started' = started
  BY <1>1, <1>4, QuietHandler DEF receipts, gateway
<1> QED BY <1>2, <1>3, <1>5, PlainStep

LEMMA GroupCreateStep ==
    ASSUME GatewayInv, UNCHANGED gateway, NEW r \in Runtimes, GroupCreate(r)
    PROVE  GatewayInv'
<1>1. UNCHANGED <<registry, job, apart, receipts>>
  BY DEF GroupCreate
<1>2. dirs' \subseteq Paths /\ apart' \in BOOLEAN /\ world' \in Nat
  BY <1>1 DEF GatewayInv, Shape, GroupCreate, NewDirectory, gateway
<1>3. Quiet /\ rcpt' = rcpt /\ succeeded' = succeeded /\ started' = started
  BY <1>1, <1>2, QuietHandler DEF receipts, gateway
<1> QED BY <1>1, <1>3, SameReceipts, IdleStep

LEMMA PolicyUpdateStep ==
    ASSUME GatewayInv, UNCHANGED gateway, NEW r \in Runtimes, PolicyUpdate(r)
    PROVE  GatewayInv'
<1>1. UNCHANGED <<registry, places, receipts>>
  BY DEF PolicyUpdate
<1>2. PICK w \in Registered(file), level \in Levels :
        Begin(r, "lock", Change("policy", w, level, file[w].path), file, 0)
  BY DEF PolicyUpdate
<1> DEFINE op == Change("policy", w, level, file[w].path)
<1>3. op \in Ops /\ op.kind = "policy"
  BY EntryAt DEF Change, Ops, Mutations, Registrations, Moves, Trusts, Profiles, Removals
<1>4. Quiet /\ rcpt' = rcpt /\ succeeded' = succeeded /\ started' = started
  BY <1>1, QuietPlaces DEF receipts, gateway
<1>5. Begin(r, "lock", op, file, 0)
  BY <1>2
<1> HIDE DEF op
<1> QED BY <1>3, <1>4, <1>5, PlainStep

LEMMA FinishPlainStep ==
    ASSUME GatewayInv, UNCHANGED gateway, NEW r \in Runtimes, FinishPlain(r)
    PROVE  GatewayInv'
<1>1. UNCHANGED <<registry, places, receipts>> /\ Done(r)
  BY DEF FinishPlain
<1>2. Quiet /\ rcpt' = rcpt /\ succeeded' = succeeded /\ started' = started
  BY <1>1, QuietPlaces DEF receipts, gateway
<1> QED BY <1>1, <1>2, EndStep

-----------------------------------------------------------------------------
(* Registrations carried out by receipt, and relocations.                   *)

\* A call that begins on a receipt that was shown for a change of the registry.
LEMMA CallFits ==
    ASSUME NEW t \in Seq(Receipts), NEW n \in 1..Len(t), NEW g,
           t[n].op.kind \in Registrations \cup {"relocate"}, NEW step \in {"lock", "rename"},
           step = "rename" => t[n].op.kind = "relocate"
    PROVE  LET j == Call(step, t[n].op, t[n].base, n)
           IN  JobFits(j, t) /\ TrustFits(j, g) /\ j.at \notin Writing /\ Work(j) = n
<1> DEFINE op == t[n].op
           base == t[n].base
           j == Call(step, op, base, n)
<1>1. t[n] \in Receipts /\ Len(t) \in Nat /\ n \in 0..Len(t) /\ n # 0
  BY ReceiptsOf
<1>2. op \in Ops /\ base \in Document \cup {None} /\ op.kind \notin {"trust", "back", "other"}
  BY <1>1 DEF Receipts, Registrations
<1>3. step \in Locking \cup {"rename", "rollback", "moveback", "context", "handler"}
  BY DEF Locking
<1> HIDE DEF op, base
<1>4. /\ j.at = step /\ j.op = op /\ j.base = base /\ j.before = None /\ j.rcpt = n
      /\ j \in Calls(Len(t), None)
  BY <1>1, <1>2, <1>3, CallIs
<1> HIDE DEF j
<1>5. op.kind \in Registrations \cup {"relocate"} /\ (step = "rename" => op.kind = "relocate")
  BY DEF op
<1>6. CallKnows(j, t)
  BY <1>1, <1>4, <1>5 DEF CallKnows, Locking, Writing, Mutations, Moves, op, base
<1>7. TrustFits(j, g)
  BY <1>2, <1>4 DEF TrustFits, Grants, Writing
<1>8. j.at \notin Writing /\ Work(j) = n
  BY <1>4 DEF Writing, Work
<1>9. JobFits(j, t)
  BY <1>4, <1>6 DEF JobFits
<1> QED BY <1>7, <1>8, <1>9 DEF j, op, base

LEMMA ApplyReceiptStep ==
    ASSUME GatewayInv, UNCHANGED gateway, NEW r \in Runtimes, NEW kinds \in SUBSET Registrations,
           ApplyReceipt(r, kinds)
    PROVE  GatewayInv'
<1>1. UNCHANGED <<registry, places, receipts>>
  BY DEF ApplyReceipt
<1>2. rcpt \in Seq(Receipts) /\ \A k \in 1..Len(rcpt) : rcpt[k] \in Receipts
  BY ReceiptsOf DEF GatewayInv, Shape
<1>3. PICK n \in 1..Len(rcpt) :
        /\ rcpt[n].op.kind \in Registrations /\ rcpt[n].kept /\ rcpt[n].owner = r
        /\ Begin(r, "lock", rcpt[n].op, rcpt[n].base, n)
  BY <1>2, ReceiptsOf DEF ApplyReceipt
<1>4. PICK op, base : op = rcpt[n].op /\ base = rcpt[n].base
  OBVIOUS
<1> DEFINE j == Call("lock", op, base, n)
<1>5. Others(r) /\ job'[r] = j /\ Work(job[r]) = 0
  BY <1>3, <1>4, BeginIs
<1>6. JobFits(j, rcpt) /\ TrustFits(j, granted') /\ j.at \notin Writing /\ Work(j) = n
  BY <1>2, <1>3, <1>4, CallFits
<1> HIDE DEF j
<1>7. Quiet /\ rcpt' = rcpt /\ succeeded' = succeeded /\ started' = started
  BY <1>1, QuietPlaces DEF receipts, gateway
<1>8. rcpt[n].outer = "none"
  BY <1>2, <1>3 DEF Receipts
<1>9. Starts(r)
  BY <1>3, <1>5, <1>6, <1>7, <1>8 DEF Starts, Open
<1>10. Effect(r)
  BY <1>5, <1>6, <1>7, <1>9, SameReceipts DEF Effect
<1> QED BY <1>10, EffectKeeps

\* A call on a receipt that has come to the end of its mutation.
LEMMA EndsOn ==
    ASSUME GatewayInv, NEW r \in Runtimes, job[r].rcpt # 0, job[r].at \in Locking
    PROVE  /\ job[r].rcpt \in 1..Len(rcpt) /\ Work(job[r]) = job[r].rcpt
           /\ rcpt[job[r].rcpt] \in Receipts
           /\ \/ job[r].op = rcpt[job[r].rcpt].op
              \/ job[r].op.kind = "back" /\ rcpt[job[r].rcpt].op.kind = "relocate"
<1>1. job[r] \in Calls(Len(rcpt), job[r].before) /\ CallKnows(job[r], rcpt)
  BY Busy DEF Locking
<1>2. Len(rcpt) \in Nat /\ \A n \in 1..Len(rcpt) : rcpt[n] \in Receipts
  BY ReceiptsOf DEF GatewayInv, Shape
<1>3. job[r].rcpt \in 0..Len(rcpt)
  BY <1>1 DEF Calls
<1>4. job[r].rcpt \in 1..Len(rcpt)
  BY <1>2, <1>3
<1>5. Work(job[r]) = job[r].rcpt
  BY DEF Work, Locking
<1> QED BY <1>1, <1>2, <1>4, <1>5 DEF CallKnows

LEMMA FinishApplyStep ==
    ASSUME GatewayInv, UNCHANGED gateway, NEW r \in Runtimes, FinishApply(r)
    PROVE  GatewayInv'
<1>1. Done(r) /\ job[r].rcpt # 0 /\ job[r].at \in Locking /\ UNCHANGED <<registry, places>>
  BY DEF FinishApply, Locking
<1>2. \/ Drop(job[r].rcpt) /\ (Report(r, job[r].rcpt) \/ succeeded' = succeeded)
      \/ UNCHANGED receipts
  BY DEF FinishApply
<1>3. Quiet /\ started' = started
  BY <1>1, QuietPlaces DEF gateway
<1>4. PICK n : n = job[r].rcpt
  OBVIOUS
<1>5. n \in 1..Len(rcpt) /\ Work(job[r]) = n
  BY <1>1, <1>4, EndsOn
<1>6. CASE UNCHANGED receipts
  BY <1>1, <1>3, <1>6, EndStep DEF receipts
<1>7. CASE Drop(n) /\ (Report(r, n) \/ succeeded' = succeeded)
  BY <1>1, <1>3, <1>5, <1>7, EndStep
<1> QED BY <1>2, <1>4, <1>6, <1>7

LEMMA RelocateStep ==
    ASSUME GatewayInv, UNCHANGED gateway, NEW r \in Runtimes, Relocate(r)
    PROVE  GatewayInv'
<1>1. UNCHANGED <<registry, places, succeeded>>
  BY DEF Relocate
<1>2. rcpt \in Seq(Receipts) /\ DOMAIN rcpt = 1..Len(rcpt)
      /\ \A k \in 1..Len(rcpt) : rcpt[k] \in Receipts
  BY ReceiptsOf DEF GatewayInv, Shape
<1>3. PICK n \in 1..Len(rcpt) :
        /\ rcpt[n].op.kind = "relocate" /\ rcpt[n].kept /\ Drop(n)
        /\ job' = job \/ Begin(r, "rename", rcpt[n].op, rcpt[n].base, n)
  BY <1>2 DEF Relocate
<1>4. /\ Grown(rcpt, rcpt') /\ Len(rcpt') <= MaxReceipts /\ Cardinality(Fresh(rcpt')) <= MaxOpen
      /\ Len(rcpt') = Len(rcpt) /\ rcpt'[n].kept = FALSE /\ rcpt'[n].outer = rcpt[n].outer
      /\ \A k \in 1..Len(rcpt) \ {n} : rcpt'[k] = rcpt[k]
  BY <1>3, DropReceipt
<1>5. Quiet /\ succeeded' = succeeded /\ started' = started
  BY <1>1, QuietPlaces DEF gateway
<1>6. rcpt[n].op.kind \notin Registrations /\ rcpt[n].outer = "none"
  BY <1>2, <1>3 DEF Registrations, Receipts
<1>7. CASE job' = job
  BY <1>3, <1>4, <1>5, <1>6, <1>7, IdleStep
<1>8. CASE Begin(r, "rename", rcpt[n].op, rcpt[n].base, n)
  <2>1. PICK op, base : op = rcpt[n].op /\ base = rcpt[n].base
    OBVIOUS
  <2> DEFINE j == Call("rename", op, base, n)
  <2>2. Others(r) /\ job'[r] = j /\ Work(job[r]) = 0
    BY <1>8, <2>1, BeginIs
  <2>3. JobFits(j, rcpt) /\ TrustFits(j, granted') /\ j.at \notin Writing /\ Work(j) = n
    BY <1>2, <1>3, <2>1, CallFits
  <2> HIDE DEF j
  <2>4. JobFits(j, rcpt')
    BY <1>2, <1>4, <2>3, JobStays
  <2>5. Starts(r)
    BY <1>3, <1>4, <1>5, <1>6, <2>2, <2>3 DEF Starts, Open
  <2>6. Effect(r)
    BY <1>4, <1>5, <2>2, <2>3, <2>4, <2>5 DEF Effect
  <2> QED BY <2>6, EffectKeeps
<1> QED BY <1>3, <1>7, <1>8

\* The receipt of a relocation under way.
LEMMA MovingOn ==
    ASSUME GatewayInv, NEW r \in Runtimes,
           \/ job[r].at \in {"rename", "rollback", "moveback"}
           \/ job[r].at \in Locking /\ job[r].op.kind \in Moves
    PROVE  /\ job[r] \in Calls(Len(rcpt), job[r].before) /\ CallKnows(job[r], rcpt)
           /\ job[r].op.kind \in Moves /\ job[r].op \in Ops
           /\ job[r].rcpt \in 1..Len(rcpt) /\ job[r].rcpt # 0
           /\ rcpt[job[r].rcpt].op.kind = "relocate"
           /\ Source(r) \in Paths /\ Destination(r) \in Paths
           /\ Work(job[r]) = job[r].rcpt
<1>1. /\ job[r] \in Calls(Len(rcpt), job[r].before) /\ CallKnows(job[r], rcpt)
      /\ job[r].at \notin {"idle", "context"}
  BY Busy DEF Locking
<1>2. job[r].op.kind \in Moves
  BY <1>1 DEF CallKnows, Moves
<1>3. job[r].rcpt # 0
  BY <1>1, <1>2 DEF CallKnows, Moves
<1>4. Len(rcpt) \in Nat /\ \A n \in 1..Len(rcpt) : rcpt[n] \in Receipts
  BY ReceiptsOf DEF GatewayInv, Shape
<1>5. job[r].rcpt \in 0..Len(rcpt) /\ job[r].op \in Ops
  BY <1>1 DEF Calls
<1>6. job[r].rcpt \in 1..Len(rcpt)
  BY <1>3, <1>4, <1>5
<1>7. rcpt[job[r].rcpt] \in Receipts
  BY <1>4, <1>6
<1>8. rcpt[job[r].rcpt].op.kind = "relocate" /\ rcpt[job[r].rcpt].op \in Ops
  BY <1>1, <1>2, <1>3, <1>7 DEF CallKnows, Moves, Receipts
<1>9. Source(r) \in Paths /\ Destination(r) \in Paths
  BY <1>8 DEF Source, Destination, Ops, Moves
<1> QED BY <1>1, <1>2, <1>3, <1>5, <1>6, <1>8, <1>9 DEF Work

\* A relocation that goes on to change the registry, or to take its directory back.
LEMMA MovedOn ==
    ASSUME GatewayInv, NEW r \in Runtimes,
           \/ job[r].at \in {"rename", "rollback"}
           \/ job[r].at \in Locking /\ job[r].op.kind \in Moves,
           NEW step \in {"lock", "rollback"}, step = "lock" => job[r].at = "rename",
           Goto(r, step), Quiet, rcpt' = rcpt, succeeded' = succeeded, started' = started
    PROVE  GatewayInv'
<1> DEFINE i == job[r]
           j == [job[r] EXCEPT !.at = step]
<1>1. Others(r) /\ job'[r] = j
  BY GotoFits
<1>2. /\ i \in Calls(Len(rcpt), i.before) /\ CallKnows(i, rcpt) /\ i.op.kind \in Moves
      /\ i.rcpt # 0 /\ Work(i) = i.rcpt
  BY MovingOn
<1>3. /\ j \in Calls(Len(rcpt), j.before) /\ j.at = step /\ j.op = i.op /\ j.base = i.base
      /\ j.rcpt = i.rcpt
  BY <1>2 DEF Calls, Locking
<1> HIDE DEF j
<1>4. CallKnows(j, rcpt)
  BY <1>2, <1>3 DEF CallKnows, Locking, Writing, Moves, Mutations
<1>5. TrustFits(j, granted') /\ j.at \notin Writing /\ Work(j) = Work(i)
  BY <1>2, <1>3 DEF TrustFits, Grants, Moves, Writing, Work
<1> QED BY <1>1, <1>3, <1>4, <1>5, JobStep DEF JobFits

LEMMA RenameDirectoryStep ==
    ASSUME GatewayInv, UNCHANGED gateway, NEW r \in Runtimes, RenameDirectory(r)
    PROVE  GatewayInv'
<1>1. job[r].at = "rename" /\ UNCHANGED <<registry, apart, receipts>>
  BY DEF RenameDirectory
<1>2. Source(r) \in Paths /\ Destination(r) \in Paths
  BY <1>1, MovingOn
<1>3. dirs' \subseteq Paths /\ apart' \in BOOLEAN /\ world' \in Nat
  BY <1>1, <1>2 DEF RenameDirectory, Move, GatewayInv, Shape, gateway
<1>4. Quiet /\ rcpt' = rcpt /\ succeeded' = succeeded /\ started' = started
  BY <1>1, <1>3, QuietHandler DEF receipts, gateway
<1>5. Goto(r, "lock") \/ Goto(r, "rollback") \/ Done(r)
  BY DEF RenameDirectory, RepairLinks
<1>6. CASE Done(r)
  BY <1>4, <1>6, EndStep
<1>7. CASE Goto(r, "lock") \/ Goto(r, "rollback")
  BY <1>1, <1>4, <1>7, MovedOn
<1> QED BY <1>5, <1>6, <1>7

LEMMA FinishRelocateStep ==
    ASSUME GatewayInv, UNCHANGED gateway, NEW r \in Runtimes, FinishRelocate(r)
    PROVE  GatewayInv'
<1>1. /\ job[r].op.kind = "relocate" /\ job[r].at \in Locking
      /\ UNCHANGED <<registry, places, rcpt>>
  BY DEF FinishRelocate, Kind, Locking
<1>2. \/ Done(r) /\ Report(r, job[r].rcpt)
      \/ Goto(r, "rollback") /\ succeeded' = succeeded
  BY DEF FinishRelocate
<1>3. Quiet /\ started' = started /\ rcpt' = rcpt
  BY <1>1, QuietPlaces DEF gateway
<1>4. CASE Done(r) /\ Report(r, job[r].rcpt)
  <2>1. PICK n : n = job[r].rcpt
    OBVIOUS
  <2>2. n \in 1..Len(rcpt) /\ Work(job[r]) = n /\ rcpt[n].op.kind = "relocate"
    BY <1>1, <2>1, MovingOn DEF Moves
  <2>3. rcpt[n].op.kind \notin Registrations
    BY <2>2 DEF Registrations
  <2> QED BY <1>3, <1>4, <2>1, <2>2, <2>3, EndStep
<1>5. CASE Goto(r, "rollback") /\ succeeded' = succeeded
  BY <1>1, <1>3, <1>5, MovedOn DEF Moves
<1> QED BY <1>2, <1>4, <1>5

\* A relocation that goes on to take its directory back knows whether the registry is.
LEMMA BackOn ==
    ASSUME GatewayInv, NEW r \in Runtimes,
           job[r].at = "rollback" \/ (job[r].at \in Locking /\ job[r].op.kind \in Moves),
           NEW w \in BOOLEAN,
           job' = [job EXCEPT ![r] = [job[r] EXCEPT !.at = "moveback", !.whole = w]],
           Quiet, rcpt' = rcpt, succeeded' = succeeded, started' = started
    PROVE  GatewayInv'
<1> DEFINE i == job[r]
           j == [job[r] EXCEPT !.at = "moveback", !.whole = w]
<1>1. Others(r) /\ job'[r] = j
  BY JobReplaced
<1>2. /\ i \in Calls(Len(rcpt), i.before) /\ CallKnows(i, rcpt) /\ i.op.kind \in Moves
      /\ i.rcpt # 0 /\ Work(i) = i.rcpt
  BY MovingOn
<1>3. /\ j \in Calls(Len(rcpt), j.before) /\ j.at = "moveback" /\ j.op = i.op /\ j.base = i.base
      /\ j.rcpt = i.rcpt
  BY <1>2 DEF Calls, Locking
<1> HIDE DEF j
<1>4. CallKnows(j, rcpt)
  BY <1>2, <1>3 DEF CallKnows, Locking, Writing
<1>5. TrustFits(j, granted') /\ j.at \notin Writing /\ Work(j) = Work(i)
  BY <1>2, <1>3 DEF TrustFits, Grants, Moves, Writing, Work
<1> QED BY <1>1, <1>3, <1>4, <1>5, JobStep DEF JobFits

\* The reverse mutation goes by the registry of the day, and is about the same receipt.
LEMMA RollbackStep ==
    ASSUME GatewayInv, UNCHANGED gateway, NEW r \in Runtimes, Rollback(r)
    PROVE  GatewayInv'
<1>1. job[r].at = "rollback" /\ UNCHANGED <<registry, places, receipts>>
  BY DEF Rollback
<1>2. Quiet /\ rcpt' = rcpt /\ succeeded' = succeeded /\ started' = started
  BY <1>1, QuietPlaces DEF receipts, gateway
<1>3. PICK back : back = Change("back", job[r].op.ws, Source(r), Destination(r))
  OBVIOUS
<1>4. \/ job' = [job EXCEPT ![r] = [job[r] EXCEPT !.at = "lock", !.base = file, !.op = back]]
      \/ \E w \in BOOLEAN :
           job' = [job EXCEPT ![r] = [job[r] EXCEPT !.at = "moveback", !.whole = w]]
  <2> DEFINE e == file[job[r].op.ws]
             there == e # None /\ e.path = Destination(r)
             w == e # None /\ file = rcpt[job[r].rcpt].base
  <2>1. CASE there
    BY <1>3, <2>1 DEF Rollback
  <2>2. CASE ~there
    <3>1. w \in BOOLEAN
      OBVIOUS
    <3>2. job' = [job EXCEPT ![r] = [job[r] EXCEPT !.at = "moveback", !.whole = w]]
      BY <2>2 DEF Rollback
    <3> HIDE DEF w
    <3> QED BY <3>1, <3>2
  <2> QED BY <2>1, <2>2
<1>5. ASSUME NEW w \in BOOLEAN,
             job' = [job EXCEPT ![r] = [job[r] EXCEPT !.at = "moveback", !.whole = w]]
      PROVE  GatewayInv'
  BY <1>1, <1>2, <1>5, BackOn
<1>6. CASE job' = [job EXCEPT ![r] = [job[r] EXCEPT !.at = "lock", !.base = file, !.op = back]]
  <2> DEFINE i == job[r]
             a == [job[r] EXCEPT !.at = "lock"]
             b == [a EXCEPT !.base = file]
             j == [b EXCEPT !.op = back]
  <2>1. Others(r) /\ job'[r] = j
    BY <1>6, JobReplaced
  <2>2. /\ i \in Calls(Len(rcpt), i.before) /\ i.op \in Ops
        /\ i.rcpt # 0 /\ Work(i) = i.rcpt /\ rcpt[i.rcpt].op.kind = "relocate"
        /\ Source(r) \in Paths /\ Destination(r) \in Paths
    BY <1>1, MovingOn
  <2>3. back \in Ops /\ back.kind = "back"
    BY <1>3, <2>2 DEF Change, Ops, Mutations, Registrations, Moves, Trusts, Profiles, Removals
  <2>4. a \in Calls(Len(rcpt), i.before) /\ a.at = "lock" /\ a.rcpt = i.rcpt
    BY <2>2 DEF Calls, Locking
  <2> HIDE DEF a
  <2>5. b \in Calls(Len(rcpt), i.before) /\ b.at = "lock" /\ b.rcpt = i.rcpt
    BY <2>4 DEF Calls, GatewayInv, Shape
  <2> HIDE DEF b
  <2>6. /\ j \in Calls(Len(rcpt), j.before) /\ j.at = "lock" /\ j.rcpt = i.rcpt /\ j.op = back
    BY <2>3, <2>5 DEF Calls
  <2> HIDE DEF j
  <2>7. CallKnows(j, rcpt)
    BY <2>2, <2>3, <2>6 DEF CallKnows, Locking, Writing, Moves, Mutations
  <2>8. TrustFits(j, granted') /\ j.at \notin Writing /\ Work(j) = Work(i)
    BY <2>2, <2>3, <2>6 DEF TrustFits, Grants, Writing, Work
  <2> QED BY <1>2, <2>1, <2>6, <2>7, <2>8, JobStep DEF JobFits
<1> QED BY <1>4, <1>5, <1>6

LEMMA FinishBackStep ==
    ASSUME GatewayInv, UNCHANGED gateway, NEW r \in Runtimes, FinishBack(r)
    PROVE  GatewayInv'
<1>1. /\ job[r].at \in Locking /\ job[r].op.kind \in Moves
      /\ UNCHANGED <<registry, places, receipts>>
  BY DEF FinishBack, Kind, Locking, Moves
<1>2. Quiet /\ rcpt' = rcpt /\ succeeded' = succeeded /\ started' = started
  BY <1>1, QuietPlaces DEF receipts, gateway
<1>3. PICK w \in BOOLEAN :
        job' = [job EXCEPT ![r] = [job[r] EXCEPT !.at = "moveback", !.whole = w]]
  BY DEF FinishBack, GatewayInv, Shape
<1> QED BY <1>1, <1>2, <1>3, BackOn

LEMMA MoveBackStep ==
    ASSUME GatewayInv, UNCHANGED gateway, NEW r \in Runtimes, MoveBack(r)
    PROVE  GatewayInv'
<1>1. job[r].at = "moveback" /\ UNCHANGED <<registry, receipts>> /\ Done(r)
  BY DEF MoveBack
<1>2. Source(r) \in Paths
  BY <1>1, MovingOn
<1>3. dirs' \subseteq Paths
  BY <1>2 DEF MoveBack, Move, GatewayInv, Shape
<1>4. apart' \in BOOLEAN /\ world' \in Nat
  BY DEF MoveBack, GatewayInv, Shape, gateway
<1>5. Quiet /\ rcpt' = rcpt /\ succeeded' = succeeded /\ started' = started
  BY <1>1, <1>3, <1>4, QuietHandler DEF receipts, gateway
<1> QED BY <1>1, <1>5, EndStep

-----------------------------------------------------------------------------
(* The gateway.                                                             *)

\* A binding of the registry is bound to a workspace; any other pins no change of it.
LEMMA BindingFits ==
    ASSUME NEW spec \in OnRegistry \cup Elsewhere
    PROVE  /\ Bound(spec) \in Binding /\ spec.bound \in BOOLEAN
           /\ Bound(spec).pins = spec.pins /\ Bound(spec).bound = spec.bound
           /\ spec.pins \notin {"nothing", "digest"} => spec.bound = TRUE
           /\ spec.approval # "human" => spec # TrustBinding("trusted")
<1> DEFINE Plain == [risk : {"R0", "R1", "R2", "R3"},
                     approval : {"none", "automatic", "delegated", "workspace_trust", "human"},
                     pins : {"nothing", "digest"}, writes : BOOLEAN, bound : BOOLEAN]
           Whole == [risk : {"R1", "R3"}, approval : {"automatic", "human"},
                     pins : Profiles \cup Removals \cup {"trust"}, writes : BOOLEAN, bound : {TRUE}]
<1>1. /\ GithubRepository \subseteq Plain /\ WorkspaceOrganization \subseteq Plain
      /\ {LegacyTool("R0", "read"), LegacyTool("R3", "direct"), LegacyTool("R3", "typed")} \subseteq Plain
  <2>1. /\ Spec4("R0", "none", "nothing", FALSE) \in Plain
        /\ Spec4("R2", "human", "nothing", TRUE) \in Plain
        /\ Spec4("R3", "human", "nothing", TRUE) \in Plain
        /\ Spec4("R3", "delegated", "nothing", TRUE) \in Plain
    BY DEF Spec4
  <2>2. \A s \in Plain : Unbound(s) \in Plain
    BY DEF Unbound
  <2> HIDE DEF Plain
  <2>3. GithubRepository \subseteq Plain
    BY <2>1 DEF GithubRepository
  <2>4. WorkspaceOrganization \subseteq Plain
    BY <2>1, <2>2 DEF WorkspaceOrganization
  <2>5. /\ LegacyTool("R0", "read") = Spec4("R0", "none", "nothing", FALSE)
        /\ LegacyTool("R3", "direct") = Spec4("R3", "human", "nothing", TRUE)
        /\ LegacyTool("R3", "typed") = Spec4("R3", "delegated", "nothing", TRUE)
    BY DEF LegacyTool
  <2> QED BY <2>1, <2>3, <2>4, <2>5
<1>2. /\ AnalysisPack \in Plain /\ SessionList \in Plain /\ ContextRead \in Plain
      /\ PerformanceSummary \in Plain /\ ContextCheckpoint \in Plain /\ ExternalInvoke \in Plain
      /\ HybridRoute \in Plain /\ FastStep \in Plain /\ TrustedDelivery \in Plain
      /\ ExternalOpen \in Plain /\ MacosAppReplace \in Plain
  BY DEF AnalysisPack, SessionList, ContextRead, PerformanceSummary, ContextCheckpoint,
         ExternalInvoke, HybridRoute, FastStep, TrustedDelivery, ExternalOpen, MacosAppReplace, Spec4
<1>3. /\ SessionAbandon \in Plain /\ SessionArchive \in Plain /\ EvidenceDisposition \in Plain
      /\ LegacyWorktreeAdoption \in Plain /\ SessionReconcile \in Plain /\ IdentityRepair \in Plain
      /\ CandidateActivation \in Plain /\ CandidatePreparation \in Plain /\ EvidenceImport \in Plain
  BY DEF SessionAbandon, SessionArchive, EvidenceDisposition, LegacyWorktreeAdoption,
         SessionReconcile, IdentityRepair, CandidateActivation, CandidatePreparation,
         EvidenceImport, Spec4
<1>4. Elsewhere \subseteq Plain
  <2> HIDE DEF Plain
  <2> QED BY <1>1, <1>2, <1>3 DEF Elsewhere
<1>5. TrustBinding("trusted") \in Whole /\ TrustBinding("trusted").approval = "human"
  BY DEF TrustBinding, Spec4
<1>6. TrustBinding("standard") \in Whole
  BY DEF TrustBinding, Spec4
<1>7. /\ ProfileRegister("browser") \in Whole /\ ProfileRegister("desktop") \in Whole
      /\ CredentialRegister \in Whole /\ CommandRegister \in Whole
      /\ CommandUnregister \in Whole /\ CommandCleanup \in Whole
  BY DEF ProfileRegister, CredentialRegister, CommandRegister, CommandUnregister, CommandCleanup,
         Spec4, Profiles, Removals
<1>8. OnRegistry \subseteq Whole
  <2> HIDE DEF Whole
  <2> QED BY <1>5, <1>6, <1>7 DEF OnRegistry
<1>9. spec \in Plain \/ spec \in Whole
  BY <1>4, <1>8
<1>10. /\ spec.pins \in Profiles \cup Removals \cup {"trust", "nothing", "digest"}
       /\ spec.writes \in BOOLEAN /\ spec.bound \in BOOLEAN
       /\ spec.pins \notin {"nothing", "digest"} => spec.bound = TRUE
  BY <1>9
<1> QED BY <1>5, <1>10 DEF Bound, Binding

\* The change that a capability asks for.
LEMMA AskedFits ==
    ASSUME GatewayInv, NEW spec \in OnRegistry \cup Elsewhere, NEW w \in Registered(file),
           NEW op \in Asked(spec, w)
    PROVE  /\ op \in Ops /\ op.kind \notin {"back", "policy"}
           /\ op.kind \notin Registrations \cup {"relocate"}
           /\ op.kind = spec.pins \/ (spec.pins \in {"nothing", "digest"} /\ op.kind = "other")
           /\ Grants(op) => spec.approval = "human"
<1>1. spec.pins \in Profiles \cup Removals \cup {"trust", "nothing", "digest"}
  BY BindingFits DEF Binding
<1>2. /\ w \in Workspaces /\ file[w].path \in Paths /\ file[w].item \in Specs \cup {None}
  BY EntryAt
<1>3. CASE spec.pins = "trust"
  <2>1. PICK l \in Levels : /\ op = Change("trust", w, l, file[w].path)
                            /\ l = "trusted" => spec = TrustBinding("trusted")
    BY <1>3 DEF Asked, Levels
  <2>2. op \in Ops /\ op.kind = "trust" /\ op.arg = l
    BY <1>2, <2>1 DEF Change, Ops, Mutations, Registrations, Moves, Trusts, Profiles, Removals
  <2>3. l = "trusted" => spec.approval = "human"
    BY <2>1, BindingFits
  <2> QED BY <1>3, <2>2, <2>3 DEF Grants, Registrations
<1>4. CASE spec.pins \in Profiles
  <2>1. PICK s \in Specs : op = Change(spec.pins, w, s, file[w].path)
    BY <1>4 DEF Asked, Profiles
  <2>2. op \in Ops /\ op.kind = spec.pins
    BY <1>2, <1>4, <2>1 DEF Change, Ops, Mutations, Registrations, Moves, Trusts, Profiles, Removals
  <2> QED BY <1>4, <2>2 DEF Grants, Registrations, Profiles
<1>5. CASE spec.pins \in Removals
  <2>1. PICK s \in Specs : op = Change(spec.pins, w, s, file[w].path)
    BY <1>5 DEF Asked, Removals
  <2>2. op \in Ops /\ op.kind = spec.pins
    BY <1>2, <1>5, <2>1 DEF Change, Ops, Mutations, Registrations, Moves, Trusts, Profiles, Removals
  <2> QED BY <1>5, <2>2 DEF Grants, Registrations, Removals
<1>6. CASE spec.pins \in {"nothing", "digest"}
  <2>1. op = Change("other", w, None, None)
    BY <1>6 DEF Asked
  <2>2. op \in Ops /\ op.kind = "other"
    BY <1>2, <2>1 DEF Change, Ops, Mutations, Registrations, Moves, Trusts, Profiles, Removals
  <2> QED BY <1>6, <2>2 DEF Grants, Registrations
<1> QED BY <1>1, <1>3, <1>4, <1>5, <1>6

LEMMA PreflightStep ==
    ASSUME GatewayInv, NEW r \in Runtimes, Preflight(r)
    PROVE  GatewayInv'
<1>1. PICK spec \in OnRegistry \cup Elsewhere, w \in Registered(file) :
        /\ Len(rcpt) < MaxReceipts
        /\ \E op \in Asked(spec, w) :
            rcpt' = Pruned(Append(rcpt,
                      [op |-> op, base |-> PolicyOf(spec), owner |-> r, kept |-> op.kind # "other",
                       outer |-> "fresh", spec |-> Bound(spec), trust |-> TrustOf(spec, w),
                       asks |-> ApprovalRequired(spec, TrustOf(spec, w)),
                       seen |-> IF spec.pins = "digest" THEN world ELSE 0]))
        /\ UNCHANGED <<registry, job, places, succeeded, gateway>>
  BY DEF Preflight
<1>2. PICK op \in Asked(spec, w) :
        rcpt' = Pruned(Append(rcpt,
                  [op |-> op, base |-> PolicyOf(spec), owner |-> r, kept |-> op.kind # "other",
                   outer |-> "fresh", spec |-> Bound(spec), trust |-> TrustOf(spec, w),
                   asks |-> ApprovalRequired(spec, TrustOf(spec, w)),
                   seen |-> IF spec.pins = "digest" THEN world ELSE 0]))
  BY <1>1
<1> DEFINE c == [op |-> op, base |-> PolicyOf(spec), owner |-> r, kept |-> op.kind # "other",
                 outer |-> "fresh", spec |-> Bound(spec), trust |-> TrustOf(spec, w),
                 asks |-> ApprovalRequired(spec, TrustOf(spec, w)),
                 seen |-> IF spec.pins = "digest" THEN world ELSE 0]
<1>3. c \in Receipts
  <2>1. /\ op \in Ops /\ op.kind \notin {"back", "policy"}
        /\ op.kind \notin Registrations \cup {"relocate"}
        /\ op.kind = spec.pins \/ (spec.pins \in {"nothing", "digest"} /\ op.kind = "other")
        /\ Grants(op) => spec.approval = "human"
    BY AskedFits
  <2>2. /\ Bound(spec) \in Binding /\ spec.bound \in BOOLEAN /\ Bound(spec).pins = spec.pins
        /\ spec.pins \notin {"nothing", "digest"} => spec.bound = TRUE
    BY BindingFits
  <2>3. /\ PolicyOf(spec) \in Document \cup {None}
        /\ op.kind # "other" => PolicyOf(spec) \in Document
    <3>1. file \in Document
      BY DEF GatewayInv, Shape
    <3>2. op.kind # "other" => spec.bound
      <4>1. op.kind # "other" => spec.pins \notin {"nothing", "digest"}
        BY <2>1 DEF Ops, Mutations, Registrations, Moves, Profiles, Removals, Trusts
      <4> QED BY <2>2, <4>1
    <3> QED BY <3>1, <3>2 DEF PolicyOf
  <2>4. TrustOf(spec, w) \in Levels
    BY EntryAt DEF TrustOf, Levels
  <2>5. /\ ApprovalRequired(spec, TrustOf(spec, w)) \in BOOLEAN
        /\ Grants(op) => ApprovalRequired(spec, TrustOf(spec, w))
    BY <2>1 DEF ApprovalRequired
  <2>6. (IF spec.pins = "digest" THEN world ELSE 0) \in Nat
    BY DEF GatewayInv, Shape
  <2>7. (op.kind # "other") \in BOOLEAN
    OBVIOUS
  <2>8. c \in [op : Ops, base : Document \cup {None}, owner : Runtimes, kept : BOOLEAN,
               outer : {"none", "fresh", "spent", "gone"}, spec : Binding \cup {None},
               trust : Levels \cup {None}, asks : BOOLEAN, seen : Nat]
    BY <2>1, <2>2, <2>3, <2>4, <2>5, <2>6, <2>7
  <2>9. /\ c.op = op /\ c.outer = "fresh" /\ c.base = PolicyOf(spec) /\ c.spec = Bound(spec)
        /\ c.asks = ApprovalRequired(spec, TrustOf(spec, w))
    OBVIOUS
  <2> HIDE DEF c
  <2> QED BY <2>1, <2>2, <2>3, <2>5, <2>8, <2>9 DEF Receipts
<1>4. rcpt' = Pruned(Append(rcpt, c))
  BY <1>2
<1> HIDE DEF c
<1>5. rcpt \in Seq(Receipts) /\ Len(rcpt) \in Nat /\ MaxReceipts \in Nat
  BY ReceiptsAssumption DEF GatewayInv, Shape
<1> DEFINE t == Append(rcpt, c)
<1>6. /\ t \in Seq(Receipts) /\ Grown(rcpt, t) /\ Len(t) = Len(rcpt) + 1
      /\ \A k \in 1..Len(rcpt) : t[k] = rcpt[k]
  BY <1>3, <1>5, ReceiptAdded DEF Grown
<1>7. rcpt' = Pruned(t)
  BY <1>4
<1> HIDE DEF t
<1>8. /\ Grown(t, rcpt') /\ Len(rcpt') = Len(t) /\ Cardinality(Fresh(rcpt')) <= MaxOpen
      /\ \A n \in 1..Len(t) : rcpt'[n].kept = t[n].kept
  BY <1>6, <1>7, PrunedFits
<1>9. Grown(rcpt, rcpt') /\ Len(rcpt') <= MaxReceipts
  BY <1>1, <1>5, <1>6, <1>8, GrownTwice
<1>10. \A n \in 1..Len(rcpt) : rcpt'[n].kept = rcpt[n].kept
  BY <1>5, <1>6, <1>8
<1>11. Quiet /\ job' = job /\ succeeded' = succeeded /\ started' = started
  BY <1>1, QuietPlaces DEF gateway
<1> QED BY <1>8, <1>9, <1>10, <1>11, IdleStep

LEMMA ReadContextStep ==
    ASSUME GatewayInv, NEW r \in Runtimes, ReadContext(r)
    PROVE  GatewayInv'
<1>1. UNCHANGED <<registry, places, receipts, gateway>> /\ job[r] = Idle
  BY DEF ReadContext
<1>2. rcpt \in Seq(Receipts) /\ Len(rcpt) \in Nat /\ DOMAIN rcpt = 1..Len(rcpt)
      /\ \A k \in 1..Len(rcpt) : rcpt[k] \in Receipts
  BY ReceiptsOf DEF GatewayInv, Shape
<1>3. PICK n \in 1..Len(rcpt), word \in BOOLEAN :
        /\ rcpt[n].outer # "none"
        /\ job' = [job EXCEPT ![r] = [Idle EXCEPT !.at = "context", !.op = rcpt[n].op,
                     !.base = PolicyOf(rcpt[n].spec), !.rcpt = n, !.word = word,
                     !.before = IF rcpt[n].spec.bound THEN file[rcpt[n].op.ws].trust ELSE "standard"]]
  BY <1>2 DEF ReadContext
<1>4. PICK op, base, seen :
        /\ op = rcpt[n].op /\ base = PolicyOf(rcpt[n].spec)
        /\ seen = (IF rcpt[n].spec.bound THEN file[rcpt[n].op.ws].trust ELSE "standard")
  OBVIOUS
<1> DEFINE a == Call("context", op, base, n)
           b == [a EXCEPT !.word = word]
           j == [b EXCEPT !.before = seen]
<1>5. Others(r) /\ job'[r] = j
  <2>1. job' = [job EXCEPT ![r] = j]
    BY <1>3, <1>4 DEF Call
  <2> HIDE DEF j
  <2> QED BY <2>1, JobReplaced
<1>6. op \in Ops /\ base \in Document \cup {None} /\ n \in 0..Len(rcpt) /\ n # 0
  <2>1. rcpt[n].op \in Ops /\ rcpt[n].spec \in Binding
    BY <1>2, <1>3 DEF Receipts
  <2>2. PolicyOf(rcpt[n].spec) \in Document \cup {None}
    BY <2>1 DEF Binding, PolicyOf, GatewayInv, Shape
  <2> QED BY <1>2, <1>4, <2>1, <2>2
<1>7. a.at = "context" /\ a.op = op /\ a.rcpt = n /\ a \in Calls(Len(rcpt), None)
  BY <1>2, <1>6, CallIs
<1> HIDE DEF a
<1>8. b.at = "context" /\ b.op = op /\ b.rcpt = n /\ b \in Calls(Len(rcpt), None)
  BY <1>7 DEF Calls
<1> HIDE DEF b
<1>9. j.at = "context" /\ j.op = op /\ j.rcpt = n /\ j \in Calls(Len(rcpt), j.before)
  BY <1>8 DEF Calls
<1> HIDE DEF j
<1>10. CallKnows(j, rcpt)
  BY <1>3, <1>4, <1>6, <1>9 DEF CallKnows, Locking, Writing
<1>11. TrustFits(j, granted') /\ j.at \notin Writing /\ Work(j) = 0
  BY <1>9 DEF TrustFits, Writing, Work
<1>12. Quiet /\ rcpt' = rcpt /\ succeeded' = succeeded /\ started' = started
  BY <1>1, QuietPlaces DEF receipts, gateway
<1> QED BY <1>5, <1>9, <1>10, <1>11, <1>12, JobStep DEF JobFits

\* A call of a capability is about a receipt of the gateway.
LEMMA CapabilityOn ==
    ASSUME GatewayInv, NEW r \in Runtimes, job[r].at \in {"context", "handler"}
    PROVE  /\ job[r] \in Calls(Len(rcpt), job[r].before)
           /\ job[r].rcpt \in 1..Len(rcpt) /\ job[r].rcpt # 0
           /\ rcpt[job[r].rcpt] \in Receipts /\ rcpt[job[r].rcpt].outer # "none"
           /\ job[r].op = rcpt[job[r].rcpt].op
           /\ rcpt[job[r].rcpt].op.kind \notin Registrations
           /\ Work(job[r]) = IF job[r].at = "context" THEN 0 ELSE job[r].rcpt
<1>1. job[r] \in Calls(Len(rcpt), job[r].before) /\ CallKnows(job[r], rcpt)
  BY Busy
<1>2. Len(rcpt) \in Nat /\ \A n \in 1..Len(rcpt) : rcpt[n] \in Receipts
  BY ReceiptsOf DEF GatewayInv, Shape
<1>3. job[r].rcpt # 0 /\ job[r].rcpt \in 0..Len(rcpt)
  BY <1>1 DEF CallKnows, Locking, Calls
<1>4. job[r].rcpt \in 1..Len(rcpt)
  BY <1>2, <1>3
<1>5. rcpt[job[r].rcpt].outer # "none" /\ job[r].op = rcpt[job[r].rcpt].op
  BY <1>1, <1>3 DEF CallKnows
<1>6. rcpt[job[r].rcpt].op.kind \notin Registrations
  BY <1>2, <1>4, <1>5 DEF Receipts
<1>7. Work(job[r]) = IF job[r].at = "context" THEN 0 ELSE job[r].rcpt
  BY DEF Work
<1> QED BY <1>1, <1>2, <1>3, <1>4, <1>5, <1>6, <1>7

\* A receipt of the gateway is consumed, or dropped for its time.
LEMMA OuterChanged ==
    ASSUME GatewayInv, NEW n \in 1..Len(rcpt), rcpt[n].outer # "none", NEW o \in {"spent", "gone"},
           rcpt' = [rcpt EXCEPT ![n].outer = o]
    PROVE  /\ Grown(rcpt, rcpt') /\ Len(rcpt') <= MaxReceipts
           /\ Cardinality(Fresh(rcpt')) <= MaxOpen
           /\ rcpt'[n].outer = o
           /\ \A k \in 1..Len(rcpt) : rcpt'[k].kept = rcpt[k].kept
<1>1. rcpt \in Seq(Receipts) /\ rcpt[n] \in Receipts /\ Len(rcpt) \in Nat /\ Len(rcpt) <= MaxReceipts
      /\ Cardinality(Fresh(rcpt)) <= MaxOpen /\ DOMAIN rcpt = 1..Len(rcpt)
  BY ReceiptsOf DEF GatewayInv, Shape
<1>2. PICK c : c = [rcpt[n] EXCEPT !.outer = o]
  OBVIOUS
<1>3. c \in Receipts /\ Keeps(rcpt[n], c) /\ c.outer = o /\ c.kept = rcpt[n].kept
  BY <1>1, <1>2, SpentFits
<1>4. PICK u : u = [rcpt EXCEPT ![n] = c]
  OBVIOUS
<1>5. rcpt' = u
  BY <1>1, <1>2, <1>4
<1>6. /\ Grown(rcpt, u) /\ Len(u) = Len(rcpt)
      /\ \A k \in 1..Len(rcpt) : u[k] = IF k = n THEN c ELSE rcpt[k]
  BY <1>1, <1>3, <1>4, ReceiptChanged
<1>7. \A k \in 1..Len(u) : ~(k > Len(rcpt))
  BY <1>1, <1>6
<1>8. Cardinality(Fresh(u)) <= MaxOpen
  BY <1>1, <1>6, <1>7, FreshStays
<1> QED BY <1>1, <1>3, <1>5, <1>6, <1>8

\* A receipt is consumed before its handler is called: whoever reads it later is
\* refused.
LEMMA ConsumeStep ==
    ASSUME GatewayInv, NEW r \in Runtimes, Consume(r)
    PROVE  GatewayInv'
<1>1. job[r].at = "context" /\ UNCHANGED <<file, author, lost, places, succeeded, world>>
  BY DEF Consume
<1>2. PICK n : n = job[r].rcpt
  OBVIOUS
<1>3. /\ job[r] \in Calls(Len(rcpt), job[r].before) /\ n \in 1..Len(rcpt) /\ n # 0
      /\ rcpt[n] \in Receipts /\ rcpt[n].outer # "none" /\ job[r].op = rcpt[n].op
      /\ rcpt[n].op.kind \notin Registrations /\ Work(job[r]) = 0
  BY <1>1, <1>2, CapabilityOn
<1>4. rcpt \in Seq(Receipts) /\ Len(rcpt) \in Nat
  BY ReceiptsOf DEF GatewayInv, Shape
<1>5. granted' \in BOOLEAN /\ (granted => granted') => Quiet
  BY <1>1 DEF Quiet, places, GatewayInv, Shape
<1>6. CASE /\ Accepted(r)
           /\ rcpt' = [rcpt EXCEPT ![n].outer = "spent"]
           /\ started' = [started EXCEPT ![n] = @ + 1]
           /\ job' = [job EXCEPT ![r].at = "handler", ![r].before = None]
           /\ granted' = (granted \/ (Grants(rcpt[n].op) /\ job[r].word))
  <2> DEFINE i == job[r]
             a == [i EXCEPT !.at = "handler"]
             j == [a EXCEPT !.before = None]
  <2>1. rcpt[n].outer = "fresh" /\ (rcpt[n].asks => i.word) /\ i.word \in BOOLEAN
    BY <1>2, <1>3, <1>6 DEF Accepted, Calls
  <2>2. Others(r) /\ job'[r] = j
    <3>1. job' = [job EXCEPT ![r] = j]
      BY <1>6 DEF GatewayInv, Shape
    <3> HIDE DEF j
    <3> QED BY <3>1, JobReplaced
  <2>3. a.at = "handler" /\ a.op = i.op /\ a.rcpt = n /\ a \in Calls(Len(rcpt), i.before)
    BY <1>2, <1>3 DEF Calls
  <2> HIDE DEF a
  <2>4. j.at = "handler" /\ j.op = i.op /\ j.rcpt = n /\ j \in Calls(Len(rcpt), j.before)
    BY <2>3 DEF Calls
  <2> HIDE DEF j
  <2>5. CallKnows(j, rcpt)
    BY <1>3, <2>4 DEF CallKnows, Locking, Writing
  <2>6. /\ Grown(rcpt, rcpt') /\ Len(rcpt') <= MaxReceipts
        /\ Cardinality(Fresh(rcpt')) <= MaxOpen
        /\ rcpt'[n].outer = "spent"
        /\ \A k \in 1..Len(rcpt) : rcpt'[k].kept = rcpt[k].kept
    BY <1>3, <1>6, OuterChanged
  <2>7. JobFits(j, rcpt')
    BY <1>4, <2>4, <2>5, <2>6, JobStays DEF JobFits
  <2>8. granted' \in BOOLEAN /\ (granted => granted') /\ (Grants(rcpt[n].op) => granted')
    BY <1>3, <1>6, <2>1 DEF GatewayInv, Shape, Receipts
  <2>9. TrustFits(j, granted') /\ j.at \notin Writing /\ Work(j) = n
    BY <1>3, <2>4, <2>8 DEF TrustFits, Writing, Work
  <2>10. Starts(r)
    BY <1>1, <1>3, <1>6, <2>1, <2>2, <2>6, <2>9 DEF Starts, Open
  <2>11. Effect(r)
    BY <1>5, <2>2, <2>6, <2>7, <2>8, <2>9, <2>10 DEF Effect
  <2> QED BY <2>11, EffectKeeps
<1>7. CASE Done(r) /\ UNCHANGED <<rcpt, started, granted>>
  BY <1>1, <1>5, <1>7, EndStep DEF GatewayInv, Shape
<1>8. CASE rcpt' = [rcpt EXCEPT ![n].outer = "gone"] /\ Done(r) /\ UNCHANGED <<started, granted>>
  <2>1. Others(r) /\ job'[r] = Idle
    BY <1>8, JobReplaced DEF Done
  <2>2. /\ JobFits(job'[r], rcpt') /\ TrustFits(job'[r], granted')
        /\ job'[r].at \notin Writing /\ Work(job'[r]) = 0
    BY <2>1, IdleFits
  <2>3. /\ Grown(rcpt, rcpt') /\ Len(rcpt') <= MaxReceipts
        /\ Cardinality(Fresh(rcpt')) <= MaxOpen
        /\ \A k \in 1..Len(rcpt) : rcpt'[k].kept = rcpt[k].kept
    BY <1>3, <1>8, OuterChanged
  <2>4. Rests(r)
    BY <1>1, <1>8, <2>2, <2>3 DEF Rests
  <2>5. Effect(r)
    BY <1>5, <1>8, <2>1, <2>2, <2>3, <2>4 DEF Effect, GatewayInv, Shape
  <2> QED BY <2>5, EffectKeeps
<1> QED BY <1>2, <1>6, <1>7, <1>8 DEF Consume

-----------------------------------------------------------------------------
(* The handlers of the capabilities.                                        *)

\* The receipt of a handler that changes the registry.
LEMMA TypedOn ==
    ASSUME GatewayInv, NEW r \in Runtimes, NEW pins \in SUBSET (Profiles \cup Removals \cup {"trust"}),
           At(r, pins)
    PROVE  /\ job[r].at = "handler" /\ job[r].op.kind \in pins
           /\ rcpt[job[r].rcpt].base \in Document
<1>1. job[r].at = "handler" /\ rcpt[job[r].rcpt].spec.pins \in pins
  BY DEF At
<1>2. /\ rcpt[job[r].rcpt] \in Receipts /\ rcpt[job[r].rcpt].outer # "none"
      /\ job[r].op = rcpt[job[r].rcpt].op
  BY <1>1, CapabilityOn
<1>3. rcpt[job[r].rcpt].op.kind = rcpt[job[r].rcpt].spec.pins
  BY <1>1, <1>2 DEF Receipts, Profiles, Removals
<1> QED BY <1>1, <1>2, <1>3 DEF Receipts, Profiles, Removals

\* It goes by what its receipt has seen; only a command profile may go by the
\* registry as it is.
LEMMA LockStep ==
    ASSUME GatewayInv, NEW r \in Runtimes, UNCHANGED <<registry, places, receipts, gateway>>,
           NEW pins \in SUBSET (Profiles \cup Removals \cup {"trust"}), At(r, pins),
           NEW base \in Document, base = rcpt[job[r].rcpt].base \/ pins = {"command"},
           job' = [job EXCEPT ![r].at = "lock", ![r].base = base]
    PROVE  GatewayInv'
<1> DEFINE i == job[r]
           a == [i EXCEPT !.at = "lock"]
           j == [a EXCEPT !.base = base]
<1>1. i.at = "handler" /\ i.op.kind \in pins
  BY TypedOn
<1>2. PICK n : n = i.rcpt
  OBVIOUS
<1>3. /\ i \in Calls(Len(rcpt), i.before) /\ n \in 1..Len(rcpt) /\ n # 0
      /\ i.op = rcpt[n].op /\ Work(i) = n
  BY <1>1, <1>2, CapabilityOn
<1>4. Others(r) /\ job'[r] = j
  <2>1. job' = [job EXCEPT ![r] = j]
    BY DEF GatewayInv, Shape
  <2> HIDE DEF j
  <2> QED BY <2>1, JobReplaced
<1>5. /\ a.at = "lock" /\ a.op = i.op /\ a.rcpt = n /\ a.before = i.before
      /\ a \in Calls(Len(rcpt), i.before)
  BY <1>2, <1>3 DEF Calls, Locking
<1> HIDE DEF a
<1>6. /\ j.at = "lock" /\ j.op = i.op /\ j.rcpt = n /\ j.base = base
      /\ j \in Calls(Len(rcpt), j.before)
  BY <1>5 DEF Calls
<1> HIDE DEF j
<1>7. j.op.kind \in Mutations
  BY <1>1, <1>6 DEF Mutations, Trusts
<1>8. base = rcpt[n].base \/ j.op.kind = "command"
  BY <1>1, <1>2, <1>6
<1>9. CallKnows(j, rcpt)
  BY <1>3, <1>6, <1>7, <1>8 DEF CallKnows, Writing
<1>10. Quiet /\ rcpt' = rcpt /\ succeeded' = succeeded /\ started' = started
       /\ granted' = granted
  BY QuietPlaces DEF receipts, gateway, registry
<1>11. TrustFits(i, granted)
  BY DEF GatewayInv
<1>12. TrustFits(j, granted')
  BY <1>1, <1>6, <1>10, <1>11 DEF TrustFits, Writing
<1>13. j.at \notin Writing /\ Work(j) = Work(i)
  BY <1>3, <1>6 DEF Writing, Work
<1> QED BY <1>4, <1>6, <1>9, <1>10, <1>12, <1>13, JobStep DEF JobFits

LEMMA RefusedStep ==
    ASSUME GatewayInv, NEW r \in Runtimes, UNCHANGED <<registry, places, receipts, gateway>>,
           job' = Refused(r)
    PROVE  GatewayInv'
<1>1. Done(r)
  BY DEF Done, Refused
<1>2. Quiet /\ rcpt' = rcpt /\ succeeded' = succeeded /\ started' = started
  BY QuietPlaces DEF receipts, gateway
<1> QED BY <1>1, <1>2, EndStep

LEMMA ExecuteTrustStep ==
    ASSUME GatewayInv, NEW r \in Runtimes, ExecuteTrust(r)
    PROVE  GatewayInv'
<1>1. /\ At(r, {"trust"}) /\ UNCHANGED <<registry, places, receipts, gateway>>
      /\ job' = [job EXCEPT ![r].at = "lock", ![r].base = rcpt[job[r].rcpt].base]
  BY DEF ExecuteTrust
<1>2. {"trust"} \in SUBSET (Profiles \cup Removals \cup {"trust"})
  OBVIOUS
<1>3. PICK base \in Document : base = rcpt[job[r].rcpt].base
  BY <1>1, <1>2, TypedOn
<1> QED BY <1>1, <1>2, <1>3, LockStep

\* A typed service goes by a receipt that it has made itself, or refuses.
LEMMA ApplyTypedStep ==
    ASSUME GatewayInv, NEW r \in Runtimes,
           NEW pins \in SUBSET (Profiles \cup Removals \cup {"trust"}), At(r, pins),
           ApplyTyped(r, Refused(r))
    PROVE  GatewayInv'
<1>1. /\ UNCHANGED <<registry, places, receipts, gateway>>
      /\ \/ job' = [job EXCEPT ![r].at = "lock", ![r].base = rcpt[job[r].rcpt].base]
         \/ job' = Refused(r)
  BY DEF ApplyTyped
<1>2. PICK base \in Document : base = rcpt[job[r].rcpt].base
  BY TypedOn
<1> QED BY <1>1, <1>2, LockStep, RefusedStep

LEMMA ExecuteCommandStep ==
    ASSUME GatewayInv, NEW r \in Runtimes, ExecuteCommand(r)
    PROVE  GatewayInv'
<1>1. /\ At(r, {"command"}) /\ UNCHANGED <<registry, places, receipts, gateway>>
      /\ \/ job' = [job EXCEPT ![r].at = "lock", ![r].base = rcpt[job[r].rcpt].base]
         \/ job' = [job EXCEPT ![r].at = "lock", ![r].base = file]
         \/ job' = Refused(r)
  BY DEF ExecuteCommand, ApplyTyped
<1>2. {"command"} \in SUBSET (Profiles \cup Removals \cup {"trust"})
  BY DEF Profiles
<1>3. PICK base \in Document : base = rcpt[job[r].rcpt].base
  BY <1>1, <1>2, TypedOn
<1>4. file \in Document
  BY DEF GatewayInv, Shape
<1> QED BY <1>1, <1>2, <1>3, <1>4, LockStep, RefusedStep

LEMMA FinishStep ==
    ASSUME GatewayInv, NEW r \in Runtimes,
           NEW kinds \in SUBSET (Profiles \cup Removals \cup {"trust"}), Finish(r, kinds)
    PROVE  GatewayInv'
<1>1. /\ Done(r) /\ job[r].at \in Locking /\ job[r].op.kind \in kinds
      /\ UNCHANGED <<registry, places, gateway>>
      /\ \/ Drop(job[r].rcpt) /\ (Report(r, job[r].rcpt) \/ succeeded' = succeeded)
         \/ UNCHANGED receipts
  BY DEF Finish, Kind, Locking
<1>2. job[r].rcpt # 0
  <2>1. CallKnows(job[r], rcpt)
    BY <1>1, Busy DEF Locking
  <2> QED BY <1>1, <2>1 DEF CallKnows, Profiles, Removals
<1>3. Quiet /\ started' = started
  BY <1>1, QuietPlaces DEF gateway
<1>4. PICK n : n = job[r].rcpt
  OBVIOUS
<1>5. n \in 1..Len(rcpt) /\ Work(job[r]) = n
  BY <1>1, <1>2, <1>4, EndsOn
<1>6. CASE UNCHANGED receipts
  BY <1>1, <1>3, <1>6, EndStep DEF receipts
<1>7. CASE Drop(n) /\ (Report(r, n) \/ succeeded' = succeeded)
  BY <1>1, <1>3, <1>5, <1>7, EndStep
<1> QED BY <1>1, <1>4, <1>6, <1>7

LEMMA ExecuteElsewhereStep ==
    ASSUME GatewayInv, NEW r \in Runtimes, ExecuteElsewhere(r)
    PROVE  GatewayInv'
<1>1. /\ job[r].at = "handler" /\ Done(r) /\ UNCHANGED <<registry, places, rcpt, started>>
  BY DEF ExecuteElsewhere, At
<1>2. PICK n : n = job[r].rcpt
  OBVIOUS
<1>3. /\ \/ world' = world + 1 \/ world' = world + 0 \/ world' = world
      /\ succeeded' = succeeded \/ Report(r, n)
  BY <1>2 DEF ExecuteElsewhere
<1>4. n \in 1..Len(rcpt) /\ Work(job[r]) = n /\ rcpt[n].op.kind \notin Registrations
  BY <1>1, <1>2, CapabilityOn
<1>5. world' \in Nat
  BY <1>3 DEF GatewayInv, Shape
<1>6. Quiet
  BY <1>1, <1>5, QuietHandler DEF GatewayInv, Shape, places
<1> QED BY <1>1, <1>3, <1>4, <1>6, EndStep

-----------------------------------------------------------------------------
(* The initial states, every step, and what follows.                        *)

LEMMA InitGateway == Init => GatewayInv
<1> SUFFICES ASSUME Init PROVE GatewayInv
  OBVIOUS
<1>1. PICK v \in Workspaces, p \in Paths :
        file = [w \in Workspaces |-> IF w = v THEN NewEntry(p) ELSE None]
  BY DEF Init
<1>2. NewEntry(p) \in Entry /\ NewEntry(p).trust # "trusted"
  BY DEF NewEntry, Entry, Levels
<1>3. file \in Document
  BY <1>1, <1>2 DEF Document
<1>4. Trusted(file) = {}
  <2> SUFFICES ASSUME NEW w \in Workspaces, file[w] # None, file[w].trust = "trusted" PROVE FALSE
    BY DEF Trusted, Registered
  <2> QED BY <1>1, <1>2
<1>5. dirs \subseteq Paths
  <2> SUFFICES ASSUME NEW w \in Registered(file) PROVE file[w].path \in Paths
    BY DEF Init
  <2> QED BY <1>3 DEF Registered, Document, Entry
<1>6. rcpt = <<>> /\ job = [r \in Runtimes |-> Idle]
      /\ succeeded = [n \in Ids |-> 0] /\ started = [n \in Ids |-> 0]
      /\ author = "operator" /\ lost = {} /\ granted = FALSE /\ apart = FALSE /\ world = 0
  BY DEF Init
<1>7. rcpt \in Seq(Receipts) /\ Len(rcpt) = 0 /\ DOMAIN rcpt = {}
  BY <1>6
<1>8. Shape
  <2>1. job = [r \in Runtimes |-> job[r]]
    BY <1>6
  <2>2. started \in [Ids -> Nat] /\ succeeded \in [Ids -> Nat]
    BY <1>6
  <2>3. granted \in BOOLEAN /\ apart \in BOOLEAN
    BY DEF Init
  <2>4. world \in Nat /\ author \in {"registry", "policy", "operator"}
    BY <1>6
  <2>5. Len(rcpt) <= MaxReceipts
    BY <1>7, ReceiptsAssumption
  <2> QED BY <1>3, <1>5, <1>7, <2>1, <2>2, <2>3, <2>4, <2>5 DEF Shape
<1>9. Cardinality(Fresh(rcpt)) <= MaxOpen
  <2>1. Fresh(rcpt) = {}
    BY <1>7 DEF Fresh
  <2> QED BY <2>1, FS_EmptySet, GatewayAssumption
<1>10. ASSUME NEW r \in Runtimes
       PROVE  /\ JobFits(job[r], rcpt) /\ TrustFits(job[r], granted) /\ job[r].at = "idle"
              /\ ReadFits(job[r], file, author) /\ job[r].at \notin Writing /\ Work(job[r]) = 0
  BY <1>6, IdleFits DEF ReadFits
<1>11. Exclusive /\ LocksSerialize /\ TrustIsGranted
  BY <1>4, <1>6, <1>10 DEF Exclusive, LocksSerialize, TrustIsGranted
<1>12. ASSUME NEW n \in Ids PROVE Once(n)
  <2>1. n \in Nat \ {0} /\ ~(n <= Len(rcpt)) /\ succeeded[n] = 0 /\ started[n] = 0
    BY <1>6, <1>7, ReceiptsAssumption DEF Ids
  <2> QED BY <2>1 DEF Once
<1> QED BY <1>8, <1>9, <1>10, <1>11, <1>12 DEF GatewayInv

LEMMA MutationStep ==
    ASSUME GatewayInv, Mutation \/ OperatorEdits, UNCHANGED <<places, receipts, calls, gateway>>
    PROVE  GatewayInv'
<1>1. Still
  BY DEF Still, places, receipts, gateway
<1>2. CASE Mutation
  BY <1>1, <1>2, SnapshotStep, ReplaceStep, ReadBackStep DEF Mutation
<1>3. CASE OperatorEdits
  BY <1>1, <1>3, OperatorStep DEF OperatorEdits
<1> QED BY <1>2, <1>3

LEMMA HandlerStep ==
    ASSUME GatewayInv, UNCHANGED gateway, NEW r \in Runtimes,
           \/ Expire(r) \/ RegisterPreflight(r) \/ UnregisterPreflight(r) \/ UpdatePreflight(r)
           \/ RelocatePreflight(r) \/ Register(r) \/ Unregister(r) \/ UpdateRegistration(r)
           \/ FinishApply(r) \/ Promote(r) \/ ProjectCreate(r) \/ GroupCreate(r) \/ PolicyUpdate(r)
           \/ FinishPlain(r) \/ Relocate(r) \/ RenameDirectory(r) \/ FinishRelocate(r)
           \/ Rollback(r) \/ FinishBack(r) \/ MoveBack(r)
    PROVE  GatewayInv'
<1>1. CASE Expire(r)
  BY <1>1, ExpireStep
<1>2. CASE RegisterPreflight(r)
  BY <1>2, RegisterPreflightStep
<1>3. CASE UnregisterPreflight(r)
  BY <1>3, UnregisterPreflightStep
<1>4. CASE UpdatePreflight(r)
  BY <1>4, UpdatePreflightStep
<1>5. CASE RelocatePreflight(r)
  BY <1>5, RelocatePreflightStep
<1>6. CASE Register(r) \/ Unregister(r) \/ UpdateRegistration(r)
  <2>1. \E kinds \in SUBSET Registrations : ApplyReceipt(r, kinds)
    <3>1. /\ {"register"} \in SUBSET Registrations /\ {"unregister"} \in SUBSET Registrations
          /\ {"rename", "patch"} \in SUBSET Registrations
      BY DEF Registrations
    <3> QED BY <1>6, <3>1 DEF Register, Unregister, UpdateRegistration
  <2> QED BY <2>1, ApplyReceiptStep
<1>7. CASE FinishApply(r)
  BY <1>7, FinishApplyStep
<1>8. CASE Promote(r)
  BY <1>8, PromoteStep
<1>9. CASE ProjectCreate(r)
  BY <1>9, ProjectCreateStep
<1>10. CASE GroupCreate(r)
  BY <1>10, GroupCreateStep
<1>11. CASE PolicyUpdate(r)
  BY <1>11, PolicyUpdateStep
<1>12. CASE FinishPlain(r)
  BY <1>12, FinishPlainStep
<1>13. CASE Relocate(r)
  BY <1>13, RelocateStep
<1>14. CASE RenameDirectory(r)
  BY <1>14, RenameDirectoryStep
<1>15. CASE FinishRelocate(r)
  BY <1>15, FinishRelocateStep
<1>16. CASE Rollback(r)
  BY <1>16, RollbackStep
<1>17. CASE FinishBack(r)
  BY <1>17, FinishBackStep
<1>18. CASE MoveBack(r)
  BY <1>18, MoveBackStep
<1> QED BY <1>1, <1>2, <1>3, <1>4, <1>5, <1>6, <1>7, <1>8, <1>9, <1>10, <1>11, <1>12, <1>13,
           <1>14, <1>15, <1>16, <1>17, <1>18

LEMMA CapabilityStep ==
    ASSUME GatewayInv, NEW r \in Runtimes,
           \/ Preflight(r) \/ ReadContext(r) \/ Consume(r)
           \/ ExecuteTrust(r) \/ FinishTrust(r) \/ ExecuteProfile(r) \/ FinishProfile(r)
           \/ ExecuteCredential(r) \/ FinishCredential(r) \/ ExecuteCommand(r) \/ FinishCommand(r)
           \/ ExecuteUnregister(r) \/ FinishUnregister(r)
           \/ ExecuteCleanup(r) \/ FinishCleanup(r) \/ ExecuteElsewhere(r)
    PROVE  GatewayInv'
<1> DEFINE Kinds == Profiles \cup Removals \cup {"trust"}
<1>1. /\ {"trust"} \in SUBSET Kinds /\ {"browser", "desktop"} \in SUBSET Kinds
      /\ {"slot"} \in SUBSET Kinds /\ {"command"} \in SUBSET Kinds
      /\ {"remove"} \in SUBSET Kinds /\ {"cleanup"} \in SUBSET Kinds
  BY DEF Profiles, Removals
<1>2. CASE Preflight(r)
  BY <1>2, PreflightStep
<1>3. CASE ReadContext(r)
  BY <1>3, ReadContextStep
<1>4. CASE Consume(r)
  BY <1>4, ConsumeStep
<1>5. CASE ExecuteTrust(r)
  BY <1>5, ExecuteTrustStep
<1>6. CASE ExecuteCommand(r)
  BY <1>6, ExecuteCommandStep
<1>7. CASE ExecuteProfile(r) \/ ExecuteCredential(r) \/ ExecuteUnregister(r) \/ ExecuteCleanup(r)
  <2>1. \E pins \in SUBSET Kinds : At(r, pins) /\ ApplyTyped(r, Refused(r))
    BY <1>1, <1>7 DEF ExecuteProfile, ExecuteCredential, ExecuteUnregister, ExecuteCleanup
  <2> QED BY <2>1, ApplyTypedStep
<1>8. CASE FinishTrust(r) \/ FinishProfile(r) \/ FinishCredential(r) \/ FinishCommand(r)
           \/ FinishUnregister(r) \/ FinishCleanup(r)
  <2>1. \E kinds \in SUBSET Kinds : Finish(r, kinds)
    BY <1>1, <1>8 DEF FinishTrust, FinishProfile, FinishCredential, FinishCommand,
                      FinishUnregister, FinishCleanup
  <2> QED BY <2>1, FinishStep
<1>9. CASE ExecuteElsewhere(r)
  BY <1>9, ExecuteElsewhereStep
<1> QED BY <1>2, <1>3, <1>4, <1>5, <1>6, <1>7, <1>8, <1>9

LEMMA StutterStep ==
    ASSUME GatewayInv, UNCHANGED vars
    PROVE  GatewayInv'
<1>1. UNCHANGED <<file, author, lost, granted, job, dirs, apart, rcpt, succeeded, started, world>>
  BY DEF vars, registry, places, receipts, gateway
<1>2. Shape'
  BY <1>1 DEF GatewayInv, Shape
<1> QED BY <1>1, <1>2
        DEF GatewayInv, Exclusive, LocksSerialize, TrustIsGranted, Trusted, Registered, Once

LEMMA GatewayStep == GatewayInv /\ [Next]_vars => GatewayInv'
<1> SUFFICES ASSUME GatewayInv, [Next]_vars PROVE GatewayInv'
  OBVIOUS
<1>1. CASE (Mutation \/ OperatorEdits) /\ UNCHANGED <<places, receipts, calls, gateway>>
  BY <1>1, MutationStep
<1>2. CASE Handler /\ UNCHANGED gateway
  BY <1>2, HandlerStep DEF Handler
<1>3. CASE Crash /\ UNCHANGED gateway
  BY <1>3, CrashStep
<1>4. CASE Capability
  BY <1>4, WorldStep, CapabilityStep DEF Capability
<1>5. CASE UNCHANGED vars
  BY <1>5, StutterStep
<1> QED BY <1>1, <1>2, <1>3, <1>4, <1>5 DEF Next

LEMMA GatewayAlways == Spec => []GatewayInv
  BY InitGateway, GatewayStep, PTL DEF Spec

\* The type invariant, and what the store of receipts promises, from the invariant.
LEMMA ReceiptsHold ==
    ASSUME GatewayInv
    PROVE  ReceiptsAreSound
<1>1. rcpt \in Seq(Receipts) /\ Len(rcpt) \in Nat /\ DOMAIN rcpt = 1..Len(rcpt)
      /\ \A n \in 1..Len(rcpt) : rcpt[n] \in Receipts
  BY ReceiptsOf DEF GatewayInv, Shape
<1>2. ASSUME NEW r \in Runtimes
      PROVE  /\ job[r].at \in {"idle", "lock", "replace", "readback", "written", "refused",
                               "failed", "rename", "rollback", "moveback", "context", "handler"}
             /\ job[r].rcpt \in 0..Len(rcpt)
             /\ job[r].at \in {"replace", "readback"} => job[r].after \in Document
  <2>1. CASE job[r] = Idle
    BY <1>1, <2>1 DEF Idle
  <2>2. CASE job[r] \in Calls(Len(rcpt), job[r].before) /\ CallKnows(job[r], rcpt)
    <3>1. /\ job[r].at \in Locking \cup {"rename", "rollback", "moveback", "context", "handler"}
          /\ job[r].op \in Ops /\ job[r].rcpt \in 0..Len(rcpt)
      BY <2>2 DEF Calls
    <3>2. job[r].at \in Writing => job[r].after \in Document
      <4>1. job[r].at \in Writing =>
              /\ job[r].op.kind \in Mutations /\ job[r].before \in Document
              /\ job[r].after \in Results(job[r].before, job[r].op)
        BY <2>2 DEF CallKnows, Locking, Writing
      <4> QED BY <3>1, <4>1, ResultsFit
    <3> QED BY <3>1, <3>2 DEF Locking, Writing
  <2>3. JobFits(job[r], rcpt)
    BY DEF GatewayInv
  <2> QED BY <2>1, <2>2, <2>3 DEF JobFits
<1>3. \A n \in DOMAIN rcpt : rcpt[n].outer \in {"none", "fresh", "spent", "gone"}
  BY <1>1 DEF Receipts
<1>4. TypeOK
  BY <1>2, <1>3 DEF TypeOK, GatewayInv, Shape, Fresh
<1>5. RunsOnce
  BY DEF RunsOnce, GatewayInv, Once
<1> QED BY <1>4, <1>5 DEF ReceiptsAreSound

LEMMA ApprovedHolds ==
    ASSUME GatewayInv
    PROVE  ApprovedIsWritten
<1> SUFFICES ASSUME NEW r \in Runtimes, job[r].at \in Writing, job[r].rcpt # 0, ~Kind(r, {"back"})
             PROVE  /\ job[r].after \in Results(job[r].before, rcpt[job[r].rcpt].op)
                    /\ ~Kind(r, {"command"}) => job[r].before = rcpt[job[r].rcpt].base
  BY DEF ApprovedIsWritten, Writing
<1>1. CallKnows(job[r], rcpt) /\ job[r].at \in Locking
  BY Busy DEF Writing, Locking
<1>2. job[r].op = rcpt[job[r].rcpt].op
  BY <1>1 DEF CallKnows, Kind
<1>3. rcpt[job[r].rcpt] \in Receipts
  BY <1>1, EndsOn
<1>4. job[r].op.kind # "other"
  BY <1>1 DEF CallKnows, Mutations, Registrations, Moves, Profiles, Removals, Trusts
<1>5. rcpt[job[r].rcpt].base \in Document
  BY <1>2, <1>3, <1>4 DEF Receipts
<1>6. ~Kind(r, {"command"}) => job[r].before = rcpt[job[r].rcpt].base
  BY <1>1, <1>5, DocumentAssumption DEF CallKnows, Kind
<1>7. job[r].after \in Results(job[r].before, job[r].op)
  BY <1>1 DEF CallKnows
<1> QED BY <1>2, <1>6, <1>7

\* The store of the gateway's receipts never holds more than max_preflights that
\* can be used, and StableCapabilityGateway.execute starts the handler of none of
\* them twice, however many runtimes execute it at a time.
THEOREM ReceiptsTheorem == Spec => []ReceiptsAreSound
  BY GatewayAlways, ReceiptsHold, PTL

\* RegistryMutationManager and ProjectPolicyManager hold their locks from the
\* snapshot to the read-back: neither replaces bytes of its own kind unread.
THEOREM LocksTheorem == Spec => []LocksSerialize
<1>1. GatewayInv => LocksSerialize
  BY DEF GatewayInv
<1> QED BY <1>1, GatewayAlways, PTL

\* No receipt is reported as carried out twice, by the handlers of server.py or by
\* the gateway, although a mutation that failed leaves its receipt to be tried again.
THEOREM OnceTheorem == Spec => []CarriedOutOnce
<1>1. GatewayInv => CarriedOutOnce
  BY DEF GatewayInv, Once, CarriedOutOnce
<1> QED BY <1>1, GatewayAlways, PTL

\* What a mutation by receipt replaces is the document its preflight showed, and
\* what it writes is the change it showed.
THEOREM ApprovedTheorem == Spec => []ApprovedIsWritten
  BY GatewayAlways, ApprovedHolds, PTL

\* No workspace is trusted unless an operator has made one so, or workspace.trust
\* with a confirmation: no registration, policy update or profile can.
THEOREM TrustTheorem == Spec => []TrustIsGranted
<1>1. GatewayInv => TrustIsGranted
  BY DEF GatewayInv
<1> QED BY <1>1, GatewayAlways, PTL

-----------------------------------------------------------------------------
(* A relocation that ends.                                                  *)

\* What a relocation that ends has to leave behind.
Together(r) == LET e == file'[job[r].op.ws] IN e # None => e.path \in dirs'

\* A step of one call leaves the others as they are.
OnlyCall(r) == \A q \in Runtimes \ {r} : job'[q] = job[q]

LEMMA OneCall ==
    ASSUME GatewayInv, NEW r \in Runtimes,
           (\E j : job' = [job EXCEPT ![r] = j]) \/ job' = job
    PROVE  OnlyCall(r)
  BY JobReplaced DEF OnlyCall, Others

\* Where a call goes that is told to.
LEMMA GoesOn ==
    ASSUME GatewayInv, NEW r \in Runtimes, NEW step, Goto(r, step)
    PROVE  OnlyCall(r)
  BY OneCall DEF Goto

\* The steps of a call, by what they do to its place.
LEMMA MutationIsOneCall ==
    ASSUME GatewayInv, NEW r \in Runtimes, Snapshot(r) \/ Replace(r) \/ ReadBack(r)
    PROVE  OnlyCall(r)
<1>1. CASE Snapshot(r)
  BY <1>1, OneCall DEF Snapshot, Goto
<1>2. CASE Replace(r) \/ ReadBack(r)
  BY <1>2, OneCall DEF Replace, ReadBack, Goto
<1> QED BY <1>1, <1>2

LEMMA PreflightIsOneCall ==
    ASSUME GatewayInv, NEW r \in Runtimes,
           \/ Expire(r) \/ RegisterPreflight(r) \/ UnregisterPreflight(r) \/ UpdatePreflight(r)
           \/ RelocatePreflight(r) \/ Preflight(r)
    PROVE  OnlyCall(r)
<1>1. job' = job
  BY DEF Expire, RegisterPreflight, UnregisterPreflight, UpdatePreflight, RelocatePreflight, Preflight,
         Issue
<1> QED BY <1>1, OneCall

LEMMA HandlerIsOneCall ==
    ASSUME GatewayInv, NEW r \in Runtimes,
           \/ Register(r) \/ Unregister(r) \/ UpdateRegistration(r)
           \/ FinishApply(r) \/ Promote(r) \/ ProjectCreate(r) \/ GroupCreate(r) \/ PolicyUpdate(r)
           \/ FinishPlain(r) \/ Relocate(r) \/ RenameDirectory(r) \/ FinishRelocate(r)
           \/ Rollback(r) \/ FinishBack(r) \/ MoveBack(r)
    PROVE  OnlyCall(r)
<1>1. CASE Register(r) \/ Unregister(r) \/ UpdateRegistration(r) \/ Promote(r) \/ ProjectCreate(r)
           \/ PolicyUpdate(r) \/ GroupCreate(r)
  BY <1>1, OneCall DEF Register, Unregister, UpdateRegistration, ApplyReceipt, Promote, ProjectCreate,
                       PolicyUpdate, GroupCreate, Begin
<1>2. CASE FinishApply(r) \/ FinishPlain(r) \/ MoveBack(r)
  BY <1>2, OneCall DEF FinishApply, FinishPlain, MoveBack, Done
<1>3. CASE Relocate(r)
  BY <1>3, OneCall DEF Relocate, Begin
<1>4. CASE RenameDirectory(r) \/ FinishRelocate(r)
  BY <1>4, OneCall DEF RenameDirectory, FinishRelocate, RepairLinks, Done, Goto
<1>5. CASE Rollback(r)
  BY <1>5, OneCall DEF Rollback
<1>6. CASE FinishBack(r)
  BY <1>6, OneCall DEF FinishBack
<1> QED BY <1>1, <1>2, <1>3, <1>4, <1>5, <1>6

LEMMA CapabilityIsOneCall ==
    ASSUME GatewayInv, NEW r \in Runtimes,
           \/ ReadContext(r) \/ Consume(r)
           \/ ExecuteTrust(r) \/ FinishTrust(r) \/ ExecuteProfile(r) \/ FinishProfile(r)
           \/ ExecuteCredential(r) \/ FinishCredential(r) \/ ExecuteCommand(r) \/ FinishCommand(r)
           \/ ExecuteUnregister(r) \/ FinishUnregister(r)
           \/ ExecuteCleanup(r) \/ FinishCleanup(r) \/ ExecuteElsewhere(r)
    PROVE  OnlyCall(r)
<1>1. CASE ReadContext(r)
  BY <1>1, OneCall DEF ReadContext
<1>2. CASE Consume(r) \/ ExecuteTrust(r)
  <2>1. \/ \E a, b, c : job' = [job EXCEPT ![r].at = a, ![r].before = b]
                        \/ job' = [job EXCEPT ![r].at = a, ![r].base = c]
        \/ job' = [job EXCEPT ![r] = Idle]
    BY <1>2 DEF Consume, ExecuteTrust, Done
  <2> QED BY <2>1, OneCall
<1>3. CASE ExecuteElsewhere(r) \/ FinishTrust(r) \/ FinishProfile(r) \/ FinishCredential(r)
           \/ FinishCommand(r) \/ FinishUnregister(r) \/ FinishCleanup(r)
  BY <1>3, OneCall DEF ExecuteElsewhere, FinishTrust, FinishProfile, FinishCredential, FinishCommand,
                       FinishUnregister, FinishCleanup, Finish, Done
<1>4. CASE ExecuteProfile(r) \/ ExecuteCredential(r) \/ ExecuteUnregister(r) \/ ExecuteCleanup(r)
           \/ ExecuteCommand(r)
  <2>1. (\E b : job' = [job EXCEPT ![r].at = "lock", ![r].base = b]) \/ job' = [job EXCEPT ![r] = Idle]
    BY <1>4 DEF ExecuteProfile, ExecuteCredential, ExecuteUnregister, ExecuteCleanup, ExecuteCommand,
                ApplyTyped, Refused
  <2> QED BY <2>1, OneCall
<1> QED BY <1>1, <1>2, <1>3, <1>4

\* Where a relocation that has renamed its directory stands.
LEMMA MovingAt ==
    ASSUME GatewayInv, NEW r \in Runtimes, Moving(r)
    PROVE  /\ job[r].at \in Locking \cup {"rollback", "moveback"} /\ job[r] # Idle
           /\ job[r].op.kind \in Moves /\ job[r].rcpt # 0
           /\ job[r] \in Calls(Len(rcpt), job[r].before)
<1>1. job[r] # Idle
  BY DEF Moving, Kind, Idle, NoChange, Moves, Change
<1>2. job[r] \in Calls(Len(rcpt), job[r].before) /\ CallKnows(job[r], rcpt)
  BY <1>1 DEF GatewayInv, JobFits
<1>3. job[r].op.kind \in Moves /\ job[r].at # "rename"
  BY DEF Moving, Kind
<1>4. job[r].rcpt # 0
  BY <1>2, <1>3 DEF CallKnows, Moves
<1>5. job[r].at \notin {"context", "handler"}
  <2> SUFFICES ASSUME job[r].at \in {"context", "handler"} PROVE FALSE
    OBVIOUS
  <2>1. rcpt[job[r].rcpt].outer # "none" /\ rcpt[job[r].rcpt].op.kind \in Moves
    BY <1>2, <1>3, <1>4 DEF CallKnows
  <2>2. rcpt[job[r].rcpt] \in Receipts
    <3>1. Len(rcpt) \in Nat /\ \A n \in 1..Len(rcpt) : rcpt[n] \in Receipts
      BY ReceiptsOf DEF GatewayInv, Shape
    <3>2. job[r].rcpt \in 0..Len(rcpt)
      BY <1>2 DEF Calls
    <3> QED BY <1>4, <3>1, <3>2
  <2> QED BY <2>1, <2>2 DEF Receipts, Moves
<1> QED BY <1>1, <1>2, <1>3, <1>4, <1>5 DEF Calls

\* A mutation under way leaves its relocation under way.
LEMMA MutatesOn ==
    ASSUME GatewayInv, NEW r \in Runtimes, Moving(r), Snapshot(r) \/ Replace(r) \/ ReadBack(r)
    PROVE  Moving(r)'
<1>1. /\ job = [s \in Runtimes |-> job[s]] /\ job[r] \in Calls(Len(rcpt), job[r].before)
      /\ job[r].op.kind \in Moves
  BY MovingAt DEF GatewayInv, Shape
<1>2. \E step \in {"replace", "readback", "written", "refused", "failed"} :
         \/ Goto(r, step)
         \/ \E doc : job' = [job EXCEPT ![r].at = step, ![r].before = file, ![r].after = doc]
  BY DEF Snapshot, Replace, ReadBack
<1>3. PICK step \in {"replace", "readback", "written", "refused", "failed"} :
         \/ Goto(r, step)
         \/ \E doc : job' = [job EXCEPT ![r].at = step, ![r].before = file, ![r].after = doc]
  BY <1>2
<1>4. CASE Goto(r, step)
  <2>1. job'[r] = [job[r] EXCEPT !.at = step]
    BY <1>1, <1>4 DEF Goto
  <2>2. job'[r].op = job[r].op /\ job'[r].at = step
    BY <1>1, <2>1 DEF Calls
  <2> QED BY <1>1, <2>2 DEF Moving, Kind
<1>5. ASSUME NEW doc, job' = [job EXCEPT ![r].at = step, ![r].before = file, ![r].after = doc]
      PROVE  Moving(r)'
  <2>1. job'[r] = [job[r] EXCEPT !.at = step, !.before = file, !.after = doc]
    BY <1>1, <1>5
  <2>2. job'[r].op = job[r].op /\ job'[r].at = step
    BY <1>1, <2>1 DEF Calls
  <2> QED BY <1>1, <2>2 DEF Moving, Kind
<1> QED BY <1>3, <1>4, <1>5

\* A relocation ends with the directory where the registry says, or apart.
LEMMA RelocationEnds ==
    ASSUME GatewayInv, NEW r \in Runtimes, Moving(r), ~Moving(r)', ~apart',
           \/ FinishRelocate(r) \/ Rollback(r) \/ FinishBack(r) \/ MoveBack(r)
    PROVE  Together(r)
<1>1. /\ job = [s \in Runtimes |-> job[s]] /\ job[r] \in Calls(Len(rcpt), job[r].before)
      /\ job[r].op.kind \in Moves
  BY MovingAt DEF GatewayInv, Shape
<1>2. CASE FinishRelocate(r)
  <2>1. CASE Goto(r, "rollback")
    <3>1. job'[r].op = job[r].op /\ job'[r].at = "rollback"
      BY <1>1, <2>1 DEF Goto, Calls
    <3> QED BY <1>1, <3>1 DEF Moving, Kind
  <2>2. CASE ~Goto(r, "rollback")
    <3>1. /\ file[job[r].op.ws].path = Destination(r) /\ Destination(r) \in dirs
          /\ file' = file /\ dirs' = dirs
      BY <1>2, <2>2 DEF FinishRelocate, registry, places
    <3> QED BY <3>1 DEF Together
  <2> QED BY <2>1, <2>2
<1>3. CASE Rollback(r)
  <2>1. \/ job'[r] = [job[r] EXCEPT !.at = "lock", !.base = file,
                        !.op = Change("back", job[r].op.ws, Source(r), Destination(r))]
        \/ \E w : job'[r] = [job[r] EXCEPT !.at = "moveback", !.whole = w]
    BY <1>1, <1>3 DEF Rollback
  <2>2. CASE job'[r] = [job[r] EXCEPT !.at = "lock", !.base = file,
                          !.op = Change("back", job[r].op.ws, Source(r), Destination(r))]
    <3>1. job'[r].op = Change("back", job[r].op.ws, Source(r), Destination(r)) /\ job'[r].at = "lock"
      BY <1>1, <2>2 DEF Calls
    <3> QED BY <3>1 DEF Moving, Kind, Change, Moves
  <2>3. CASE \E w : job'[r] = [job[r] EXCEPT !.at = "moveback", !.whole = w]
    <3>1. job'[r].op = job[r].op /\ job'[r].at = "moveback"
      BY <1>1, <2>3 DEF Calls
    <3> QED BY <1>1, <3>1 DEF Moving, Kind
  <2> QED BY <2>1, <2>2, <2>3
<1>4. CASE FinishBack(r)
  <2>1. job'[r].op.kind \in Moves /\ job'[r].at = "moveback"
    BY <1>1, <1>4 DEF FinishBack, Calls
  <2> QED BY <2>1 DEF Moving, Kind
<1>5. CASE MoveBack(r)
  <2>1. /\ file[job[r].op.ws].path = Source(r) /\ Source(r) \in dirs' /\ file' = file
    BY <1>5 DEF MoveBack, Move, registry
  <2> QED BY <2>1 DEF Together
<1> QED BY <1>2, <1>3, <1>4, <1>5

\* No other step of the call is one that a relocation under way can take.
LEMMA MovingElsewhere ==
    ASSUME GatewayInv, NEW r \in Runtimes, Moving(r)
    PROVE  /\ ~(\/ Expire(r) \/ RegisterPreflight(r) \/ UnregisterPreflight(r) \/ UpdatePreflight(r)
                \/ RelocatePreflight(r) \/ Preflight(r) \/ ReadContext(r))
           /\ ~(\/ Register(r) \/ Unregister(r) \/ UpdateRegistration(r) \/ Promote(r) \/ ProjectCreate(r)
                \/ GroupCreate(r) \/ PolicyUpdate(r) \/ Relocate(r))
           /\ ~(FinishApply(r) \/ FinishPlain(r) \/ RenameDirectory(r))
           /\ ~(\/ Consume(r) \/ ExecuteTrust(r) \/ ExecuteProfile(r) \/ ExecuteCredential(r)
                \/ ExecuteCommand(r) \/ ExecuteUnregister(r) \/ ExecuteCleanup(r) \/ ExecuteElsewhere(r))
           /\ ~(\/ FinishTrust(r) \/ FinishProfile(r) \/ FinishCredential(r) \/ FinishCommand(r)
                \/ FinishUnregister(r) \/ FinishCleanup(r))
<1>1. /\ job[r].at \in Locking \cup {"rollback", "moveback"} /\ job[r] # Idle
      /\ job[r].op.kind \in Moves /\ job[r].rcpt # 0
  BY MovingAt
<1>2. ~(\/ Expire(r) \/ RegisterPreflight(r) \/ UnregisterPreflight(r) \/ UpdatePreflight(r)
        \/ RelocatePreflight(r) \/ Preflight(r) \/ ReadContext(r))
  BY <1>1 DEF Expire, RegisterPreflight, UnregisterPreflight, UpdatePreflight, RelocatePreflight,
              Preflight, ReadContext
<1>3. ~(\/ Register(r) \/ Unregister(r) \/ UpdateRegistration(r) \/ Promote(r) \/ ProjectCreate(r)
        \/ GroupCreate(r) \/ PolicyUpdate(r) \/ Relocate(r))
  BY <1>1 DEF Register, Unregister, UpdateRegistration, ApplyReceipt, Promote, ProjectCreate,
              GroupCreate, PolicyUpdate, Relocate, Begin
<1>4. ~(FinishApply(r) \/ FinishPlain(r) \/ RenameDirectory(r))
  BY <1>1 DEF FinishApply, FinishPlain, RenameDirectory, Kind, Registrations, Moves, Locking
<1>5. ~(\/ Consume(r) \/ ExecuteTrust(r) \/ ExecuteProfile(r) \/ ExecuteCredential(r)
        \/ ExecuteCommand(r) \/ ExecuteUnregister(r) \/ ExecuteCleanup(r) \/ ExecuteElsewhere(r))
  BY <1>1 DEF Consume, ExecuteTrust, ExecuteProfile, ExecuteCredential, ExecuteCommand,
              ExecuteUnregister, ExecuteCleanup, ExecuteElsewhere, At, Locking
<1>6. ~(\/ FinishTrust(r) \/ FinishProfile(r) \/ FinishCredential(r) \/ FinishCommand(r)
        \/ FinishUnregister(r) \/ FinishCleanup(r))
  BY <1>1 DEF FinishTrust, FinishProfile, FinishCredential, FinishCommand, FinishUnregister,
              FinishCleanup, Finish, Kind, Moves
<1> QED BY <1>2, <1>3, <1>4, <1>5, <1>6

\* Every step: what ends a relocation is a handler of its own, or the process, which
\* leaves it apart.
LEMMA TogetherStep ==
    ASSUME GatewayInv, [Next]_vars, NEW r \in Runtimes, Moving(r), ~Moving(r)', ~apart'
    PROVE  Together(r)
<1>1. job'[r] # job[r]
  BY DEF Moving, Kind
<1>2. ASSUME NEW s \in Runtimes, OnlyCall(s) PROVE s = r
  BY <1>1, <1>2 DEF OnlyCall
<1>3. CASE (Mutation \/ OperatorEdits) /\ UNCHANGED <<places, receipts, calls, gateway>>
  <2>1. ~OperatorEdits
    BY <1>1 DEF OperatorEdits
  <2>2. PICK s \in Runtimes : Snapshot(s) \/ Replace(s) \/ ReadBack(s)
    BY <1>3, <2>1 DEF Mutation
  <2>3. s = r
    BY <1>2, <2>2, MutationIsOneCall
  <2> QED BY <2>2, <2>3, MutatesOn
<1>4. CASE Handler /\ UNCHANGED gateway
  <2>1. PICK s \in Runtimes :
        \/ Expire(s) \/ RegisterPreflight(s) \/ UnregisterPreflight(s) \/ UpdatePreflight(s)
        \/ RelocatePreflight(s) \/ Register(s) \/ Unregister(s) \/ UpdateRegistration(s) \/ FinishApply(s)
        \/ Promote(s) \/ ProjectCreate(s) \/ GroupCreate(s) \/ PolicyUpdate(s) \/ FinishPlain(s)
        \/ Relocate(s) \/ RenameDirectory(s) \/ FinishRelocate(s)
        \/ Rollback(s) \/ FinishBack(s) \/ MoveBack(s)
    BY <1>4 DEF Handler
  <2>2. s = r
    BY <1>2, <2>1, PreflightIsOneCall, HandlerIsOneCall
  <2> QED BY <2>1, <2>2, MovingElsewhere, RelocationEnds
<1>5. CASE Crash
  BY <1>5 DEF Crash
<1>6. CASE Capability
  <2>1. ~WorldChanges
    BY <1>1 DEF WorldChanges
  <2>2. PICK s \in Runtimes :
        \/ Preflight(s) \/ ReadContext(s) \/ Consume(s)
        \/ ExecuteTrust(s) \/ FinishTrust(s) \/ ExecuteProfile(s) \/ FinishProfile(s)
        \/ ExecuteCredential(s) \/ FinishCredential(s) \/ ExecuteCommand(s) \/ FinishCommand(s)
        \/ ExecuteUnregister(s) \/ FinishUnregister(s)
        \/ ExecuteCleanup(s) \/ FinishCleanup(s) \/ ExecuteElsewhere(s)
    BY <1>6, <2>1 DEF Capability
  <2>3. s = r
    BY <1>2, <2>2, PreflightIsOneCall, CapabilityIsOneCall
  <2> QED BY <2>2, <2>3, MovingElsewhere
<1>7. CASE UNCHANGED vars
  BY <1>1, <1>7 DEF vars
<1> QED BY <1>3, <1>4, <1>5, <1>6, <1>7 DEF Next

\* However the steps of the handlers interleave and fail, a relocation that ends
\* without being given up leaves its workspace registered where its directory is.
THEOREM RelocationTheorem == Spec => RelocatedTogether
<1>1. GatewayInv /\ [Next]_vars
      => [\A r \in Runtimes :
            (Moving(r) /\ ~Moving(r)' /\ ~apart')
                => LET e == file'[job[r].op.ws] IN e # None => e.path \in dirs']_<<file, dirs, job>>
  BY TogetherStep DEF Together
<1> QED BY <1>1, GatewayAlways, PTL DEF Spec, RelocatedTogether
=============================================================================
