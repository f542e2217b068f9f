---------------------- MODULE SessionIntegration_proofs ----------------------
(* For any number of runtimes, contents, grants and events: nothing but an   *)
(* approved and proven patch reaches the checkout, and what the store and    *)
(* the answers say of integrations is what happened. The argument follows a  *)
(* call through its steps: how many of them are left says what the call has  *)
(* established so far (CallOK), and a grant that may be found again and has  *)
(* been used belongs to a call that has still to mark it (UsesOK).           *)
EXTENDS SessionIntegration, SequenceTheorems, WellFoundedInduction, TLAPS

-----------------------------------------------------------------------------
(* The inductive invariant.                                                 *)

Grants == [head : 0..MaxHead, patch : Contents, policy : {1, 2},
           state : {"active", "integrated", "expired"}, uses : Nat, loose : BOOLEAN]

Answers == [answer : {"refused", "unknown", "timeout", "integrated"}, done : BOOLEAN]

\* The variables that are not about one call.
Typed ==
    /\ work \in Contents /\ proven \subseteq Contents /\ tasked \in BOOLEAN /\ policy \in {1, 2}
    /\ canon \in [head : 0..MaxHead, commit : 0..Foreign, held : 0..Foreign]
    /\ receipts \in [Contents -> {"none", "preflight", "subsumed", "applied"}]
    /\ intents \in [(0..MaxHead) \X Contents -> {"none", "awaiting", "confirmed", "integrated"}]
    /\ grants \in Seq(Grants)
    /\ side \in BOOLEAN /\ row \in BOOLEAN /\ lease \in BOOLEAN
    /\ calls = [r \in Runtimes |-> calls[r]]
    /\ approvals = [r \in Runtimes |-> approvals[r]]

\* The steps of an integration; those of a preflight are the first four.
Whole == <<"canonical", "subsumed", "evidence", "conclude", "rediff", "check", "apply",
           "receipt", "grant", "side", "row", "task">>

Size(c) == IF c.op = "integrate" THEN 12 ELSE 4

\* The last n of the first m steps.
Part(m, n) == [i \in 1..n |-> Whole[m - n + i]]

\* An approval is for a patch that was proven, unless the worktree was edited under
\* the preflight.
ApprovalOK(a) ==
    /\ a \in Approvals
    /\ a.first => a.patch \in proven \/ (a.raced /\ tasked)
    /\ ~a.first => a.raced

\* The patch of an integration is the approved one, and proven as far as that was
\* asked.
Backed(c) ==
    /\ c.patch = c.approval.patch
    /\ \/ c.patch \in proven
       \/ (c.raced \/ c.approval.raced) /\ (tasked \/ ~c.approval.first)

\* What a call of an integration has established with n steps left to do.
IntegrationOK(c, n) ==
    /\ ApprovalOK(c.approval)
    /\ c.grant \in 1..Len(grants)
    /\ grants[c.grant].patch = c.approval.patch
    /\ n <= 8 => c.ready
    /\ n \in 8..9 /\ c.ready => c.patch \in proven \/ (c.raced /\ tasked)
    /\ n <= 7 => Backed(c)
    /\ c.done <=> n <= 5
    /\ n <= 5 => grants[c.grant].uses > 0 /\ c.patch \in {a.patch : a \in applied}
    /\ n <= 4 => c.patch \in saved
    /\ n <= 3 => grants[c.grant].state # "active" \/ grants[c.grant].loose
    /\ n <= 2 => side
    /\ n <= 1 => row

\* A preflight changes nothing but its own records.
PreflightOK(c, n) ==
    /\ ~c.done /\ c.grant = 0
    /\ n <= 3 => c.again = c.patch \/ c.raced
    /\ n = 1 /\ c.ready => c.patch \in proven \/ (c.raced /\ tasked)

\* A call has the last so many of its steps left to do.
Planned(c) ==
    LET n == Len(c.todo)
    IN  n \in 1..Size(c) /\ c.todo = Part(Size(c), n)

CallOK(c) ==
    LET n == Len(c.todo)
    IN  /\ c \in CallRecords /\ Planned(c)
        /\ c.raced \/ c.patch = work
        /\ IF c.op = "integrate" THEN IntegrationOK(c, n) ELSE PreflightOK(c, n)

CallsOK == \A r \in Runtimes : calls[r] # None => CallOK(calls[r])

ApprovalsOK ==
    /\ \A r \in Runtimes : approvals[r] # None => ApprovalOK(approvals[r])
    /\ pinned # None =>
          /\ ApprovalOK(pinned.approval) /\ pinned.approval.first
          /\ pinned.again \in Contents
          /\ pinned.again = pinned.approval.patch \/ pinned.approval.raced

\* A call that goes by grant i.
GoesBy(r, i) == calls[r] # None /\ calls[r].grant = i

\* A decision that is not loose belongs to one call at a time, which has not used
\* it before; one that has been used and would be found again belongs to the call
\* that used it.
UseOK(i) ==
    \/ grants[i].loose
    \/ /\ grants[i].uses <= 1
       /\ \A q, r \in Runtimes : GoesBy(q, i) /\ GoesBy(r, i) => q = r
       /\ \A r \in Runtimes : GoesBy(r, i) /\ ~calls[r].done => grants[i].uses = 0
       /\ grants[i].state = "active" /\ grants[i].uses > 0 =>
             \E r \in Runtimes : GoesBy(r, i) /\ calls[r].done

UsesOK == \A i \in 1..Len(grants) : UseOK(i)

LastOK == last # None => last \in Answers

IInv ==
    /\ Typed /\ CallsOK /\ ApprovalsOK /\ UsesOK /\ LastOK
    /\ ReceiptsAreTrue /\ RecordedInOrder /\ AnswerIsTrue
    /\ OnlyApprovedIsApplied

-----------------------------------------------------------------------------
(* The steps of a call, and the grants.                                     *)

\* A step less.
LEMMA CountDown ==
    \A m \in {4, 12} : \A n \in 1..m : n \in 1..12 /\ (n # 1 => n - 1 \in 1..m)
  OBVIOUS

\* The steps that Enter gives an integration, and StartPreflight a preflight.
LEMMA Plans ==
    /\ Look \o Change \o Record = Part(12, 12)
    /\ Look = Part(4, 4)
  BY DEF Look, Change, Record, Part, Whole

\* The head and the tail of the steps that are left.
LEMMA PartStep ==
    ASSUME NEW m \in {4, 12}, NEW n \in 1..m
    PROVE  /\ Part(m, n) \in Seq(Steps) /\ Len(Part(m, n)) = n
           /\ Part(m, n) # <<>>
           /\ Head(Part(m, n)) = Whole[m - n + 1]
           /\ Tail(Part(m, n)) = Part(m, n - 1)
           /\ Len(Part(m, n - 1)) = n - 1
           /\ Tail(Part(m, n)) = <<>> <=> n = 1
<1>1. \A k \in 1..12 : Whole[k] \in Steps
  BY DEF Whole, Steps
<1>2. /\ Part(m, n) \in Seq(Steps) /\ Len(Part(m, n)) = n
      /\ \A i \in 1..n : Part(m, n)[i] = Whole[m - n + i]
  BY <1>1 DEF Part
<1>3. /\ Part(m, n - 1) \in Seq(Steps) /\ Len(Part(m, n - 1)) = n - 1
      /\ \A i \in 1..(n - 1) : Part(m, n - 1)[i] = Whole[m - (n - 1) + i]
  BY <1>1 DEF Part
<1>4. Part(m, n) # <<>>
  BY <1>2
<1>5. Head(Part(m, n)) = Whole[m - n + 1]
  BY <1>2, <1>4
<1>6. Tail(Part(m, n)) = Part(m, n - 1)
  <2>1. /\ Tail(Part(m, n)) \in Seq(Steps) /\ Len(Tail(Part(m, n))) = n - 1
        /\ \A i \in 1..(n - 1) : Tail(Part(m, n))[i] = Part(m, n)[i + 1]
    BY <1>2, <1>4
  <2>2. ASSUME NEW i \in 1..(n - 1)
        PROVE  Tail(Part(m, n))[i] = Part(m, n - 1)[i]
    <3>1. i + 1 \in 1..n /\ m - n + (i + 1) = m - (n - 1) + i
      OBVIOUS
    <3> QED BY <2>1, <1>2, <1>3, <3>1
  <2> QED BY <2>1, <2>2, <1>3, SeqEqual
<1>7. Part(m, n - 1) = <<>> <=> n = 1
  BY <1>3
<1> QED BY <1>2, <1>3, <1>4, <1>5, <1>6, <1>7

\* A non-empty set of the numbers from 1 to n has a largest element.
LEMMA Largest ==
    ASSUME NEW n \in Nat, NEW S, S \subseteq 1..n, S # {}
    PROVE  \E i \in S : \A k \in S : k <= i
<1> DEFINE T == {n - k : k \in S}
<1>1. T \subseteq Nat /\ T # {}
  <2>1. ASSUME NEW k \in S PROVE n - k \in Nat
    <3>1. k \in 1..n
      OBVIOUS
    <3>2. k \in Int /\ k <= n
      BY <3>1
    <3> QED BY <3>2
  <2> QED BY <2>1
<1>2. PICK x \in T : \A y \in T : ~(<<y, x>> \in OpToRel(<, Nat))
  BY <1>1, NatLessThanWellFounded, WFMin
<1>3. PICK i \in S : x = n - i
  OBVIOUS
<1>4. \A k \in S : n - k \in T /\ n - k \in Nat
  BY <1>1
<1>5. \A k \in S : ~(n - k < n - i)
  BY <1>2, <1>3, <1>4, <1>1 DEF OpToRel
<1> QED BY <1>5

\* The grant found for a head and a patch is an active one for that patch.
LEMMA MatchingFinds ==
    ASSUME Typed, NEW head, NEW patch
    PROVE  LET i == Matching(head, patch)
           IN  \/ i = 0
               \/ /\ i \in 1..Len(grants) /\ grants[i].state = "active"
                  /\ grants[i].patch = patch
<1> DEFINE S == {i \in DOMAIN grants :
                    /\ grants[i].state = "active" /\ grants[i].head = head
                    /\ grants[i].patch = patch /\ grants[i].policy = policy}
<1>1. Len(grants) \in Nat /\ S \subseteq 1..Len(grants)
  BY DEF Typed
<1>2. CASE S = {}
  BY <1>2 DEF Matching
<1>3. CASE S # {}
  <2>1. \E i \in S : \A k \in S : k <= i
    BY <1>1, <1>3, Largest
  <2>2. (CHOOSE i \in S : \A k \in S : k <= i) \in S
    BY <2>1
  <2> QED BY <2>2, <1>1, <1>3 DEF Matching
<1> QED BY <1>2, <1>3

\* The step at the head of a call says how many are left, and whose call it is.
LEMMA StepsLeft ==
    ASSUME NEW c, CallOK(c)
    PROVE  LET n == Len(c.todo)
               s == Head(c.todo)
           IN  /\ Size(c) \in {4, 12} /\ n \in 1..Size(c)
               /\ s = Whole[Size(c) - n + 1]
               /\ s = "canonical" <=> n = Size(c)
               /\ s = "subsumed" <=> n = Size(c) - 1
               /\ s = "evidence" <=> n = Size(c) - 2
               /\ s = "conclude" <=> n = Size(c) - 3
               /\ s = "rediff" <=> n = 8 /\ c.op = "integrate"
               /\ s = "check" <=> n = 7 /\ c.op = "integrate"
               /\ s = "apply" <=> n = 6 /\ c.op = "integrate"
               /\ s = "receipt" <=> n = 5 /\ c.op = "integrate"
               /\ s = "grant" <=> n = 4 /\ c.op = "integrate"
               /\ s = "side" <=> n = 3 /\ c.op = "integrate"
               /\ s = "row" <=> n = 2 /\ c.op = "integrate"
               /\ s = "task" <=> n = 1 /\ c.op = "integrate"
<1> DEFINE n == Len(c.todo)
           m == Size(c)
           k == m - n + 1
<1>1. /\ m = (IF c.op = "integrate" THEN 12 ELSE 4)
      /\ n \in 1..m /\ c.todo = Part(m, n)
  BY DEF CallOK, Planned, Size
<1> HIDE DEF n, m
<1>2. m \in {4, 12}
  BY <1>1
<1>3. Head(c.todo) = Whole[k]
  BY <1>1, <1>2, PartStep
<1>4. k \in 1..12 /\ n = m - k + 1
  BY <1>1
<1>5. /\ Whole[k] = "canonical" <=> k = 1
      /\ Whole[k] = "subsumed" <=> k = 2
      /\ Whole[k] = "evidence" <=> k = 3
      /\ Whole[k] = "conclude" <=> k = 4
      /\ Whole[k] = "rediff" <=> k = 5
      /\ Whole[k] = "check" <=> k = 6
      /\ Whole[k] = "apply" <=> k = 7
      /\ Whole[k] = "receipt" <=> k = 8
      /\ Whole[k] = "grant" <=> k = 9
      /\ Whole[k] = "side" <=> k = 10
      /\ Whole[k] = "row" <=> k = 11
      /\ Whole[k] = "task" <=> k = 12
  BY <1>4 DEF Whole
<1> HIDE DEF k
<1>6. /\ Head(c.todo) = "canonical" <=> n = m
      /\ Head(c.todo) = "subsumed" <=> n = m - 1
      /\ Head(c.todo) = "evidence" <=> n = m - 2
      /\ Head(c.todo) = "conclude" <=> n = m - 3
  BY <1>1, <1>2, <1>3, <1>4, <1>5
<1>7. k > 4 => c.op = "integrate" /\ m = 12
  BY <1>1, <1>2, <1>4
<1>8. c.op = "integrate" <=> m = 12
  BY <1>1
<1>9. /\ Head(c.todo) = "rediff" <=> n = 8 /\ c.op = "integrate"
      /\ Head(c.todo) = "check" <=> n = 7 /\ c.op = "integrate"
      /\ Head(c.todo) = "apply" <=> n = 6 /\ c.op = "integrate"
      /\ Head(c.todo) = "receipt" <=> n = 5 /\ c.op = "integrate"
      /\ Head(c.todo) = "grant" <=> n = 4 /\ c.op = "integrate"
      /\ Head(c.todo) = "side" <=> n = 3 /\ c.op = "integrate"
      /\ Head(c.todo) = "row" <=> n = 2 /\ c.op = "integrate"
      /\ Head(c.todo) = "task" <=> n = 1 /\ c.op = "integrate"
  BY <1>1, <1>3, <1>4, <1>5, <1>7, <1>8
<1> QED BY <1>1, <1>2, <1>3, <1>6, <1>9 DEF k, m, n

\* What is left after a step, of a call with one step less to do.
LEMMA OneLess ==
    ASSUME NEW c, CallOK(c)
    PROVE  LET n == Len(c.todo)
           IN  /\ Tail(c.todo) = Part(Size(c), n - 1) /\ Len(Tail(c.todo)) = n - 1
               /\ Tail(c.todo) = <<>> <=> n = 1
               /\ n # 1 => Tail(c.todo) \in Seq(Steps)
<1> DEFINE m == Size(c)
           n == Len(c.todo)
<1>1. m \in {4, 12} /\ n \in 1..m /\ c.todo = Part(m, n)
  BY DEF CallOK, Planned, Size
<1> HIDE DEF m, n
<1>2. /\ Tail(Part(m, n)) = Part(m, n - 1) /\ Len(Part(m, n - 1)) = n - 1
      /\ Tail(Part(m, n)) = <<>> <=> n = 1
  BY <1>1, PartStep
<1>3. n # 1 => n - 1 \in 1..m
  BY <1>1
<1>4. n # 1 => Part(m, n - 1) \in Seq(Steps)
  BY <1>1, <1>3, PartStep
<1> QED BY <1>1, <1>2, <1>4 DEF m, n

-----------------------------------------------------------------------------
(* What every step of the system respects.                                  *)

\* What has been proven, applied or recorded stays so; a grant keeps its patch, is
\* not used less and does not become active again.
Grows ==
    /\ proven \subseteq proven' /\ tasked' = tasked
    /\ applied \subseteq applied' /\ saved \subseteq saved'
    /\ side => side'
    /\ row => row'
    /\ lease' => lease
    /\ Len(grants) <= Len(grants')
    /\ \A i \in 1..Len(grants) :
          /\ grants'[i].patch = grants[i].patch /\ grants'[i].uses >= grants[i].uses
          /\ grants[i].loose => grants'[i].loose
          /\ grants[i].state # "active" => grants'[i].state # "active"

Kept == Typed' /\ Grows

\* Changing one grant in place.
LEMMA GrantChanged ==
    ASSUME NEW s \in Seq(Grants), NEW i \in 1..Len(s), NEW g \in Grants
    PROVE  LET z == [s EXCEPT ![i] = g]
           IN  /\ z \in Seq(Grants) /\ Len(z) = Len(s)
               /\ \A k \in 1..Len(s) : z[k] = IF k = i THEN g ELSE s[k]
  OBVIOUS

\* Adding a grant.
LEMMA GrantAdded ==
    ASSUME NEW s \in Seq(Grants), NEW g \in Grants
    PROVE  LET z == Append(s, g)
           IN  /\ z \in Seq(Grants) /\ Len(z) = Len(s) + 1 /\ z[Len(s) + 1] = g
               /\ \A k \in 1..Len(s) : z[k] = s[k]
  OBVIOUS

\* The grants recorded so far.
LEMMA GrantTyped ==
    ASSUME Typed
    PROVE  /\ grants \in Seq(Grants) /\ Len(grants) \in Nat /\ DOMAIN grants = 1..Len(grants)
           /\ \A i \in 1..Len(grants) :
                 /\ grants[i] \in Grants /\ grants[i].uses \in Nat /\ grants[i].loose \in BOOLEAN
                 /\ grants[i].patch \in Contents
<1>1. grants \in Seq(Grants)
  BY DEF Typed
<1>2. \A i \in 1..Len(grants) : grants[i] \in Grants
  BY <1>1
<1>3. \A g \in Grants : g.uses \in Nat /\ g.loose \in BOOLEAN /\ g.patch \in Contents
  BY DEF Grants
<1> QED BY <1>1, <1>2, <1>3

\* Steps that leave the grants alone.
LEMMA SameGrantsGrow ==
    ASSUME Typed, grants' = grants, proven \subseteq proven', tasked' = tasked,
           applied \subseteq applied', saved \subseteq saved',
           side => side', row => row', lease' => lease
    PROVE  Grows
<1>1. Len(grants) \in Nat /\ \A i \in 1..Len(grants) : grants[i].uses \in Nat
  BY GrantTyped
<1> QED BY <1>1 DEF Grows

\* A call of whatever kind that has not ended.
LEMMA CallTyped ==
    ASSUME IInv, NEW r \in Runtimes, calls[r] # None
    PROVE  /\ CallOK(calls[r]) /\ calls[r] \in CallRecords
           /\ calls[r].patch \in Contents /\ calls[r].head \in 0..MaxHead
           /\ calls[r].op = "integrate" =>
                 /\ IntegrationOK(calls[r], Len(calls[r].todo))
                 /\ calls[r].approval \in Approvals
                 /\ calls[r].grant \in 1..Len(grants)
  BY DEF IInv, CallsOK, CallOK, CallRecords, IntegrationOK, ApprovalOK

\* Preflight, and the first half of an integration.
LEMMA LooksKeep ==
    ASSUME IInv, NEW r \in Runtimes,
           \/ \E op \in {"preflight", "trusted"} : StartPreflight(r, op)
           \/ LookCanonical(r) \/ LookSubsumed(r) \/ LookEvidence(r) \/ Conclude(r)
           \/ ApprovalStale(r) \/ Rediff(r) \/ CheckCanonical(r)
    PROVE  Kept /\ grants' = grants /\ work' = work
<1> USE DEF Kept, trees, facts, stored, standing, given, ghosts
<1>0. Typed
  BY DEF IInv
<1>1. CASE \/ \E op \in {"preflight", "trusted"} : StartPreflight(r, op)
           \/ LookCanonical(r) \/ LookEvidence(r) \/ ApprovalStale(r)
           \/ Rediff(r) \/ CheckCanonical(r)
  <2>1. /\ UNCHANGED <<work, proven, tasked, policy, canon, receipts, intents, grants,
                       side, row, lease, applied, saved>>
        /\ calls' = [q \in Runtimes |-> calls'[q]]
        /\ approvals' = [q \in Runtimes |-> approvals'[q]]
    BY <1>0, <1>1 DEF StartPreflight, LookCanonical, LookEvidence, ApprovalStale, Rediff,
                      CheckCanonical, Becomes, Ends, Typed
  <2> QED BY <2>1, <1>0, SameGrantsGrow DEF Typed
<1>2. CASE LookSubsumed(r)
  <2>1. calls[r] # None /\ calls[r].patch \in Contents
    BY <1>2, CallTyped DEF LookSubsumed, At
  <2>2. /\ UNCHANGED <<work, proven, tasked, policy, canon, intents, grants,
                       side, row, lease, applied, saved, approvals>>
        /\ calls' = [q \in Runtimes |-> calls'[q]]
        /\ receipts' \in [Contents -> {"none", "preflight", "subsumed", "applied"}]
    BY <1>0, <1>2, <2>1 DEF LookSubsumed, Becomes, Ends, Typed
  <2> QED BY <2>2, <1>0, SameGrantsGrow DEF Typed
<1>3. CASE Conclude(r)
  <2>1. calls[r] # None /\ calls[r].patch \in Contents /\ calls[r].head \in 0..MaxHead
    BY <1>3, CallTyped DEF Conclude, At
  <2>2. UNCHANGED <<work, proven, tasked, policy, canon, grants,
                    side, row, lease, applied, saved>>
    BY <1>3 DEF Conclude
  <2>3. calls' = [q \in Runtimes |-> calls'[q]]
    BY <1>0, <1>3 DEF Conclude, Becomes, Ends, Typed
  <2>4. approvals' = [q \in Runtimes |-> approvals'[q]]
    <3> DEFINE found == IF calls[r].ready THEN Matching(calls[r].head, calls[r].patch) ELSE 0
               a == Approval(calls[r].head, calls[r].patch, found, calls[r].raced)
    <3>1. \/ approvals' = approvals
          \/ approvals' = [approvals EXCEPT ![r] = a]
          \/ approvals' = [approvals EXCEPT ![r] = None]
      BY <1>3 DEF Conclude
    <3> HIDE DEF a
    <3> QED BY <3>1, <1>0 DEF Typed
  <2>5. receipts' \in [Contents -> {"none", "preflight", "subsumed", "applied"}]
    <3>1. receipts' = [receipts EXCEPT ![calls[r].patch] = "preflight"]
      BY <1>3 DEF Conclude
    <3> QED BY <3>1, <1>0, <2>1 DEF Typed
  <2>6. intents' \in [(0..MaxHead) \X Contents -> {"none", "awaiting", "confirmed", "integrated"}]
    BY <1>0, <1>3, <2>1 DEF Conclude, Typed
  <2> QED BY <2>2, <2>3, <2>4, <2>5, <2>6, <1>0, SameGrantsGrow DEF Typed
<1> QED BY <1>1, <1>2, <1>3

\* What is recorded after the patch, but for the mark of the grant.
LEMMA RecordsKeep ==
    ASSUME IInv, NEW r \in Runtimes, SaveApplied(r) \/ Settle(r) \/ CompleteTasks(r)
    PROVE  Kept /\ grants' = grants /\ work' = work
<1> USE DEF Kept, trees, facts, stored, standing, given, ghosts
<1>0. Typed /\ calls[r] # None /\ calls[r].patch \in Contents
  BY CallTyped DEF IInv, SaveApplied, Settle, CompleteTasks, At
<1>1. /\ UNCHANGED <<work, proven, tasked, policy, canon, intents, grants, applied, approvals>>
      /\ calls' = [q \in Runtimes |-> calls'[q]]
      /\ receipts' \in [Contents -> {"none", "preflight", "subsumed", "applied"}]
      /\ side' \in BOOLEAN /\ row' \in BOOLEAN /\ lease' \in BOOLEAN
      /\ saved \subseteq saved'
      /\ side => side'
      /\ row => row'
      /\ lease' => lease
  <2>1. CASE SaveApplied(r)
    BY <1>0, <2>1 DEF SaveApplied, Becomes, Typed
  <2>2. CASE Settle(r)
    <3>1. calls' = [q \in Runtimes |-> calls'[q]]
      BY <1>0, <2>2 DEF Settle, Becomes, Typed
    <3>2. /\ UNCHANGED <<work, proven, tasked, policy, canon, intents, grants, applied,
                         approvals, receipts, saved>>
          /\ \/ side' = TRUE /\ lease' = lease /\ row' = row
             \/ lease' = FALSE /\ row' = TRUE /\ side' = side
      BY <2>2 DEF Settle
    <3>3. side \in BOOLEAN /\ row \in BOOLEAN /\ lease \in BOOLEAN
      BY <1>0 DEF Typed
    <3>4. side' \in BOOLEAN /\ row' \in BOOLEAN /\ lease' \in BOOLEAN
      BY <3>2, <3>3, Zenon
    <3>5. side => side'
      BY <3>2, <3>3, Zenon
    <3>6. row => row'
      BY <3>2, <3>3, Zenon
    <3>7. lease' => lease
      BY <3>2, <3>3, Zenon
    <3>8. receipts' \in [Contents -> {"none", "preflight", "subsumed", "applied"}]
      BY <3>2, <1>0 DEF Typed
    <3> QED BY <3>1, <3>2, <3>4, <3>5, <3>6, <3>7, <3>8
  <2>3. CASE CompleteTasks(r)
    BY <1>0, <2>3 DEF CompleteTasks, Ends, Typed
  <2> QED BY <2>1, <2>2, <2>3
<1> QED BY <1>1, <1>0, SameGrantsGrow DEF Typed

\* People, other sessions and time, but for the expiry of a grant.
LEMMA WorldKeeps ==
    ASSUME IInv, (\E c \in Contents : Edit(c)) \/ Prove \/ EditCanonical \/ QueueMoves
    PROVE  Kept /\ grants' = grants
<1> USE DEF Kept, trees, facts, stored, standing, given, ghosts
<1>0. Typed
  BY DEF IInv
<1>1. canon.commit \in 0..Foreign /\ canon.held \in 0..Foreign /\ canon.head \in 0..MaxHead
      /\ 0 \in 0..Foreign /\ Foreign \in 0..Foreign
  BY <1>0, IntegrationAssumption DEF Typed, Foreign
<1>2. CASE (\E c \in Contents : Edit(c)) \/ Prove
  <2>1. /\ UNCHANGED <<tasked, policy, canon, receipts, intents, grants,
                       side, row, lease, applied, saved, approvals>>
        /\ calls' = [q \in Runtimes |-> calls'[q]]
        /\ work' \in Contents /\ proven \subseteq proven' /\ proven' \subseteq Contents
    BY <1>0, <1>2 DEF Edit, Prove, Typed
  <2> QED BY <2>1, <1>0, SameGrantsGrow DEF Typed
<1>3. CASE EditCanonical \/ QueueMoves
  <2>1. /\ UNCHANGED <<work, proven, tasked, policy, receipts, intents, grants, calls,
                       side, row, lease, applied, saved, approvals>>
    BY <1>3 DEF EditCanonical, QueueMoves
  <2>2. canon' \in [head : 0..MaxHead, commit : 0..Foreign, held : 0..Foreign]
    <3>1. canon \in [head : 0..MaxHead, commit : 0..Foreign, held : 0..Foreign]
      BY <1>0 DEF Typed
    <3>2. CASE QueueMoves
      BY <3>1, <3>2, <1>1 DEF QueueMoves
    <3>3. CASE EditCanonical
      <4>1. CASE \E v \in {0, Foreign} \ {canon.held} : canon' = [canon EXCEPT !.held = v]
        BY <3>1, <4>1, <1>1
      <4>2. CASE /\ canon.head < MaxHead
                 /\ \E v \in {canon.commit, canon.held} :
                       canon' = [canon EXCEPT !.head = @ + 1, !.commit = v]
        <5>1. canon.head + 1 \in 0..MaxHead
          BY <1>1, <4>2, IntegrationAssumption
        <5> QED BY <3>1, <4>2, <1>1, <5>1
      <4> QED BY <3>3, <4>1, <4>2 DEF EditCanonical
    <3> QED BY <1>3, <3>2, <3>3
  <2> QED BY <2>1, <2>2, <1>0, SameGrantsGrow DEF Typed
<1> QED BY <1>2, <1>3

\* One grant is changed in place: it keeps its patch, and is not used less.
LEMMA OneGrantGrows ==
    ASSUME Typed, NEW i \in 1..Len(grants), NEW g \in Grants,
           grants' = [grants EXCEPT ![i] = g],
           g.patch = grants[i].patch, g.uses >= grants[i].uses,
           grants[i].loose => g.loose,
           grants[i].state # "active" => g.state # "active",
           proven \subseteq proven', tasked' = tasked,
           applied \subseteq applied', saved \subseteq saved',
           side => side', row => row', lease' => lease
    PROVE  Grows /\ grants' \in Seq(Grants) /\ Len(grants') = Len(grants)
<1>1. grants \in Seq(Grants) /\ Len(grants) \in Nat
      /\ \A k \in 1..Len(grants) : grants[k].uses \in Nat
  BY GrantTyped
<1>2. /\ grants' \in Seq(Grants) /\ Len(grants') = Len(grants)
      /\ \A k \in 1..Len(grants) : grants'[k] = IF k = i THEN g ELSE grants[k]
  BY <1>1, GrantChanged
<1> QED BY <1>1, <1>2 DEF Grows

\* An integration enters with the grant that matches, or with a new one.
LEMMA EnterEffect ==
    ASSUME IInv, NEW r \in Runtimes, NEW a, ApprovalOK(a), Enter(r, a),
           approvals' = [q \in Runtimes |-> approvals'[q]]
    PROVE  /\ Kept /\ work' = work
           /\ \E i \in 1..Len(grants') :
                 /\ calls' = [calls EXCEPT ![r] = Call("integrate", Look \o Change \o Record, a, i)]
                 /\ grants'[i].patch = a.patch /\ grants'[i].state = "active"
                 /\ Shared(r, i) => grants'[i].loose
                 /\ i \in 1..Len(grants) =>
                       grants[i].state = "active" /\ grants'[i].uses = grants[i].uses
                 /\ i \notin 1..Len(grants) => grants'[i].uses = 0
                 /\ \A k \in 1..Len(grants') \ {i} : k \in 1..Len(grants) /\ grants'[k] = grants[k]
<1> DEFINE m == Matching(a.head, a.patch)
           i == IF m # 0 THEN m ELSE Len(Persisted(a))
           g == [Persisted(a)[i] EXCEPT !.loose = @ \/ Shared(r, i)]
<1>0. /\ Typed /\ a \in Approvals /\ a.patch \in Contents /\ a.head \in 0..MaxHead
      /\ policy \in {1, 2} /\ side \in BOOLEAN /\ row \in BOOLEAN /\ lease \in BOOLEAN
  BY DEF IInv, Typed, ApprovalOK, Approvals
<1>1. /\ grants \in Seq(Grants) /\ Len(grants) \in Nat
      /\ \A k \in 1..Len(grants) : grants[k] \in Grants /\ grants[k].uses \in Nat
  BY <1>0, GrantTyped
<1>2. \/ m = 0
      \/ m \in 1..Len(grants) /\ grants[m].state = "active" /\ grants[m].patch = a.patch
  BY <1>0, MatchingFinds
<1>3. /\ NewGrant(a) \in Grants /\ NewGrant(a).patch = a.patch /\ NewGrant(a).uses = 0
      /\ NewGrant(a).state = "active"
  BY <1>0 DEF NewGrant, Grants
<1>4. /\ UNCHANGED <<work, proven, tasked, policy, canon, receipts, intents,
                     side, row, lease, applied, saved>>
      /\ grants' = [Persisted(a) EXCEPT ![i] = g]
      /\ calls' = [calls EXCEPT ![r] = Call("integrate", Look \o Change \o Record, a, i)]
  BY DEF Enter, trees, facts, standing, ghosts
<1>5. calls' = [q \in Runtimes |-> calls'[q]]
  BY <1>4, <1>0 DEF Typed
<1>6. Shared(r, i) \in BOOLEAN
  BY DEF Shared
<1>7. /\ proven \subseteq proven' /\ tasked' = tasked
      /\ applied \subseteq applied' /\ saved \subseteq saved'
      /\ side => side'
      /\ row => row'
      /\ lease' => lease
  BY <1>4
<1> DEFINE Effect(j) ==
              /\ calls' = [calls EXCEPT ![r] = Call("integrate", Look \o Change \o Record, a, j)]
              /\ grants'[j].patch = a.patch /\ grants'[j].state = "active"
              /\ Shared(r, j) => grants'[j].loose
              /\ j \in 1..Len(grants) =>
                    grants[j].state = "active" /\ grants'[j].uses = grants[j].uses
              /\ j \notin 1..Len(grants) => grants'[j].uses = 0
              /\ \A k \in 1..Len(grants') \ {j} : k \in 1..Len(grants) /\ grants'[k] = grants[k]
<1>8. \A h \in Grants :
         LET z == [h EXCEPT !.loose = @ \/ Shared(r, i)]
         IN  /\ z \in Grants /\ z.patch = h.patch /\ z.uses = h.uses /\ z.state = h.state
             /\ h.loose => z.loose
             /\ Shared(r, i) => z.loose
  BY <1>6 DEF Grants
<1>9. CASE m # 0
  <2>1. /\ i \in 1..Len(grants) /\ Persisted(a) = grants /\ Persisted(a)[i] = grants[i]
        /\ grants[i].state = "active" /\ grants[i].patch = a.patch
    BY <1>2, <1>9 DEF Persisted
  <2>2. /\ grants[i] \in Grants /\ g \in Grants /\ g.patch = grants[i].patch
        /\ g.uses = grants[i].uses /\ g.state = grants[i].state
        /\ grants[i].loose => g.loose
        /\ Shared(r, i) => g.loose
    BY <1>1, <1>8, <2>1
  <2> HIDE DEF g, i
  <2>3. grants' = [grants EXCEPT ![i] = g]
    BY <1>4, <2>1
  <2>4. Grows /\ grants' \in Seq(Grants) /\ Len(grants') = Len(grants)
    <3>1. g.uses >= grants[i].uses
      BY <1>1, <2>1, <2>2
    <3> QED BY <1>0, <1>7, <2>1, <2>2, <2>3, <3>1, OneGrantGrows
  <2>5. \A k \in 1..Len(grants) : grants'[k] = IF k = i THEN g ELSE grants[k]
    BY <1>1, <2>1, <2>2, <2>3, GrantChanged
  <2>6. Typed'
    BY <1>0, <1>4, <1>5, <2>4 DEF Typed
  <2>7. Effect(i)
    BY <1>4, <2>1, <2>2, <2>4, <2>5
  <2> QED BY <1>4, <2>1, <2>4, <2>6, <2>7 DEF Kept
<1>10. CASE m = 0
  <2> DEFINE p == Append(grants, NewGrant(a))
  <2>1. /\ p \in Seq(Grants) /\ Len(p) = Len(grants) + 1 /\ p[Len(grants) + 1] = NewGrant(a)
        /\ \A k \in 1..Len(grants) : p[k] = grants[k]
    BY <1>1, <1>3, GrantAdded
  <2>2. Persisted(a) = p /\ i = Len(grants) + 1 /\ i \in 1..Len(p) /\ Persisted(a)[i] = NewGrant(a)
    BY <1>1, <1>10, <2>1 DEF Persisted
  <2>3. /\ g \in Grants /\ g.patch = a.patch /\ g.uses = 0 /\ g.state = "active"
        /\ Shared(r, i) => g.loose
    BY <1>3, <1>8, <2>2
  <2> HIDE DEF g, i, p
  <2>4. grants' = [p EXCEPT ![i] = g]
    BY <1>4, <2>2
  <2>5. /\ grants' \in Seq(Grants) /\ Len(grants') = Len(p)
        /\ \A k \in 1..Len(p) : grants'[k] = IF k = i THEN g ELSE p[k]
    BY <2>1, <2>2, <2>3, <2>4, GrantChanged
  <2>6. \A k \in 1..Len(grants) : k # i /\ k \in 1..Len(p) /\ grants'[k] = grants[k]
    BY <1>1, <2>1, <2>2, <2>5
  <2>7. Grows
    BY <1>1, <1>4, <2>1, <2>5, <2>6 DEF Grows
  <2>8. Typed'
    BY <1>0, <1>4, <1>5, <2>5 DEF Typed
  <2>9. i \in 1..Len(grants') /\ i \notin 1..Len(grants)
    BY <1>1, <2>1, <2>2, <2>5
  <2>10. Effect(i)
    <3>1. \A k \in 1..Len(grants') \ {i} : k \in 1..Len(grants) /\ grants'[k] = grants[k]
      BY <1>1, <2>1, <2>2, <2>5, <2>6
    <3>2. grants'[i] = g
      BY <2>2, <2>5
    <3> QED BY <1>4, <2>3, <2>9, <3>1, <3>2
  <2> QED BY <1>4, <2>7, <2>8, <2>9, <2>10 DEF Kept
<1> QED BY <1>9, <1>10

\* What changing a field of a grant makes of it.
Used(h) == [h EXCEPT !.uses = @ + 1]
Loose(h) == [h EXCEPT !.loose = TRUE]
InState(h, s) == [h EXCEPT !.state = s]

LEMMA GrantWith ==
    ASSUME NEW h \in Grants
    PROVE  /\ Used(h) \in Grants /\ Used(h).patch = h.patch /\ Used(h).uses = h.uses + 1
           /\ Used(h).loose = h.loose /\ Used(h).state = h.state
           /\ Loose(h) \in Grants /\ Loose(h).patch = h.patch /\ Loose(h).uses = h.uses
           /\ Loose(h).loose /\ Loose(h).state = h.state
           /\ \A s \in {"integrated", "expired"} :
                 /\ InState(h, s) \in Grants /\ InState(h, s).patch = h.patch
                 /\ InState(h, s).uses = h.uses /\ InState(h, s).state = s
                 /\ InState(h, s).loose = h.loose
           /\ h.uses \in Nat
<1>1. /\ Used(h) \in Grants /\ Used(h).patch = h.patch /\ Used(h).uses = h.uses + 1
      /\ Used(h).state = h.state
  BY DEF Grants, Used
<1>2. Used(h).loose = h.loose
  BY DEF Grants, Used
<1>3. /\ Loose(h) \in Grants /\ Loose(h).patch = h.patch /\ Loose(h).uses = h.uses
      /\ Loose(h).state = h.state
  BY DEF Grants, Loose
<1>4. Loose(h).loose
  BY DEF Grants, Loose
<1>5. ASSUME NEW s \in {"integrated", "expired"}
      PROVE  /\ InState(h, s) \in Grants /\ InState(h, s).patch = h.patch
             /\ InState(h, s).uses = h.uses /\ InState(h, s).state = s
             /\ InState(h, s).loose = h.loose
  BY DEF Grants, InState
<1>6. h.uses \in Nat
  BY DEF Grants
<1> QED BY <1>1, <1>2, <1>3, <1>4, <1>5, <1>6

\* Nothing but grant i changes, and becomes g.
Changes(i, g) == \A k \in 1..Len(grants) : grants'[k] = IF k = i THEN g ELSE grants[k]

\* The patch is applied under the grant of the call, or the checkout has changed.
LEMMA GitApplyKeeps ==
    ASSUME IInv, NEW r \in Runtimes, GitApply(r)
    PROVE  /\ Kept /\ work' = work
           /\ \/ grants' = grants /\ ~Applies(calls[r].patch)
              \/ /\ Applies(calls[r].patch) /\ Len(grants') = Len(grants)
                 /\ Changes(calls[r].grant, Used(grants[calls[r].grant]))
<1> DEFINE c == calls[r]
           i == c.grant
           g == Used(grants[i])
<1>0. /\ Typed /\ c # None /\ c.op = "integrate" /\ c.patch \in Contents /\ i \in 1..Len(grants)
  BY CallTyped, StepsLeft DEF IInv, GitApply, At
<1>1. /\ UNCHANGED <<work, proven, tasked, policy, receipts, intents, approvals,
                     side, row, lease, saved>>
      /\ calls' = [q \in Runtimes |-> calls'[q]]
  BY <1>0 DEF GitApply, Becomes, Ends, Typed, facts, standing, given
<1>2. canon' \in [head : 0..MaxHead, commit : 0..Foreign, held : 0..Foreign]
  <2>1. canon \in [head : 0..MaxHead, commit : 0..Foreign, held : 0..Foreign]
    BY <1>0 DEF Typed
  <2>2. c.patch \in 0..Foreign
    BY <1>0, IntegrationAssumption DEF Contents, Foreign
  <2> QED BY <2>1, <2>2 DEF GitApply
<1>3. /\ proven \subseteq proven' /\ tasked' = tasked
      /\ applied \subseteq applied' /\ saved \subseteq saved'
      /\ side => side'
      /\ row => row'
      /\ lease' => lease
  BY <1>1 DEF GitApply
<1>4. CASE grants' = grants /\ ~Applies(c.patch)
  BY <1>0, <1>1, <1>2, <1>3, <1>4, SameGrantsGrow DEF Kept, Typed
<1>5. CASE grants' = [grants EXCEPT ![i].uses = @ + 1] /\ Applies(c.patch)
  <2>1. grants[i] \in Grants /\ grants[i].uses \in Nat /\ grants \in Seq(Grants)
    BY <1>0, GrantTyped
  <2>2. /\ g \in Grants /\ g.patch = grants[i].patch /\ g.uses >= grants[i].uses
        /\ grants[i].loose => g.loose
        /\ g.state = grants[i].state
    BY <2>1, GrantWith
  <2>3. grants' = [grants EXCEPT ![i] = g]
    BY <1>5 DEF Used
  <2> HIDE DEF g
  <2>4. Grows /\ grants' \in Seq(Grants) /\ Len(grants') = Len(grants)
    BY <1>0, <1>3, <2>2, <2>3, OneGrantGrows
  <2>5. Changes(i, g)
    BY <1>0, <2>1, <2>2, <2>3, GrantChanged DEF Changes
  <2>6. Typed'
    BY <1>0, <1>1, <1>2, <2>4 DEF Typed
  <2> QED BY <1>1, <1>5, <2>4, <2>5, <2>6 DEF Kept, g
<1> QED BY <1>4, <1>5 DEF GitApply

\* The grant of the call is marked, and the intent.
LEMMA MarkKeeps ==
    ASSUME IInv, NEW r \in Runtimes, MarkIntegrated(r)
    PROVE  /\ Kept /\ work' = work /\ Len(grants') = Len(grants)
           /\ Changes(calls[r].grant, InState(grants[calls[r].grant], "integrated"))
<1> DEFINE c == calls[r]
           i == c.grant
           g == InState(grants[i], "integrated")
<1>0. /\ Typed /\ c # None /\ c.op = "integrate" /\ i \in 1..Len(grants)
      /\ c.head \in 0..MaxHead /\ c.approval.patch \in Contents
  BY CallTyped, StepsLeft DEF IInv, MarkIntegrated, At, Approvals
<1>1. /\ UNCHANGED <<work, proven, tasked, policy, canon, receipts, approvals,
                     side, row, lease, saved, applied>>
      /\ calls' = [q \in Runtimes |-> calls'[q]]
      /\ grants' = [grants EXCEPT ![i] = g]
  BY <1>0 DEF MarkIntegrated, Becomes, Typed, trees, facts, standing, given, ghosts, InState
<1>2. intents' \in [(0..MaxHead) \X Contents -> {"none", "awaiting", "confirmed", "integrated"}]
  BY <1>0 DEF MarkIntegrated, Typed
<1>3. /\ proven \subseteq proven' /\ tasked' = tasked
      /\ applied \subseteq applied' /\ saved \subseteq saved'
      /\ side => side'
      /\ row => row'
      /\ lease' => lease
  BY <1>1
<1>4. grants[i] \in Grants /\ grants[i].uses \in Nat /\ grants \in Seq(Grants)
  BY <1>0, GrantTyped
<1>5. /\ g \in Grants /\ g.patch = grants[i].patch /\ g.uses >= grants[i].uses
      /\ grants[i].loose => g.loose
      /\ g.state # "active"
  BY <1>4, GrantWith
<1> HIDE DEF g
<1>6. Grows /\ grants' \in Seq(Grants) /\ Len(grants') = Len(grants)
  BY <1>0, <1>1, <1>3, <1>5, OneGrantGrows
<1>7. Changes(i, g)
  BY <1>0, <1>1, <1>4, <1>5, GrantChanged DEF Changes
<1>8. Typed'
  BY <1>0, <1>1, <1>2, <1>6 DEF Typed
<1> QED BY <1>1, <1>6, <1>7, <1>8 DEF Kept, g

\* A lease is not taken back.
LEMMA LeaseFalls ==
    ASSUME NEW s, lease \in BOOLEAN, lease' \in LeaseAfter(s)
    PROVE  lease' \in BOOLEAN /\ (lease' => lease)
<1>1. lease' = lease \/ lease' = FALSE
  BY DEF LeaseAfter
<1>2. lease' \in BOOLEAN
  BY <1>1, Zenon
<1>3. lease' => lease
  BY <1>1, Zenon
<1> QED BY <1>2, <1>3

\* A grant that changes to g, where everything else that grows is as it was.
LEMMA ChangeKeeps ==
    ASSUME IInv, NEW i \in 1..Len(grants), NEW g \in Grants,
           grants' = [grants EXCEPT ![i] = g],
           g.patch = grants[i].patch, g.uses >= grants[i].uses,
           grants[i].loose => g.loose,
           grants[i].state # "active" => g.state # "active",
           work' = work, proven' = proven, tasked' = tasked, policy' \in {1, 2},
           receipts' = receipts, intents' = intents, side' = side, row' = row,
           saved' = saved, applied \subseteq applied',
           canon' \in [head : 0..MaxHead, commit : 0..Foreign, held : 0..Foreign],
           lease' \in BOOLEAN, lease' => lease,
           calls' = [q \in Runtimes |-> calls'[q]],
           approvals' = [q \in Runtimes |-> approvals'[q]]
    PROVE  Kept /\ Len(grants') = Len(grants) /\ Changes(i, g)
<1>1. Typed /\ grants \in Seq(Grants)
  BY GrantTyped DEF IInv
<1>2. /\ proven \subseteq proven' /\ saved \subseteq saved'
      /\ side => side'
      /\ row => row'
  OBVIOUS
<1>3. Grows /\ grants' \in Seq(Grants) /\ Len(grants') = Len(grants)
  BY <1>1, <1>2, OneGrantGrows
<1>4. Changes(i, g)
  BY <1>1, GrantChanged DEF Changes
<1>5. Typed'
  BY <1>1, <1>3 DEF Typed
<1> QED BY <1>3, <1>4, <1>5 DEF Kept

\* A step that fails.
LEMMA StepFailsKeeps ==
    ASSUME IInv, NEW r \in Runtimes, StepFails(r)
    PROVE  LET c == calls[r]
               s == Head(c.todo)
               i == c.grant
           IN  /\ Kept /\ work' = work /\ Len(grants') = Len(grants)
               /\ \/ s \notin {"receipt", "grant", "apply"} /\ grants' = grants
                  \/ s \in {"receipt", "grant"} /\ Changes(i, Loose(grants[i]))
                  \/ s = "apply" /\ Changes(i, Loose(Used(grants[i])))
<1> DEFINE c == calls[r]
           s == Head(c.todo)
           i == c.grant
<1>0. /\ Typed /\ c # None /\ c.patch \in Contents /\ lease \in BOOLEAN
      /\ canon \in [head : 0..MaxHead, commit : 0..Foreign, held : 0..Foreign]
      /\ s \in {"receipt", "grant", "apply"} =>
            c.op = "integrate" /\ i \in 1..Len(grants) /\ grants[i] \in Grants
  BY CallTyped, StepsLeft, GrantTyped DEF IInv, StepFails, Typed
<1>1. /\ UNCHANGED <<work, proven, tasked, policy, receipts, intents, approvals, side, row, saved>>
      /\ calls' = [q \in Runtimes |-> calls'[q]]
  BY <1>0 DEF StepFails, Becomes, Ends, Typed, facts
<1>2. lease' \in BOOLEAN /\ (lease' => lease)
  BY <1>0, LeaseFalls DEF StepFails
<1>3. /\ policy' \in {1, 2} /\ approvals' = [q \in Runtimes |-> approvals'[q]]
      /\ lease => lease
  BY <1>0, <1>1 DEF Typed
<1>4. CASE s \notin {"receipt", "grant", "apply"}
  <2>1. /\ grants' = grants /\ canon' = canon /\ applied' = applied
    BY <1>4 DEF StepFails
  <2>2. /\ proven \subseteq proven' /\ saved \subseteq saved' /\ applied \subseteq applied'
        /\ side => side'
        /\ row => row'
    BY <1>1, <2>1
  <2>3. Grows
    BY <1>0, <1>1, <1>2, <2>1, <2>2, SameGrantsGrow
  <2>4. Typed'
    BY <1>0, <1>1, <1>2, <2>1 DEF Typed
  <2> QED BY <1>1, <1>4, <2>1, <2>3, <2>4 DEF Kept
<1>5. CASE s \in {"receipt", "grant"}
  <2> DEFINE g == Loose(grants[i])
  <2>1. /\ grants' = [grants EXCEPT ![i] = g] /\ canon' = canon /\ applied' = applied
    BY <1>5 DEF StepFails, Loose
  <2>2. /\ g \in Grants /\ g.patch = grants[i].patch /\ g.uses >= grants[i].uses
        /\ grants[i].loose => g.loose
        /\ g.state = grants[i].state
    BY <1>0, <1>5, GrantWith
  <2> HIDE DEF g
  <2>3. Kept /\ Len(grants') = Len(grants) /\ Changes(i, g)
    BY <1>0, <1>1, <1>2, <1>3, <1>5, <2>1, <2>2, ChangeKeeps
  <2> QED BY <1>1, <1>5, <2>3 DEF g
<1>6. CASE s = "apply"
  <2> DEFINE g == Loose(Used(grants[i]))
  <2>1. /\ grants' = [grants EXCEPT ![i] = g] /\ canon' = [canon EXCEPT !.held = c.patch]
        /\ applied \subseteq applied'
    BY <1>6 DEF StepFails, Loose, Used
  <2>2. /\ g \in Grants /\ g.patch = grants[i].patch /\ g.uses >= grants[i].uses
        /\ grants[i].loose => g.loose
        /\ g.state = grants[i].state
    <3>1. Used(grants[i]) \in Grants
      BY <1>0, <1>6, GrantWith
    <3> QED BY <1>0, <1>6, <3>1, GrantWith
  <2>3. canon' \in [head : 0..MaxHead, commit : 0..Foreign, held : 0..Foreign]
    BY <1>0, <2>1, IntegrationAssumption DEF Contents, Foreign
  <2> HIDE DEF g
  <2>4. Kept /\ Len(grants') = Len(grants) /\ Changes(i, g)
    BY <1>0, <1>1, <1>2, <1>3, <1>6, <2>1, <2>2, <2>3, ChangeKeeps
  <2> QED BY <1>1, <1>6, <2>4 DEF g
<1> QED BY <1>4, <1>5, <1>6

\* A runtime that stops; a call that had applied its patch leaves a loose grant.
LEMMA CrashKeeps ==
    ASSUME IInv, NEW r \in Runtimes, Crash(r)
    PROVE  LET c == calls[r]
               i == c.grant
           IN  /\ Kept /\ work' = work /\ Len(grants') = Len(grants)
               /\ \/ (c = None \/ ~c.done) /\ grants' = grants
                  \/ c # None /\ c.op = "integrate" /\ c.done /\ Changes(i, Loose(grants[i]))
<1> DEFINE c == calls[r]
           i == c.grant
<1>0. /\ Typed /\ lease \in BOOLEAN
      /\ canon \in [head : 0..MaxHead, commit : 0..Foreign, held : 0..Foreign]
  BY DEF IInv, Typed
<1>1. /\ UNCHANGED <<work, proven, tasked, policy, receipts, intents, side, row, saved,
                     canon, applied>>
      /\ calls' = [q \in Runtimes |-> calls'[q]]
      /\ approvals' = [q \in Runtimes |-> approvals'[q]]
  BY <1>0 DEF Crash, Typed, trees, facts, ghosts
<1>2. lease' \in BOOLEAN /\ (lease' => lease)
  BY <1>0, LeaseFalls DEF Crash
<1>3. /\ policy' \in {1, 2} /\ canon' \in [head : 0..MaxHead, commit : 0..Foreign, held : 0..Foreign]
      /\ proven \subseteq proven' /\ saved \subseteq saved' /\ applied \subseteq applied'
      /\ side => side'
      /\ row => row'
  BY <1>0, <1>1 DEF Typed
<1>4. CASE c = None \/ ~c.done
  <2>1. grants' = grants
    BY <1>4 DEF Crash
  <2>2. Grows
    BY <1>0, <1>1, <1>2, <1>3, <2>1, SameGrantsGrow
  <2>3. Typed'
    BY <1>0, <1>1, <1>2, <2>1 DEF Typed
  <2> QED BY <1>1, <1>4, <2>1, <2>2, <2>3 DEF Kept
<1>5. CASE c # None /\ c.done
  <2> DEFINE g == Loose(grants[i])
  <2>1. c.op = "integrate"
    BY <1>5, CallTyped DEF CallOK, PreflightOK
  <2>2. i \in 1..Len(grants) /\ grants[i] \in Grants
    BY <1>0, <1>5, <2>1, CallTyped, GrantTyped
  <2>3. grants' = [grants EXCEPT ![i] = g]
    BY <1>5 DEF Crash, Loose
  <2>4. /\ g \in Grants /\ g.patch = grants[i].patch /\ g.uses >= grants[i].uses
        /\ grants[i].loose => g.loose
        /\ g.state = grants[i].state
    BY <2>2, GrantWith
  <2> HIDE DEF g
  <2>5. Kept /\ Len(grants') = Len(grants) /\ Changes(i, g)
    BY <1>1, <1>2, <1>3, <2>2, <2>3, <2>4, ChangeKeeps
  <2> QED BY <1>1, <1>5, <2>1, <2>5 DEF g
<1> QED BY <1>4, <1>5

\* The policy, a grant or an approval.
LEMMA TimeKeeps ==
    ASSUME IInv, TimePasses
    PROVE  /\ Kept /\ work' = work /\ Len(grants') = Len(grants)
           /\ \/ grants' = grants
              \/ \E i \in 1..Len(grants) : Changes(i, InState(grants[i], "expired"))
<1>0. /\ Typed /\ lease \in BOOLEAN
      /\ policy \in {1, 2}
      /\ canon \in [head : 0..MaxHead, commit : 0..Foreign, held : 0..Foreign]
      /\ approvals = [q \in Runtimes |-> approvals[q]]
      /\ DOMAIN grants = 1..Len(grants)
  BY GrantTyped DEF IInv, Typed
<1>1. /\ UNCHANGED <<work, proven, tasked, receipts, intents, side, row, lease, saved,
                     canon, applied, calls>>
      /\ calls' = [q \in Runtimes |-> calls'[q]]
  BY <1>0 DEF TimePasses, Typed, trees, standing, ghosts
<1>2. approvals' = [q \in Runtimes |-> approvals'[q]]
  BY <1>0 DEF TimePasses
<1>3. policy' \in {1, 2}
  BY <1>0 DEF TimePasses
<1>4. /\ proven \subseteq proven' /\ saved \subseteq saved' /\ applied \subseteq applied'
      /\ canon' \in [head : 0..MaxHead, commit : 0..Foreign, held : 0..Foreign]
      /\ lease' \in BOOLEAN
      /\ side => side'
      /\ row => row'
      /\ lease' => lease
  BY <1>0, <1>1
<1>5. CASE grants' = grants
  <2>1. Grows
    BY <1>0, <1>1, <1>4, <1>5, SameGrantsGrow
  <2>2. Typed'
    BY <1>0, <1>1, <1>2, <1>3, <1>5 DEF Typed
  <2> QED BY <1>1, <1>5, <2>1, <2>2 DEF Kept
<1>6. ASSUME NEW i \in DOMAIN grants, grants[i].state = "active",
             grants' = [grants EXCEPT ![i].state = "expired"]
      PROVE  Kept /\ Len(grants') = Len(grants) /\ Changes(i, InState(grants[i], "expired"))
  <2> DEFINE g == InState(grants[i], "expired")
  <2>1. i \in 1..Len(grants) /\ grants[i] \in Grants
    BY <1>0, <1>6, GrantTyped
  <2>2. grants' = [grants EXCEPT ![i] = g]
    BY <1>6 DEF InState
  <2>3. /\ g \in Grants /\ g.patch = grants[i].patch /\ g.uses >= grants[i].uses
        /\ grants[i].loose => g.loose
        /\ g.state # "active"
    BY <2>1, GrantWith
  <2> HIDE DEF g
  <2>4. Kept /\ Len(grants') = Len(grants) /\ Changes(i, g)
    BY <1>1, <1>2, <1>3, <1>4, <2>1, <2>2, <2>3, ChangeKeeps
  <2> QED BY <2>4 DEF g
<1>7. \/ grants' = grants
      \/ \E i \in DOMAIN grants :
            grants[i].state = "active" /\ grants' = [grants EXCEPT ![i].state = "expired"]
  BY DEF TimePasses
<1> QED BY <1>0, <1>1, <1>5, <1>6, <1>7

-----------------------------------------------------------------------------
(* Calls and approvals.                                                     *)

\* The grants after a step.
LEMMA GrantTypedNext ==
    ASSUME Typed'
    PROVE  /\ Len(grants') \in Nat
           /\ \A i \in 1..Len(grants') : grants'[i].uses \in Nat
<1>1. grants' \in Seq(Grants)
  BY DEF Typed
<1>2. \A i \in 1..Len(grants') : grants'[i] \in Grants
  BY <1>1
<1>3. \A g \in Grants : g.uses \in Nat
  BY DEF Grants
<1> QED BY <1>1, <1>2, <1>3

\* What an integration has established holds after a step that leaves it alone.
LEMMA IntegrationStays ==
    ASSUME IInv, Kept, NEW q \in Runtimes, NEW n \in 1..12,
           IntegrationOK(calls[q], n), calls'[q] = calls[q]
    PROVE  IntegrationOK(calls[q], n)'
<1> DEFINE c == calls[q]
           i == c.grant
<1>1. /\ i \in 1..Len(grants) /\ Len(grants) \in Nat /\ grants[i].uses \in Nat
      /\ ApprovalOK(c.approval)
  BY GrantTyped DEF IntegrationOK, IInv
<1>2. /\ i \in 1..Len(grants') /\ grants'[i].uses \in Nat
      /\ grants'[i].uses >= grants[i].uses /\ grants'[i].patch = grants[i].patch
      /\ grants[i].loose => grants'[i].loose
      /\ grants[i].state # "active" => grants'[i].state # "active"
  BY <1>1, GrantTypedNext DEF Kept, Grows
<1>3. ApprovalOK(c.approval)'
  BY <1>1 DEF ApprovalOK, Kept, Grows
<1>4. /\ proven \subseteq proven' /\ tasked' = tasked /\ applied \subseteq applied'
      /\ saved \subseteq saved'
      /\ side => side'
      /\ row => row'
  BY DEF Kept, Grows
<1>5. Backed(c) => Backed(c)'
  <2>1. c' = c
    OBVIOUS
  <2> QED BY <1>4, <2>1 DEF Backed
<1>6. c' = c /\ i' = i
  OBVIOUS
<1>7. c.patch \in {a.patch : a \in applied} => c.patch \in {a.patch : a \in applied'}
  BY <1>4
<1>8. grants[i].uses > 0 => grants'[i].uses > 0
  BY <1>1, <1>2
<1>9. /\ grants'[i].patch = c.approval.patch
      /\ n <= 8 => c.ready
      /\ n \in 8..9 /\ c.ready => c.patch \in proven' \/ (c.raced /\ tasked')
      /\ n <= 7 => Backed(c)'
      /\ c.done <=> n <= 5
  BY <1>2, <1>4, <1>5 DEF IntegrationOK
<1>10. n <= 5 => grants'[i].uses > 0 /\ c.patch \in {a.patch : a \in applied'}
  BY <1>7, <1>8 DEF IntegrationOK
<1>11. /\ n <= 4 => c.patch \in saved'
       /\ n <= 3 => grants'[i].state # "active" \/ grants'[i].loose
       /\ n <= 2 => side'
       /\ n <= 1 => row'
  BY <1>2, <1>4 DEF IntegrationOK
<1> QED BY <1>2, <1>3, <1>6, <1>9, <1>10, <1>11 DEF IntegrationOK

\* A call that is left alone keeps what it has established.
LEMMA WaitingOK ==
    ASSUME IInv, Kept, work' = work, NEW q \in Runtimes,
           calls[q] # None, calls'[q] = calls[q]
    PROVE  CallOK(calls[q])'
<1> DEFINE c == calls[q]
           n == Len(c.todo)
<1>1. CallOK(c) /\ n \in 1..Size(c) /\ n \in 1..12
  <2>1. CallOK(c) /\ n \in 1..Size(c)
    BY DEF IInv, CallsOK, CallOK, Planned
  <2>2. Size(c) = 12 \/ Size(c) = 4
    BY DEF Size
  <2> QED BY <2>1, <2>2, CountDown
<1>2. CASE c.op = "integrate"
  <2>1. IntegrationOK(c, n)'
    BY <1>1, <1>2, IntegrationStays DEF CallOK
  <2> QED BY <1>1, <1>2, <2>1 DEF CallOK, Size
<1>3. CASE c.op # "integrate"
  <2>1. PreflightOK(c, n)
    BY <1>1, <1>3 DEF CallOK
  <2>2. PreflightOK(c, n)'
    BY <2>1 DEF PreflightOK, Kept, Grows
  <2> QED BY <1>1, <1>3, <2>2 DEF CallOK, Size
<1> QED BY <1>2, <1>3

\* A call goes on with its next step, or it has none.
LEMMA Advances ==
    ASSUME IInv, NEW r \in Runtimes, calls[r] # None,
           NEW d \in CallRecords, Becomes(r, d), d.op = calls[r].op, d.todo = calls[r].todo
    PROVE  LET n == Len(calls[r].todo)
               e == calls'[r]
           IN  /\ \A q \in Runtimes \ {r} : calls'[q] = calls[q]
               /\ n = 1 => e = None
               /\ n # 1 =>
                     /\ e # None /\ e \in CallRecords
                     /\ Planned(e) /\ Len(e.todo) = n - 1
                     /\ e.op = d.op /\ e.patch = d.patch /\ e.again = d.again /\ e.head = d.head
                     /\ e.ready = d.ready /\ e.approval = d.approval /\ e.grant = d.grant
                     /\ e.raced = d.raced /\ e.done = d.done
<1> DEFINE c == calls[r]
           n == Len(c.todo)
           f == [d EXCEPT !.todo = Tail(@)]
<1>1. CallOK(c) /\ n \in 1..Size(c)
  BY DEF IInv, CallsOK, CallOK, Planned
<1>2. calls' = [calls EXCEPT ![r] = IF n = 1 THEN None ELSE f]
  BY <1>1, OneLess DEF Becomes
<1>3. calls = [q \in Runtimes |-> calls[q]]
  BY DEF IInv, Typed
<1>4. CASE n = 1
  BY <1>2, <1>3, <1>4
<1>5. CASE n # 1
  <2>1. Tail(c.todo) \in Seq(Steps)
    BY <1>1, <1>5, OneLess
  <2>2. /\ f \in CallRecords /\ f.todo = Tail(c.todo) /\ f.op = d.op /\ f.patch = d.patch
        /\ f.again = d.again /\ f.head = d.head /\ f.approval = d.approval /\ f.grant = d.grant
    BY <2>1 DEF CallRecords
  <2>3. f.ready = d.ready /\ f.raced = d.raced /\ f.done = d.done
    BY DEF CallRecords
  <2>4. f # None
    BY <2>2, NamesAssumption
  <2>5. Size(f) = Size(c)
    BY <2>2 DEF Size
  <2>6. n - 1 \in 1..Size(c)
    <3>1. Size(c) = 12 \/ Size(c) = 4
      BY DEF Size
    <3> QED BY <1>1, <1>5, <3>1, CountDown
  <2>7. /\ calls'[r] = f
        /\ \A q \in Runtimes \ {r} : calls'[q] = calls[q]
    BY <1>2, <1>3, <1>5
  <2> HIDE DEF f, n
  <2>8. f.todo = Part(Size(f), n - 1) /\ Len(f.todo) = n - 1
    BY <1>1, <2>2, <2>5, OneLess DEF n
  <2>9. Planned(f)
    BY <2>5, <2>6, <2>8 DEF Planned
  <2> QED BY <1>5, <2>2, <2>3, <2>4, <2>7, <2>8, <2>9 DEF n
<1> QED BY <1>4, <1>5

\* The step of one runtime: the calls of the others wait.
LEMMA OneMoves ==
    ASSUME IInv, Kept, work' = work, NEW r \in Runtimes,
           \A q \in Runtimes \ {r} : calls'[q] = calls[q],
           calls'[r] # None => CallOK(calls[r])'
    PROVE  CallsOK'
  BY WaitingOK DEF CallsOK

\* What an integration takes along to its next step.
LEMMA IntegrationGoesOn ==
    ASSUME IInv, Kept, NEW r \in Runtimes, calls[r] # None, calls[r].op = "integrate",
           calls'[r].approval = calls[r].approval, calls'[r].grant = calls[r].grant
    PROVE  LET c == calls[r]
               e == calls'[r]
               i == c.grant
           IN  /\ IntegrationOK(c, Len(c.todo)) /\ Len(c.todo) \in 1..12
               /\ ApprovalOK(calls[r].approval)'
               /\ i \in 1..Len(grants) /\ i \in 1..Len(grants')
               /\ grants[i].uses \in Nat /\ grants'[i].uses \in Nat
               /\ grants'[i].uses >= grants[i].uses
               /\ grants'[i].patch = c.approval.patch
               /\ grants[i].loose => grants'[i].loose
               /\ grants[i].state # "active" => grants'[i].state # "active"
               /\ proven \subseteq proven' /\ tasked' = tasked /\ applied \subseteq applied'
               /\ saved \subseteq saved'
               /\ side => side'
               /\ row => row'
<1> DEFINE c == calls[r]
           n == Len(c.todo)
           i == c.grant
<1>1. CallOK(c) /\ IntegrationOK(c, n)
  BY CallTyped
<1>2. n \in 1..12
  BY <1>1 DEF CallOK, Planned, Size
<1>3. /\ i \in 1..Len(grants) /\ Len(grants) \in Nat /\ grants[i].uses \in Nat
      /\ ApprovalOK(c.approval) /\ grants[i].patch = c.approval.patch
  BY <1>1, GrantTyped DEF IntegrationOK, IInv
<1>4. /\ i \in 1..Len(grants') /\ grants'[i].uses \in Nat
      /\ grants'[i].uses >= grants[i].uses /\ grants'[i].patch = grants[i].patch
      /\ grants[i].loose => grants'[i].loose
      /\ grants[i].state # "active" => grants'[i].state # "active"
  BY <1>3, GrantTypedNext DEF Kept, Grows
<1>5. ApprovalOK(calls[r].approval)'
  BY <1>3 DEF ApprovalOK, Kept, Grows
<1>6. /\ proven \subseteq proven' /\ tasked' = tasked /\ applied \subseteq applied'
      /\ saved \subseteq saved'
      /\ side => side'
      /\ row => row'
  BY DEF Kept, Grows
<1> QED BY <1>1, <1>2, <1>3, <1>4, <1>5, <1>6

\* One of the first three steps, which look and establish what the next ones need.
Looked(c, d) ==
    LET n == Len(c.todo)
        m == Size(c)
    IN  /\ n \in {m, m - 1, m - 2}
        /\ n = m => d.again = d.patch \/ d.raced
        /\ n < m => d.again = c.again
        /\ n = m - 2 /\ d.ready => d.patch \in proven \/ (d.raced /\ tasked)

LEMMA LookMoves ==
    ASSUME IInv, Kept, work' = work, NEW r \in Runtimes, calls[r] # None,
           NEW d \in CallRecords, Becomes(r, d),
           d.op = calls[r].op, d.todo = calls[r].todo, d.patch = calls[r].patch,
           d.grant = calls[r].grant, d.approval = calls[r].approval,
           d.raced = calls[r].raced, d.done = calls[r].done, Looked(calls[r], d)
    PROVE  CallsOK'
<1> DEFINE c == calls[r]
           n == Len(c.todo)
           m == Size(c)
           e == calls'[r]
<1>0. /\ CallOK(c) /\ c # None /\ (c.raced \/ c.patch = work) /\ n \in 1..m
      /\ m = IF c.op = "integrate" THEN 12 ELSE 4
  BY CallTyped DEF CallOK, Planned, Size
<1>5. /\ n \in {m, m - 1, m - 2}
      /\ n = m => d.again = d.patch \/ d.raced
      /\ n < m => d.again = c.again
      /\ n = m - 2 /\ d.ready => d.patch \in proven \/ (d.raced /\ tasked)
  BY DEF Looked
<1>6. m = Size(c) /\ n = Len(c.todo)
  OBVIOUS
<1> HIDE DEF m, n
<1>1. n # 1
  BY <1>0, <1>5
<1>2. /\ \A q \in Runtimes \ {r} : calls'[q] = calls[q]
      /\ e # None /\ e \in CallRecords
      /\ Planned(e) /\ Len(e.todo) = n - 1
      /\ e.op = c.op /\ e.patch = c.patch /\ e.again = d.again /\ e.ready = d.ready
      /\ e.approval = c.approval /\ e.grant = c.grant /\ e.raced = c.raced /\ e.done = c.done
  BY <1>1, Advances DEF n
<1> SUFFICES CallOK(calls[r])'
  BY <1>2, OneMoves
<1>3. CASE c.op = "integrate"
  <2>1. n \in {12, 11, 10} /\ m = 12
    BY <1>0, <1>3, <1>5
  <2>2. /\ IntegrationOK(c, n)
        /\ ApprovalOK(calls[r].approval)'
        /\ c.grant \in 1..Len(grants') /\ grants'[c.grant].patch = c.approval.patch
        /\ proven \subseteq proven' /\ tasked' = tasked
    BY <1>0, <1>2, <1>3, IntegrationGoesOn DEF n
  <2>3. ~c.done
    BY <2>1, <2>2 DEF IntegrationOK
  <2>4. IntegrationOK(calls[r], Len(calls[r].todo))'
    <3>1. Len(e.todo) \in {11, 10, 9}
      BY <1>2, <2>1
    <3>2. Len(e.todo) = 9 /\ e.ready => e.patch \in proven' \/ (e.raced /\ tasked')
      <4>0. n - 1 = 9 => n = m - 2
        BY <2>1
      <4>1. Len(e.todo) = 9 => n = m - 2
        BY <1>2, <4>0
      <4>2. n = m - 2 /\ d.ready => c.patch \in proven \/ (c.raced /\ tasked)
        BY <1>5
      <4> QED BY <1>2, <2>2, <4>1, <4>2
    <3> QED BY <1>2, <2>2, <2>3, <3>1, <3>2 DEF IntegrationOK
  <2> QED BY <1>0, <1>2, <1>3, <2>4 DEF CallOK
<1>4. CASE c.op # "integrate"
  <2>1. n \in {4, 3, 2} /\ m = 4
    BY <1>0, <1>4, <1>5
  <2>2. PreflightOK(c, n) /\ proven \subseteq proven' /\ tasked' = tasked
    BY <1>0, <1>4, <1>6 DEF CallOK, Kept, Grows
  <2>3. PreflightOK(calls[r], Len(calls[r].todo))'
    <3>0. Len(e.todo) \in {3, 2, 1}
      BY <1>2, <2>1
    <3>1. e.again = e.patch \/ e.raced
      BY <1>2, <1>5, <2>1, <2>2 DEF PreflightOK
    <3>2. Len(e.todo) = 1 /\ e.ready => e.patch \in proven' \/ (e.raced /\ tasked')
      <4>0. n - 1 = 1 => n = m - 2
        BY <2>1
      <4>1. Len(e.todo) = 1 => n = m - 2
        BY <1>2, <4>0
      <4>2. n = m - 2 /\ d.ready => c.patch \in proven \/ (c.raced /\ tasked)
        BY <1>5
      <4> QED BY <1>2, <2>2, <4>1, <4>2
    <3> QED BY <1>2, <2>2, <3>0, <3>1, <3>2 DEF PreflightOK
  <2> QED BY <1>0, <1>2, <1>4, <2>3 DEF CallOK
<1> QED BY <1>3, <1>4

\* The first three looks.
LEMMA LooksMove ==
    ASSUME IInv, NEW r \in Runtimes, LookCanonical(r) \/ LookSubsumed(r) \/ LookEvidence(r)
    PROVE  CallsOK'
<1> DEFINE c == calls[r]
           n == Len(c.todo)
<1>0. /\ Kept /\ work' = work /\ c # None /\ CallOK(c) /\ c \in CallRecords /\ c.patch \in Contents
      /\ Typed /\ work \in Contents /\ canon.head \in 0..MaxHead
      /\ c.raced \/ c.patch = work
      /\ Size(c) \in {4, 12}
  BY LooksKeep, CallTyped DEF LookCanonical, LookSubsumed, LookEvidence, At, IInv, Typed, CallOK, Size
<1>1. CASE LookCanonical(r)
  <2> DEFINE b == IF base = "head" THEN ReadyAtHead(work) ELSE ReadySinceSnapshot(work)
             d == [c EXCEPT !.again = work, !.head = canon.head, !.ready = b]
  <2>1. b \in BOOLEAN
    BY DEF ReadyAtHead, ReadySinceSnapshot
  <2>2. /\ d \in CallRecords /\ d.op = c.op /\ d.todo = c.todo /\ d.patch = c.patch
        /\ d.again = work /\ d.grant = c.grant /\ d.approval = c.approval
    BY <1>0, <2>1 DEF CallRecords
  <2>3. d.raced = c.raced /\ d.done = c.done
    BY <1>0 DEF CallRecords
  <2>4. Becomes(r, d) /\ n = Size(c)
    BY <1>1, <1>0, StepsLeft DEF LookCanonical, At
  <2> HIDE DEF d
  <2>5. Looked(c, d)
    <3>1. Size(c) = 4 \/ Size(c) = 12
      BY DEF Size
    <3> QED BY <1>0, <2>2, <2>3, <2>4, <3>1 DEF Looked
  <2> QED BY <1>0, <2>2, <2>3, <2>4, <2>5, LookMoves
<1>2. CASE LookEvidence(r)
  <2> DEFINE b == c.ready /\ c.patch # 0 /\ Evidence(work, c.patch)
             d == [c EXCEPT !.ready = b]
  <2>1. b \in BOOLEAN
    OBVIOUS
  <2>2. /\ d \in CallRecords /\ d.op = c.op /\ d.todo = c.todo /\ d.patch = c.patch
        /\ d.again = c.again /\ d.grant = c.grant /\ d.approval = c.approval
    BY <1>0, <2>1 DEF CallRecords
  <2>3. d.raced = c.raced /\ d.done = c.done
    BY <1>0 DEF CallRecords
  <2>4. d.ready => Evidence(work, c.patch)
    BY <1>0 DEF CallRecords
  <2>5. Becomes(r, d) /\ n = Size(c) - 2
    BY <1>2, <1>0, StepsLeft DEF LookEvidence, At
  <2>6. d.ready => d.patch \in proven \/ (d.raced /\ tasked)
    BY <1>0, <2>2, <2>3, <2>4 DEF Evidence
  <2> HIDE DEF d
  <2>7. Looked(c, d)
    <3>1. Size(c) = 4 \/ Size(c) = 12
      BY DEF Size
    <3> QED BY <1>0, <2>2, <2>3, <2>5, <2>6, <3>1 DEF Looked
  <2> QED BY <1>0, <2>2, <2>3, <2>5, <2>7, LookMoves
<1>3. CASE LookSubsumed(r)
  <2>1. CASE Becomes(r, c)
    <3>1. n = Size(c) - 1
      BY <1>3, <1>0, StepsLeft DEF LookSubsumed, At
    <3>2. Looked(c, c)
      <4>1. Size(c) = 4 \/ Size(c) = 12
        BY DEF Size
      <4> QED BY <3>1, <4>1 DEF Looked
    <3> QED BY <1>0, <2>1, <3>2, LookMoves
  <2>2. CASE calls' = [calls EXCEPT ![r] = None]
    <3>1. calls'[r] = None /\ \A q \in Runtimes \ {r} : calls'[q] = calls[q]
      BY <1>0, <2>2 DEF Typed
    <3> QED BY <1>0, <3>1, OneMoves
  <2> QED BY <1>3, <2>1, <2>2 DEF LookSubsumed, Ends
<1> QED BY <1>1, <1>2, <1>3

\* A call that ends leaves the others waiting.
LEMMA EndMoves ==
    ASSUME IInv, Kept, work' = work, NEW r \in Runtimes, calls' = [calls EXCEPT ![r] = None]
    PROVE  CallsOK'
<1>1. calls'[r] = None /\ \A q \in Runtimes \ {r} : calls'[q] = calls[q]
  BY DEF IInv, Typed
<1> QED BY <1>1, OneMoves

\* Calls that are all left alone.
LEMMA NoneMoves ==
    ASSUME IInv, Kept, work' = work, calls' = calls
    PROVE  CallsOK'
  BY WaitingOK DEF CallsOK

\* What d takes over from c.
Follows(d, c) ==
    /\ d \in CallRecords /\ d.op = c.op /\ d.todo = c.todo /\ d.grant = c.grant
    /\ d.approval = c.approval /\ d.raced = c.raced /\ d.ready = c.ready

\* The call of an integration after one of its later steps, which leaves d.
Arrived(e, d, c) ==
    /\ e.patch = d.patch /\ e.done = d.done /\ e.grant = c.grant /\ e.approval = c.approval
    /\ e.raced = c.raced /\ e.ready = c.ready
    /\ e.grant \in 1..Len(grants') /\ grants'[e.grant].patch = e.approval.patch

Stepped(r, d) ==
    LET c == calls[r]
        e == calls'[r]
    IN  /\ \A q \in Runtimes \ {r} : calls'[q] = calls[q]
        /\ e \in CallRecords /\ Planned(e) /\ e.op = "integrate"
        /\ Len(e.todo) = Len(c.todo) - 1
        /\ Arrived(e, d, c)
        /\ ApprovalOK(calls[r].approval)'

\* An integration after one of its later steps: what is common to all of them.
LEMMA IntegrationMoves ==
    ASSUME IInv, Kept, NEW r \in Runtimes, calls[r] # None, calls[r].op = "integrate",
           NEW d, Becomes(r, d), Follows(d, calls[r]), Len(calls[r].todo) # 1
    PROVE  Stepped(r, d)
<1> DEFINE c == calls[r]
           e == calls'[r]
<1>1. /\ d \in CallRecords /\ d.op = c.op /\ d.todo = c.todo /\ d.grant = c.grant
      /\ d.approval = c.approval /\ d.raced = c.raced /\ d.ready = c.ready
  BY DEF Follows
<1>2. /\ \A q \in Runtimes \ {r} : calls'[q] = calls[q]
      /\ e \in CallRecords /\ Planned(e) /\ Len(e.todo) = Len(c.todo) - 1
      /\ e.op = d.op /\ e.patch = d.patch /\ e.ready = d.ready
      /\ e.approval = d.approval /\ e.grant = d.grant /\ e.raced = d.raced /\ e.done = d.done
  BY <1>1, Advances
<1>3. e.approval = c.approval /\ e.grant = c.grant
  BY <1>1, <1>2
<1>4. /\ ApprovalOK(calls[r].approval)'
      /\ c.grant \in 1..Len(grants') /\ grants'[c.grant].patch = c.approval.patch
  BY <1>3, IntegrationGoesOn
<1>5. Arrived(e, d, c)
  BY <1>1, <1>2, <1>4 DEF Arrived
<1> QED BY <1>1, <1>2, <1>4, <1>5 DEF Stepped

\* What such a step has to establish.
LEMMA IntegrationArrives ==
    ASSUME IInv, Kept, work' = work, NEW r \in Runtimes, calls[r] # None,
           calls[r].op = "integrate", NEW d, Stepped(r, d), d.patch \in {calls[r].patch, work},
           NEW k \in 1..8, Len(calls[r].todo) = k + 1,
           ApprovalOK(calls[r].approval)' => IntegrationOK(calls[r], k)'
    PROVE  CallsOK'
<1>1. CallOK(calls[r])
  BY CallTyped
<1>2. calls[r].raced \/ calls[r].patch = work
  BY <1>1 DEF CallOK
<1>3. calls'[r].patch = d.patch /\ calls'[r].raced = calls[r].raced
  BY DEF Stepped, Arrived
<1>4. calls'[r].raced \/ calls'[r].patch = work
  BY <1>2, <1>3
<1>5. /\ calls'[r] \in CallRecords /\ Planned(calls'[r]) /\ calls'[r].op = "integrate"
      /\ Len(calls'[r].todo) = Len(calls[r].todo) - 1
      /\ ApprovalOK(calls[r].approval)'
      /\ \A q \in Runtimes \ {r} : calls'[q] = calls[q]
  BY DEF Stepped
<1>6. Len(calls'[r].todo) = k
  BY <1>5
<1>7. CallOK(calls[r])'
  BY <1>4, <1>5, <1>6 DEF CallOK
<1> QED BY <1>5, <1>7, OneMoves

\* A patch that is backed stays so.
LEMMA BackedStays ==
    ASSUME Kept, NEW r \in Runtimes, NEW d, d.patch = calls[r].patch, Backed(calls[r]),
           Arrived(calls'[r], d, calls[r])
    PROVE  Backed(calls[r])'
<1>1. proven \subseteq proven' /\ tasked' = tasked
  BY DEF Kept, Grows
<1>2. /\ calls'[r].patch = calls[r].patch /\ calls'[r].approval = calls[r].approval
      /\ calls'[r].raced = calls[r].raced
  BY DEF Arrived
<1> QED BY <1>1, <1>2 DEF Backed

\* The application of the patch.
LEMMA GitApplyMoves ==
    ASSUME IInv, NEW r \in Runtimes, GitApply(r)
    PROVE  CallsOK'
<1> DEFINE c == calls[r]
           e == calls'[r]
           d == [c EXCEPT !.done = TRUE]
<1>1. Kept /\ work' = work /\ c # None /\ CallOK(c) /\ c \in CallRecords
  BY GitApplyKeeps, CallTyped DEF GitApply, At
<1>2. c.op = "integrate" /\ Len(c.todo) = 6
  BY <1>1, StepsLeft DEF GitApply, At
<1>3. IntegrationOK(c, 6)
  BY <1>1, <1>2, CallTyped
<1>4. CASE Ends(r, "refused", c)
  BY <1>1, <1>4, EndMoves DEF Ends
<1>5. CASE ~Ends(r, "refused", c)
  <2>1. /\ Becomes(r, d) /\ applied' = applied \cup {Application(c)}
        /\ grants' = [grants EXCEPT ![c.grant].uses = @ + 1]
    BY <1>5 DEF GitApply
  <2>2. d.patch = c.patch
    BY <1>1 DEF CallRecords
  <2>3. d.done
    BY <1>1 DEF CallRecords
  <2>4. Follows(d, c)
    <3>1. d \in CallRecords /\ d.op = c.op /\ d.todo = c.todo /\ d.grant = c.grant
      BY <1>1 DEF CallRecords
    <3>2. d.approval = c.approval
      BY <1>1 DEF CallRecords
    <3>3. d.raced = c.raced /\ d.ready = c.ready
      BY <1>1 DEF CallRecords
    <3> QED BY <3>1, <3>2, <3>3 DEF Follows
  <2> HIDE DEF d
  <2>5. Stepped(r, d)
    <3>1. Len(calls[r].todo) # 1
      BY <1>2
    <3> QED BY <1>1, <1>2, <2>1, <2>4, <3>1, IntegrationMoves
  <2>6. Arrived(e, d, c)
    BY <2>5 DEF Stepped
  <2>7. Backed(calls[r])'
    BY <1>1, <1>3, <2>2, <2>6, BackedStays DEF IntegrationOK
  <2>8. grants'[c.grant].uses > 0
    <3>1. c.grant \in 1..Len(grants) /\ grants[c.grant].uses \in Nat
      BY <1>3, GrantTyped DEF IntegrationOK, IInv
    <3>2. grants'[c.grant].uses = grants[c.grant].uses + 1
      <4>1. grants \in Seq(Grants) /\ grants[c.grant] \in Grants
        BY <3>1, GrantTyped DEF IInv
      <4> QED BY <2>1, <3>1, <4>1 DEF Grants
    <3> QED BY <3>1, <3>2
  <2>9. e.patch \in {a.patch : a \in applied'}
    <3>1. Application(c).patch = c.patch
      BY DEF Application
    <3> QED BY <2>1, <2>2, <2>6, <3>1 DEF Arrived
  <2>10. e.ready
    BY <1>3, <2>6 DEF IntegrationOK, Arrived
  <2>11. ApprovalOK(calls[r].approval)' => IntegrationOK(calls[r], 5)'
    BY <2>3, <2>6, <2>7, <2>8, <2>9, <2>10 DEF IntegrationOK, Arrived
  <2> QED BY <1>1, <1>2, <2>2, <2>5, <2>11, IntegrationArrives
<1> QED BY <1>4, <1>5

\* A step that leaves its call as it is.
LEMMA SameMoves ==
    ASSUME IInv, Kept, NEW r \in Runtimes, calls[r] # None, calls[r].op = "integrate",
           Becomes(r, calls[r]), Len(calls[r].todo) # 1
    PROVE  Stepped(r, calls[r]) /\ Arrived(calls'[r], calls[r], calls[r])
<1>1. calls[r] \in CallRecords
  BY CallTyped
<1>2. Follows(calls[r], calls[r])
  BY <1>1 DEF Follows
<1>3. Stepped(r, calls[r])
  BY <1>2, IntegrationMoves
<1> QED BY <1>3 DEF Stepped

\* The preflight of an integration: its patch has been proven, or edited.
LEMMA ConcludeMoves ==
    ASSUME IInv, NEW r \in Runtimes, Conclude(r)
    PROVE  CallsOK'
<1> DEFINE c == calls[r]
           e == calls'[r]
<1>1. Kept /\ work' = work /\ c # None /\ CallOK(c)
  BY LooksKeep, CallTyped DEF Conclude, At
<1>2. CASE Ends(r, "refused", c)
  BY <1>1, <1>2, EndMoves DEF Ends
<1>3. CASE ~Ends(r, "refused", c)
  <2>1. Becomes(r, c) /\ c.op = "integrate" /\ c.ready
    BY <1>3 DEF Conclude
  <2>2. Len(c.todo) = 9
    <3>1. Len(c.todo) = Size(c) - 3
      BY <1>1, StepsLeft DEF Conclude, At
    <3> QED BY <2>1, <3>1 DEF Size
  <2>3. IntegrationOK(c, 9)
    BY <1>1, <2>1, <2>2, CallTyped
  <2>4. Stepped(r, c) /\ Arrived(e, c, c)
    BY <1>1, <2>1, <2>2, SameMoves
  <2>5. e.patch \in proven' \/ (e.raced /\ tasked')
    <3>1. c.patch \in proven \/ (c.raced /\ tasked)
      BY <2>1, <2>3 DEF IntegrationOK
    <3>2. proven \subseteq proven' /\ tasked' = tasked
      BY <1>1 DEF Kept, Grows
    <3> QED BY <2>4, <3>1, <3>2 DEF Arrived
  <2>6. ~e.done /\ e.ready
    BY <2>1, <2>3, <2>4 DEF IntegrationOK, Arrived
  <2>7. ApprovalOK(calls[r].approval)' => IntegrationOK(calls[r], 8)'
    BY <2>4, <2>5, <2>6 DEF IntegrationOK, Arrived
  <2> QED BY <1>1, <2>1, <2>2, <2>4, <2>7, IntegrationArrives
<1> QED BY <1>2, <1>3

\* The second diff: its patch is the approved one, and the one the preflight has
\* found proven unless the worktree was edited.
LEMMA RediffMoves ==
    ASSUME IInv, NEW r \in Runtimes, Rediff(r)
    PROVE  CallsOK'
<1> DEFINE c == calls[r]
           e == calls'[r]
           d == [c EXCEPT !.patch = work]
<1>1. Kept /\ work' = work /\ c # None /\ CallOK(c) /\ c \in CallRecords /\ work \in Contents
  BY LooksKeep, CallTyped DEF Rediff, At, IInv, Typed
<1>2. c.op = "integrate" /\ Len(c.todo) = 8
  BY <1>1, StepsLeft DEF Rediff, At
<1>3. IntegrationOK(c, 8)
  BY <1>1, <1>2, CallTyped
<1>4. CASE Ends(r, "refused", c)
  BY <1>1, <1>4, EndMoves DEF Ends
<1>5. CASE ~Ends(r, "refused", c)
  <2>1. Becomes(r, d) /\ work = c.approval.patch
    BY <1>5 DEF Rediff, StillApproved
  <2>2. d.patch = work
    BY <1>1 DEF CallRecords
  <2>3. d.done = c.done
    BY <1>1 DEF CallRecords
  <2>4. Follows(d, c)
    <3>1. d \in CallRecords /\ d.op = c.op /\ d.todo = c.todo /\ d.grant = c.grant
      BY <1>1 DEF CallRecords
    <3>2. d.approval = c.approval
      BY <1>1 DEF CallRecords
    <3>3. d.raced = c.raced /\ d.ready = c.ready
      BY <1>1 DEF CallRecords
    <3> QED BY <3>1, <3>2, <3>3 DEF Follows
  <2> HIDE DEF d
  <2>5. Stepped(r, d)
    <3>1. Len(calls[r].todo) # 1
      BY <1>2
    <3> QED BY <1>1, <1>2, <2>1, <2>4, <3>1, IntegrationMoves
  <2>6. Arrived(e, d, c)
    BY <2>5 DEF Stepped
  <2>7. Backed(calls[r])'
    <3>1. /\ e.patch = work /\ e.raced = c.raced /\ e.approval = c.approval
          /\ proven \subseteq proven' /\ tasked' = tasked
      BY <1>1, <2>2, <2>6 DEF Arrived, Kept, Grows
    <3>2. c.patch \in proven \/ (c.raced /\ tasked)
      BY <1>3 DEF IntegrationOK
    <3>3. c.raced \/ c.patch = work
      BY <1>1 DEF CallOK
    <3>4. /\ c.approval.first => c.approval.patch \in proven \/ (c.approval.raced /\ tasked)
          /\ ~c.approval.first => c.approval.raced
      BY <1>3 DEF IntegrationOK, ApprovalOK
    <3> QED BY <2>1, <3>1, <3>2, <3>3, <3>4 DEF Backed
  <2>8. e.ready /\ ~e.done
    BY <1>3, <2>3, <2>6 DEF IntegrationOK, Arrived
  <2>9. ApprovalOK(calls[r].approval)' => IntegrationOK(calls[r], 7)'
    BY <2>6, <2>7, <2>8 DEF IntegrationOK, Arrived
  <2> QED BY <1>1, <1>2, <2>2, <2>5, <2>9, IntegrationArrives
<1> QED BY <1>4, <1>5

\* The checks of the checkout.
LEMMA CheckCanonicalMoves ==
    ASSUME IInv, NEW r \in Runtimes, CheckCanonical(r)
    PROVE  CallsOK'
<1> DEFINE c == calls[r]
           e == calls'[r]
<1>1. Kept /\ work' = work /\ c # None /\ CallOK(c)
  BY LooksKeep, CallTyped DEF CheckCanonical, At
<1>2. c.op = "integrate" /\ Len(c.todo) = 7
  BY <1>1, StepsLeft DEF CheckCanonical, At
<1>3. IntegrationOK(c, 7)
  BY <1>1, <1>2, CallTyped
<1>4. CASE Ends(r, "refused", c)
  BY <1>1, <1>4, EndMoves DEF Ends
<1>5. CASE Becomes(r, c)
  <2>1. Stepped(r, c) /\ Arrived(e, c, c)
    BY <1>1, <1>2, <1>5, SameMoves
  <2>2. Backed(calls[r])'
    BY <1>1, <1>3, <2>1, BackedStays DEF IntegrationOK
  <2>3. e.ready /\ ~e.done
    BY <1>3, <2>1 DEF IntegrationOK, Arrived
  <2>4. ApprovalOK(calls[r].approval)' => IntegrationOK(calls[r], 6)'
    BY <2>1, <2>2, <2>3 DEF IntegrationOK, Arrived
  <2> QED BY <1>1, <1>2, <2>1, <2>4, IntegrationArrives
<1> QED BY <1>4, <1>5 DEF CheckCanonical

\* What the records that follow the application find established, and leave so.
LEMMA AfterPatch ==
    ASSUME IInv, Kept, NEW r \in Runtimes, calls[r] # None, calls[r].op = "integrate",
           NEW n \in 2..5, Len(calls[r].todo) = n,
           Arrived(calls'[r], calls[r], calls[r])
    PROVE  /\ calls'[r].ready /\ calls'[r].done /\ Backed(calls[r])'
           /\ grants'[calls'[r].grant].uses > 0
           /\ calls'[r].patch \in {a.patch : a \in applied'}
           /\ n <= 4 => calls'[r].patch \in saved'
           /\ n <= 3 => grants'[calls'[r].grant].state # "active" \/ grants'[calls'[r].grant].loose
           /\ n <= 2 => side'
<1> DEFINE c == calls[r]
           e == calls'[r]
<1>0. n \in 1..12 /\ n <= 5
  OBVIOUS
<1>1. IntegrationOK(c, n)
  BY CallTyped
<1>2. /\ c.ready /\ c.done /\ Backed(c)
      /\ grants[c.grant].uses > 0 /\ c.patch \in {a.patch : a \in applied}
  BY <1>0, <1>1 DEF IntegrationOK
<1>3. /\ n <= 4 => c.patch \in saved
      /\ n <= 3 => grants[c.grant].state # "active" \/ grants[c.grant].loose
      /\ n <= 2 => side
  BY <1>0, <1>1 DEF IntegrationOK
<1>4. e.patch = c.patch /\ e.done = c.done /\ e.grant = c.grant /\ e.ready = c.ready
      /\ e.approval = c.approval
  BY DEF Arrived
<1>5. /\ grants[c.grant].uses \in Nat /\ grants'[c.grant].uses \in Nat
      /\ grants'[c.grant].uses >= grants[c.grant].uses
      /\ grants[c.grant].loose => grants'[c.grant].loose
      /\ grants[c.grant].state # "active" => grants'[c.grant].state # "active"
      /\ applied \subseteq applied' /\ saved \subseteq saved'
      /\ side => side'
  BY <1>4, IntegrationGoesOn
<1>6. Backed(calls[r])'
  BY <1>2, BackedStays
<1>7. grants'[c.grant].uses > 0
  BY <1>2, <1>5
<1> QED BY <1>2, <1>3, <1>4, <1>5, <1>6, <1>7

\* The receipt of the application.
LEMMA SaveAppliedMoves ==
    ASSUME IInv, NEW r \in Runtimes, SaveApplied(r)
    PROVE  CallsOK'
<1> DEFINE c == calls[r]
           e == calls'[r]
<1>1. Kept /\ work' = work /\ c # None /\ CallOK(c)
  BY RecordsKeep, CallTyped DEF SaveApplied, At
<1>2. c.op = "integrate" /\ Len(c.todo) = 5
  BY <1>1, StepsLeft DEF SaveApplied, At
<1>3. Becomes(r, c) /\ saved' = saved \cup {c.patch}
  BY DEF SaveApplied
<1>4. Stepped(r, c) /\ Arrived(e, c, c)
  BY <1>1, <1>2, <1>3, SameMoves
<1>5. /\ e.ready /\ e.done /\ Backed(calls[r])'
      /\ grants'[e.grant].uses > 0 /\ e.patch \in {a.patch : a \in applied'}
  BY <1>1, <1>2, <1>4, AfterPatch
<1>6. e.patch \in saved'
  BY <1>3, <1>4 DEF Arrived
<1>7. ApprovalOK(calls[r].approval)' => IntegrationOK(calls[r], 4)'
  BY <1>4, <1>5, <1>6 DEF IntegrationOK, Arrived
<1> QED BY <1>1, <1>2, <1>4, <1>7, IntegrationArrives

\* The mark of the grant, made or lost.
LEMMA MarkMoves ==
    ASSUME IInv, Kept, work' = work, NEW r \in Runtimes, calls[r] # None,
           calls[r].op = "integrate", Len(calls[r].todo) = 4, Becomes(r, calls[r]),
           grants'[calls[r].grant].state # "active" \/ grants'[calls[r].grant].loose
    PROVE  CallsOK'
<1> DEFINE c == calls[r]
           e == calls'[r]
<1>1. Stepped(r, c) /\ Arrived(e, c, c)
  BY SameMoves
<1>2. /\ e.ready /\ e.done /\ Backed(calls[r])'
      /\ grants'[e.grant].uses > 0 /\ e.patch \in {a.patch : a \in applied'}
      /\ e.patch \in saved'
  BY <1>1, AfterPatch
<1>3. grants'[e.grant].state # "active" \/ grants'[e.grant].loose
  BY <1>1 DEF Arrived
<1>4. ApprovalOK(calls[r].approval)' => IntegrationOK(calls[r], 3)'
  BY <1>1, <1>2, <1>3 DEF IntegrationOK, Arrived
<1> QED BY <1>1, <1>4, IntegrationArrives

\* The sidecar and the row.
LEMMA SettleMoves ==
    ASSUME IInv, NEW r \in Runtimes, Settle(r)
    PROVE  CallsOK'
<1> DEFINE c == calls[r]
           e == calls'[r]
<1>1. Kept /\ work' = work /\ c # None /\ CallOK(c)
  BY RecordsKeep, CallTyped DEF Settle, At
<1>2. Becomes(r, c)
  BY DEF Settle
<1>3. CASE At(r, "side") /\ side' = TRUE
  <2>1. c.op = "integrate" /\ Len(c.todo) = 3
    BY <1>1, <1>3, StepsLeft DEF At
  <2>2. Stepped(r, c) /\ Arrived(e, c, c)
    BY <1>1, <1>2, <2>1, SameMoves
  <2>3. /\ e.ready /\ e.done /\ Backed(calls[r])'
        /\ grants'[e.grant].uses > 0 /\ e.patch \in {a.patch : a \in applied'}
        /\ e.patch \in saved'
        /\ grants'[e.grant].state # "active" \/ grants'[e.grant].loose
    BY <1>1, <2>1, <2>2, AfterPatch
  <2>4. side'
    BY <1>3
  <2>5. ApprovalOK(calls[r].approval)' => IntegrationOK(calls[r], 2)'
    BY <2>2, <2>3, <2>4 DEF IntegrationOK, Arrived
  <2> QED BY <1>1, <2>1, <2>2, <2>5, IntegrationArrives
<1>4. CASE At(r, "row") /\ row' = TRUE
  <2>1. c.op = "integrate" /\ Len(c.todo) = 2
    BY <1>1, <1>4, StepsLeft DEF At
  <2>2. Stepped(r, c) /\ Arrived(e, c, c)
    BY <1>1, <1>2, <2>1, SameMoves
  <2>3. /\ e.ready /\ e.done /\ Backed(calls[r])'
        /\ grants'[e.grant].uses > 0 /\ e.patch \in {a.patch : a \in applied'}
        /\ e.patch \in saved'
        /\ grants'[e.grant].state # "active" \/ grants'[e.grant].loose
        /\ side'
    BY <1>1, <2>1, <2>2, AfterPatch
  <2>4. row'
    BY <1>4
  <2>5. ApprovalOK(calls[r].approval)' => IntegrationOK(calls[r], 1)'
    BY <2>2, <2>3, <2>4 DEF IntegrationOK, Arrived
  <2> QED BY <1>1, <2>1, <2>2, <2>5, IntegrationArrives
<1> QED BY <1>3, <1>4 DEF Settle

\* A failing step ends its call, but for the mark of the grant.
LEMMA StepFailsMoves ==
    ASSUME IInv, NEW r \in Runtimes, StepFails(r)
    PROVE  CallsOK'
<1> DEFINE c == calls[r]
           s == Head(c.todo)
<1>1. /\ Kept /\ work' = work /\ c # None /\ CallOK(c)
      /\ s = "grant" => Changes(c.grant, Loose(grants[c.grant]))
  BY StepFailsKeeps, CallTyped DEF StepFails
<1>2. CASE s # "grant"
  <2>1. calls' = [calls EXCEPT ![r] = None]
    BY <1>2 DEF StepFails, Ends
  <2> QED BY <1>1, <2>1, EndMoves
<1>3. CASE s = "grant"
  <2>1. Becomes(r, c)
    BY <1>3 DEF StepFails
  <2>2. c.op = "integrate" /\ Len(c.todo) = 4
    BY <1>1, <1>3, StepsLeft
  <2>3. c.grant \in 1..Len(grants) /\ grants[c.grant] \in Grants
    BY <1>1, <2>2, CallTyped, GrantTyped DEF IInv
  <2>4. grants'[c.grant] = Loose(grants[c.grant])
    BY <1>1, <1>3, <2>3 DEF Changes
  <2>5. grants'[c.grant].loose
    BY <2>3, <2>4, GrantWith
  <2> QED BY <1>1, <2>1, <2>2, <2>5, MarkMoves
<1> QED BY <1>2, <1>3

\* A new call.
LEMMA StartMoves ==
    ASSUME IInv, NEW r \in Runtimes, \E op \in {"preflight", "trusted"} : StartPreflight(r, op)
    PROVE  CallsOK'
<1>1. PICK op \in {"preflight", "trusted"} : StartPreflight(r, op)
  OBVIOUS
<1> DEFINE d == Call(op, Look, None, 0)
<1>2. Kept /\ work' = work /\ work \in Contents
  BY LooksKeep DEF IInv, Typed
<1>3. calls'[r] = d /\ \A q \in Runtimes \ {r} : calls'[q] = calls[q]
  BY <1>1 DEF StartPreflight, IInv, Typed
<1>4. Part(4, 4) \in Seq(Steps) /\ Len(Part(4, 4)) = 4
  BY PartStep
<1>5. Look \in Seq(Steps) /\ Len(Look) = 4 /\ Look = Part(4, 4)
  BY <1>4, Plans
<1>6. /\ d \in CallRecords /\ d.todo = Look /\ d.op = op /\ d.patch = work
      /\ d.grant = 0
  BY <1>2, <1>5, IntegrationAssumption DEF Call, CallRecords, Operations, Contents
<1>7. ~d.done
  BY DEF Call
<1> HIDE DEF d
<1>8. Planned(d) /\ Len(d.todo) = 4
  <2>1. Size(d) = 4
    BY <1>6 DEF Size
  <2>2. Len(d.todo) = 4 /\ d.todo = Part(4, 4)
    BY <1>5, <1>6
  <2> QED BY <2>1, <2>2 DEF Planned
<1>9. CallOK(calls[r])'
  <2>1. PreflightOK(calls[r], 4)'
    BY <1>3, <1>6, <1>7 DEF PreflightOK
  <2> QED BY <1>2, <1>3, <1>6, <1>8, <2>1 DEF CallOK
<1> QED BY <1>2, <1>3, <1>9, OneMoves

\* An integration enters with the approval it presents.
LEMMA EnterMoves ==
    ASSUME IInv, NEW r \in Runtimes, NEW a, ApprovalOK(a), Enter(r, a),
           approvals' = [q \in Runtimes |-> approvals'[q]]
    PROVE  CallsOK'
<1>1. PICK i \in 1..Len(grants') :
         /\ calls' = [calls EXCEPT ![r] = Call("integrate", Look \o Change \o Record, a, i)]
         /\ grants'[i].patch = a.patch
  BY EnterEffect
<1> DEFINE d == Call("integrate", Look \o Change \o Record, a, i)
<1>2. Kept /\ work' = work /\ work \in Contents /\ proven \subseteq proven' /\ tasked' = tasked
      /\ a \in Approvals
  BY EnterEffect DEF IInv, Typed, Kept, Grows, ApprovalOK
<1>3. calls'[r] = d /\ \A q \in Runtimes \ {r} : calls'[q] = calls[q]
  BY <1>1 DEF IInv, Typed
<1>4. Part(12, 12) \in Seq(Steps) /\ Len(Part(12, 12)) = 12
  BY PartStep
<1>5. i \in Nat
  BY <1>2, GrantTypedNext DEF Kept
<1>6. /\ d \in CallRecords /\ d.todo = Part(12, 12) /\ d.op = "integrate" /\ d.patch = work
      /\ d.grant = i /\ d.approval = a
  BY <1>2, <1>4, <1>5, Plans, IntegrationAssumption DEF Call, CallRecords, Operations, Contents
<1>7. ~d.done
  BY DEF Call
<1> HIDE DEF d
<1>8. Planned(d) /\ Len(d.todo) = 12
  <2>1. Size(d) = 12
    BY <1>6 DEF Size
  <2>2. Len(d.todo) = 12 /\ d.todo = Part(12, 12)
    BY <1>4, <1>6
  <2> QED BY <2>1, <2>2 DEF Planned
<1>9. ApprovalOK(calls[r].approval)'
  BY <1>2, <1>3, <1>6 DEF ApprovalOK
<1>10. IntegrationOK(calls[r], 12)'
  BY <1>1, <1>3, <1>6, <1>7, <1>9 DEF IntegrationOK
<1>11. CallOK(calls[r])'
  BY <1>2, <1>3, <1>6, <1>8, <1>10 DEF CallOK
<1> QED BY <1>2, <1>3, <1>11, OneMoves

\* The worktree is edited: the calls know.
LEMMA EditMoves ==
    ASSUME IInv, NEW w \in Contents, Edit(w)
    PROVE  CallsOK'
<1>1. Kept /\ work' = w /\ grants' = grants /\ proven' = proven /\ tasked' = tasked
      /\ applied' = applied /\ saved' = saved /\ side' = side /\ row' = row
  BY WorldKeeps DEF Edit, facts, stored, standing, ghosts
<1>2. SUFFICES ASSUME NEW q \in Runtimes, calls'[q] # None
               PROVE  CallOK(calls[q])'
  BY DEF CallsOK
<1> DEFINE c == calls[q]
           d == [c EXCEPT !.raced = TRUE]
           n == Len(c.todo)
<1>3. c # None /\ calls'[q] = d
  BY <1>2 DEF Edit
<1>4. CallOK(c) /\ c \in CallRecords
  BY <1>3, CallTyped
<1>5. /\ d \in CallRecords /\ d.op = c.op /\ d.todo = c.todo /\ d.patch = c.patch
      /\ d.again = c.again /\ d.grant = c.grant
  BY <1>4 DEF CallRecords
<1>6. d.approval = c.approval
  BY <1>4 DEF CallRecords
<1>7. d.raced /\ d.ready = c.ready /\ d.done = c.done
  BY <1>4 DEF CallRecords
<1> HIDE DEF d
<1>8. n \in 1..Size(c) /\ n \in 1..12 /\ Planned(d)
  <2>1. Size(c) \in {4, 12} /\ Size(d) = Size(c)
    BY <1>5 DEF Size
  <2>2. n \in 1..Size(c) /\ c.todo = Part(Size(c), n)
    BY <1>4 DEF CallOK, Planned
  <2>3. Planned(d)
    BY <1>5, <2>1, <2>2 DEF Planned
  <2> QED BY <2>1, <2>2, <2>3, CountDown
<1> DEFINE e == calls'[q]
<1>9. /\ e \in CallRecords /\ Planned(e) /\ e.op = c.op /\ e.todo = c.todo /\ e.patch = c.patch
      /\ e.again = c.again /\ e.grant = c.grant /\ e.approval = c.approval
      /\ e.raced /\ e.ready = c.ready /\ e.done = c.done
  BY <1>3, <1>5, <1>6, <1>7, <1>8
<1>10. CASE c.op = "integrate"
  <2>1. IntegrationOK(c, n)
    BY <1>4, <1>10 DEF CallOK
  <2>2. ApprovalOK(calls[q].approval)'
    BY <1>1, <1>9, <2>1 DEF ApprovalOK, IntegrationOK
  <2>3. Backed(c) => Backed(calls[q])'
    BY <1>1, <1>9 DEF Backed
  <2>4. IntegrationOK(calls[q], n)'
    BY <1>1, <1>8, <1>9, <2>1, <2>2, <2>3 DEF IntegrationOK
  <2>5. Len(e.todo) = n
    BY <1>9
  <2> QED BY <1>9, <1>10, <2>4, <2>5 DEF CallOK
<1>11. CASE c.op # "integrate"
  <2>1. PreflightOK(c, n)
    BY <1>4, <1>11 DEF CallOK
  <2>2. PreflightOK(calls[q], Len(calls[q].todo))'
    BY <1>1, <1>9, <2>1 DEF PreflightOK
  <2> QED BY <1>9, <1>11, <2>2 DEF CallOK
<1> QED BY <1>10, <1>11

\* The approval that the gateway pinned, or made again with the patch of the second
\* diff.
LEMMA TrustedApproval ==
    ASSUME IInv, pinned # None, NEW p \in {pinned.approval.patch, pinned.again}
    PROVE  ApprovalOK([pinned.approval EXCEPT !.patch = p, !.first = (p = pinned.approval.patch)])
<1> DEFINE a == pinned.approval
           b == [a EXCEPT !.patch = p, !.first = (p = a.patch)]
<1>1. /\ ApprovalOK(a) /\ a \in Approvals /\ a.first /\ pinned.again \in Contents
      /\ pinned.again = a.patch \/ a.raced
  BY DEF IInv, ApprovalsOK, ApprovalOK
<1>2. p \in Contents /\ (p = a.patch) \in BOOLEAN
  BY <1>1 DEF Approvals
<1>3. b \in Approvals /\ b.patch = p
  BY <1>1, <1>2 DEF Approvals
<1>4. b.first <=> p = a.patch
  BY <1>1 DEF Approvals
<1>5. b.raced = a.raced
  BY <1>1 DEF Approvals
<1>6. p = a.patch => a.patch \in proven \/ (a.raced /\ tasked)
  BY <1>1 DEF ApprovalOK
<1>7. p # a.patch => a.raced
  BY <1>1
<1> HIDE DEF a, b
<1>8. ApprovalOK(b)
  BY <1>3, <1>4, <1>5, <1>6, <1>7 DEF ApprovalOK
<1> QED BY <1>8 DEF a, b

\* Approvals that are left alone or given up.
LEMMA ApprovalsStay ==
    ASSUME IInv, Kept, \A q \in Runtimes : approvals'[q] \in {approvals[q], None},
           pinned' \in {pinned, None}
    PROVE  ApprovalsOK'
<1>1. ASSUME NEW q \in Runtimes, approvals'[q] # None
      PROVE  ApprovalOK(approvals[q])'
  <2>1. approvals'[q] = approvals[q] /\ ApprovalOK(approvals[q])
    BY <1>1 DEF IInv, ApprovalsOK
  <2> QED BY <2>1 DEF ApprovalOK, Kept, Grows
<1>2. ASSUME pinned' # None
      PROVE  /\ ApprovalOK(pinned.approval)' /\ pinned'.approval.first
             /\ pinned'.again \in Contents
             /\ pinned'.again = pinned'.approval.patch \/ pinned'.approval.raced
  <2>1. /\ pinned' = pinned /\ ApprovalOK(pinned.approval) /\ pinned.approval.first
        /\ pinned.again \in Contents
        /\ pinned.again = pinned.approval.patch \/ pinned.approval.raced
    BY <1>2 DEF IInv, ApprovalsOK
  <2> QED BY <2>1 DEF ApprovalOK, Kept, Grows
<1> QED BY <1>1, <1>2 DEF ApprovalsOK

\* The approval that a preflight gives.
LEMMA ConcludeApproves ==
    ASSUME IInv, NEW r \in Runtimes, Conclude(r)
    PROVE  ApprovalsOK'
<1> DEFINE c == calls[r]
           found == IF c.ready THEN Matching(c.head, c.patch) ELSE 0
           a == Approval(c.head, c.patch, found, c.raced)
<1>1. /\ Kept /\ work' = work /\ c # None /\ CallOK(c) /\ c \in CallRecords /\ Typed
      /\ approvals = [q \in Runtimes |-> approvals[q]]
  BY LooksKeep, CallTyped DEF Conclude, At, IInv, Typed
<1>2. CASE ~c.ready \/ c.op = "integrate"
  <2>1. approvals' = approvals
    BY <1>2 DEF Conclude
  <2>2. pinned' = pinned
    BY <1>2 DEF Conclude
  <2> QED BY <1>1, <2>1, <2>2, ApprovalsStay
<1>3. CASE c.ready /\ c.op # "integrate"
  <2>1. Len(c.todo) = 1
    <3>1. Len(c.todo) = Size(c) - 3
      BY <1>1, StepsLeft DEF Conclude, At
    <3> QED BY <1>3, <3>1 DEF Size
  <2>2. PreflightOK(c, 1)
    BY <1>1, <1>3, <2>1 DEF CallOK
  <2>3. /\ c.again = c.patch \/ c.raced
        /\ c.patch \in proven \/ (c.raced /\ tasked)
    BY <1>3, <2>2 DEF PreflightOK
  <2>4. found \in Nat
    <3>1. Len(grants) \in Nat
      BY <1>1, GrantTyped
    <3> QED BY <1>1, <3>1, MatchingFinds
  <2> HIDE DEF found
  <2>5. a \in Approvals /\ a.patch = c.patch /\ c.again \in Contents
    <3>1. c.head \in 0..MaxHead /\ c.patch \in Contents /\ c.again \in Contents /\ c.raced \in BOOLEAN
      BY <1>1 DEF CallRecords
    <3> QED BY <2>4, <3>1 DEF Approval, Approvals
  <2>6. a.first /\ a.raced = c.raced
    BY DEF Approval
  <2> HIDE DEF a
  <2>7. /\ proven \subseteq proven' /\ tasked' = tasked
    BY <1>1 DEF Kept, Grows
  <2>8. \/ approvals' = [approvals EXCEPT ![r] = a]
        \/ approvals' = [approvals EXCEPT ![r] = None]
    BY <1>3 DEF Conclude, a, found
  <2>9. pinned' = [approval |-> a, again |-> c.again] \/ pinned' = pinned
    BY <1>3 DEF Conclude, a, found
  <2>10. ASSUME NEW q \in Runtimes, approvals'[q] # None
         PROVE  ApprovalOK(approvals[q])'
    <3>1. CASE approvals'[q] = a
      BY <2>3, <2>5, <2>6, <2>7, <3>1 DEF ApprovalOK
    <3>2. CASE approvals'[q] = approvals[q]
      <4>1. ApprovalOK(approvals[q])
        BY <2>10, <3>2 DEF IInv, ApprovalsOK
      <4> QED BY <1>1, <3>2, <4>1 DEF ApprovalOK, Kept, Grows
    <3> QED BY <1>1, <2>8, <2>10, <3>1, <3>2
  <2>11. ASSUME pinned' # None
         PROVE  /\ ApprovalOK(pinned.approval)' /\ pinned'.approval.first
                /\ pinned'.again \in Contents
                /\ pinned'.again = pinned'.approval.patch \/ pinned'.approval.raced
    <3>1. CASE pinned' = pinned
      <4>1. /\ ApprovalOK(pinned.approval) /\ pinned.approval.first
            /\ pinned.again \in Contents
            /\ pinned.again = pinned.approval.patch \/ pinned.approval.raced
        BY <2>11, <3>1 DEF IInv, ApprovalsOK
      <4> QED BY <1>1, <3>1, <4>1 DEF ApprovalOK, Kept, Grows
    <3>2. CASE pinned' = [approval |-> a, again |-> c.again]
      <4>1. pinned'.approval = a /\ pinned'.again = c.again
        BY <3>2
      <4> QED BY <2>3, <2>5, <2>6, <2>7, <4>1 DEF ApprovalOK
    <3> QED BY <2>9, <3>1, <3>2
  <2> QED BY <2>10, <2>11 DEF ApprovalsOK
<1> QED BY <1>2, <1>3

\* Every step keeps the calls and the approvals.
LEMMA StepsMove ==
    ASSUME IInv, Next
    PROVE  Kept /\ CallsOK' /\ ApprovalsOK'
<1> USE DEF trees, facts, stored, standing, given, ghosts
<1>0. /\ Typed /\ approvals = [q \in Runtimes |-> approvals[q]]
      /\ calls = [q \in Runtimes |-> calls[q]]
  BY DEF IInv, Typed
<1>1. ASSUME NEW r \in Runtimes,
             \/ \E op \in {"preflight", "trusted"} : StartPreflight(r, op)
             \/ LookCanonical(r) \/ LookSubsumed(r) \/ LookEvidence(r)
             \/ Rediff(r) \/ CheckCanonical(r) \/ ApprovalStale(r)
      PROVE  Kept /\ CallsOK' /\ ApprovalsOK'
  <2>1. Kept /\ work' = work
    BY <1>1, LooksKeep
  <2>2. CallsOK'
    <3>1. ApprovalStale(r) => calls' = calls
      BY DEF ApprovalStale
    <3> QED BY <1>1, <2>1, <3>1, StartMoves, LooksMove, RediffMoves, CheckCanonicalMoves, NoneMoves
  <2>3. pinned' = pinned /\ \A q \in Runtimes : approvals'[q] \in {approvals[q], None}
    BY <1>0, <1>1 DEF StartPreflight, LookCanonical, LookSubsumed, LookEvidence, Rediff,
                      CheckCanonical, ApprovalStale
  <2> QED BY <2>1, <2>2, <2>3, ApprovalsStay
<1>2. ASSUME NEW r \in Runtimes, Conclude(r)
      PROVE  Kept /\ CallsOK' /\ ApprovalsOK'
  BY <1>2, LooksKeep, ConcludeMoves, ConcludeApproves
<1>3. ASSUME NEW r \in Runtimes, Integrate(r)
      PROVE  Kept /\ CallsOK' /\ ApprovalsOK'
  <2>1. ApprovalOK(approvals[r]) /\ Enter(r, approvals[r])
    BY <1>3 DEF Integrate, IInv, ApprovalsOK
  <2>2. /\ approvals' = [q \in Runtimes |-> approvals'[q]] /\ pinned' = pinned
        /\ \A q \in Runtimes : approvals'[q] \in {approvals[q], None}
    BY <1>0, <1>3 DEF Integrate
  <2>3. Kept
    BY <2>1, <2>2, EnterEffect
  <2>4. CallsOK'
    BY <2>1, <2>2, EnterMoves
  <2> QED BY <2>2, <2>3, <2>4, ApprovalsStay
<1>4. ASSUME NEW r \in Runtimes, IntegrateTrusted(r)
      PROVE  Kept /\ CallsOK' /\ ApprovalsOK'
  <2>1. PICK p \in {pinned.approval.patch, pinned.again} :
           Enter(r, [pinned.approval EXCEPT !.patch = p, !.first = (p = pinned.approval.patch)])
    BY <1>4 DEF IntegrateTrusted
  <2> DEFINE a == [pinned.approval EXCEPT !.patch = p, !.first = (p = pinned.approval.patch)]
  <2>2. ApprovalOK(a)
    BY <1>4, TrustedApproval DEF IntegrateTrusted
  <2>3. Enter(r, a)
    BY <2>1
  <2>4. /\ approvals' = [q \in Runtimes |-> approvals'[q]] /\ pinned' = None
        /\ \A q \in Runtimes : approvals'[q] \in {approvals[q], None}
    BY <1>0, <1>4 DEF IntegrateTrusted
  <2> HIDE DEF a
  <2>5. Kept
    BY <2>2, <2>3, <2>4, EnterEffect
  <2>6. CallsOK'
    BY <2>2, <2>3, <2>4, EnterMoves
  <2> QED BY <2>4, <2>5, <2>6, ApprovalsStay
<1>5. ASSUME NEW r \in Runtimes, GitApply(r) \/ MarkIntegrated(r) \/ StepFails(r)
      PROVE  Kept /\ CallsOK' /\ ApprovalsOK'
  <2>1. Kept /\ work' = work
    BY <1>5, GitApplyKeeps, MarkKeeps, StepFailsKeeps
  <2>2. CallsOK'
    <3>1. ASSUME MarkIntegrated(r)
          PROVE  CallsOK'
      <4> DEFINE c == calls[r]
      <4>1. c # None /\ Becomes(r, c) /\ CallOK(c)
        BY <3>1, CallTyped DEF MarkIntegrated, At
      <4>2. c.op = "integrate" /\ Len(c.todo) = 4
        BY <3>1, <4>1, StepsLeft DEF MarkIntegrated, At
      <4>3. c.grant \in 1..Len(grants) /\ grants[c.grant] \in Grants
        BY <4>1, <4>2, CallTyped, GrantTyped DEF IInv
      <4>4. grants'[c.grant] = InState(grants[c.grant], "integrated")
        BY <3>1, <4>3, MarkKeeps DEF Changes
      <4>5. grants'[c.grant].state # "active"
        BY <4>3, <4>4, GrantWith
      <4> QED BY <2>1, <4>1, <4>2, <4>5, MarkMoves
    <3> QED BY <1>5, <3>1, GitApplyMoves, StepFailsMoves
  <2>3. pinned' = pinned /\ approvals' = approvals
    BY <1>5 DEF GitApply, MarkIntegrated, StepFails
  <2> QED BY <2>1, <2>2, <2>3, ApprovalsStay
<1>6. ASSUME NEW r \in Runtimes, SaveApplied(r) \/ Settle(r) \/ CompleteTasks(r)
      PROVE  Kept /\ CallsOK' /\ ApprovalsOK'
  <2>1. Kept /\ work' = work
    BY <1>6, RecordsKeep
  <2>2. CompleteTasks(r) => CallsOK'
    BY <2>1, EndMoves DEF CompleteTasks, Ends
  <2>3. pinned' = pinned /\ approvals' = approvals
    BY <1>6 DEF SaveApplied, Settle, CompleteTasks
  <2> QED BY <1>6, <2>1, <2>2, <2>3, SaveAppliedMoves, SettleMoves, ApprovalsStay
<1>7. ASSUME NEW r \in Runtimes, Crash(r)
      PROVE  Kept /\ CallsOK' /\ ApprovalsOK'
  <2>1. Kept /\ work' = work
    BY <1>7, CrashKeeps
  <2>2. CallsOK'
    BY <1>7, <2>1, EndMoves DEF Crash
  <2>3. pinned' = pinned /\ \A q \in Runtimes : approvals'[q] \in {approvals[q], None}
    BY <1>0, <1>7 DEF Crash
  <2> QED BY <2>1, <2>2, <2>3, ApprovalsStay
<1>8. ASSUME World
      PROVE  Kept /\ CallsOK' /\ ApprovalsOK'
  <2>1. Kept
    BY <1>8, WorldKeeps, TimeKeeps DEF World
  <2>2. CallsOK'
    <3>1. Prove \/ EditCanonical \/ QueueMoves \/ TimePasses => work' = work /\ calls' = calls
      BY DEF Prove, EditCanonical, QueueMoves, TimePasses
    <3> QED BY <1>8, <2>1, <3>1, NoneMoves, EditMoves DEF World
  <2>3. /\ pinned' \in {pinned, None}
        /\ \A q \in Runtimes : approvals'[q] \in {approvals[q], None}
    <3>1. (\E c \in Contents : Edit(c)) \/ Prove \/ EditCanonical \/ QueueMoves =>
             pinned' = pinned /\ approvals' = approvals
      BY DEF Edit, Prove, EditCanonical, QueueMoves
    <3>2. ASSUME TimePasses
          PROVE  /\ pinned' \in {pinned, None}
                 /\ \A q \in Runtimes : approvals'[q] \in {approvals[q], None}
      BY <1>0, <3>2 DEF TimePasses
    <3> QED BY <1>8, <3>1, <3>2 DEF World
  <2> QED BY <2>1, <2>2, <2>3, ApprovalsStay
<1> QED BY <1>1, <1>2, <1>3, <1>4, <1>5, <1>6, <1>7, <1>8 DEF Next, Serve

-----------------------------------------------------------------------------
(* A decision is carried out once.                                          *)

\* Who goes by grant i stays the same, but for a call that ends: one that has used
\* the grant leaves it marked or loose.
OwnerStays(q, i) ==
    /\ GoesBy(q, i)' => GoesBy(q, i) /\ (calls'[q].done <=> calls[q].done)
    /\ GoesBy(q, i) /\ calls[q].done =>
          GoesBy(q, i)' \/ grants'[i].state # "active" \/ grants'[i].loose

LEMMA UseStays ==
    ASSUME IInv, Kept, NEW i \in 1..Len(grants), grants'[i].uses = grants[i].uses,
           \A q \in Runtimes : OwnerStays(q, i)
    PROVE  UseOK(i)'
<1>1. /\ UseOK(i) /\ grants[i].uses \in Nat
      /\ grants[i].loose => grants'[i].loose
      /\ grants[i].state # "active" => grants'[i].state # "active"
  BY GrantTyped DEF IInv, UsesOK, Kept, Grows
<1>2. CASE grants'[i].loose
  BY <1>2 DEF UseOK
<1>3. CASE ~grants'[i].loose
  <2>1. /\ grants[i].uses <= 1
        /\ \A q, r \in Runtimes : GoesBy(q, i) /\ GoesBy(r, i) => q = r
        /\ \A r \in Runtimes : GoesBy(r, i) /\ ~calls[r].done => grants[i].uses = 0
        /\ grants[i].state = "active" /\ grants[i].uses > 0 =>
              \E r \in Runtimes : GoesBy(r, i) /\ calls[r].done
    BY <1>1, <1>3 DEF UseOK
  <2>2. \A q, r \in Runtimes : GoesBy(q, i)' /\ GoesBy(r, i)' => q = r
    BY <2>1 DEF OwnerStays
  <2>3. \A r \in Runtimes : GoesBy(r, i)' /\ ~calls'[r].done => grants'[i].uses = 0
    BY <2>1 DEF OwnerStays
  <2>4. ASSUME grants'[i].state = "active", grants'[i].uses > 0
        PROVE  \E r \in Runtimes : GoesBy(r, i)' /\ calls'[r].done
    <3>1. PICK r \in Runtimes : GoesBy(r, i) /\ calls[r].done
      BY <1>1, <2>1, <2>4
    <3>2. GoesBy(r, i)'
      BY <1>3, <2>4, <3>1 DEF OwnerStays
    <3>3. calls'[r].done
      BY <3>1, <3>2 DEF OwnerStays
    <3> QED BY <3>2, <3>3
  <2>5. grants'[i].uses <= 1
    BY <2>1
  <2> QED BY <2>2, <2>3, <2>4, <2>5 DEF UseOK
<1> QED BY <1>2, <1>3

\* A call that is left alone.
LEMMA AloneStays ==
    ASSUME NEW q, NEW i, calls'[q] = calls[q]
    PROVE  OwnerStays(q, i)
  BY DEF OwnerStays, GoesBy

\* The step of one runtime that leaves the grants alone.
LEMMA OneStays ==
    ASSUME IInv, Kept, grants' = grants, NEW r \in Runtimes,
           \A q \in Runtimes \ {r} : calls'[q] = calls[q],
           \A i \in 1..Len(grants) : OwnerStays(r, i)
    PROVE  UsesOK'
<1>1. ASSUME NEW i \in 1..Len(grants)
      PROVE  UseOK(i)'
  <2>1. \A q \in Runtimes : OwnerStays(q, i)
    BY AloneStays
  <2> QED BY <2>1, UseStays
<1> QED BY <1>1 DEF UsesOK

\* A call that has applied nothing and goes on or ends.
LEMMA NotDoneStays ==
    ASSUME IInv, Kept, grants' = grants, NEW r \in Runtimes, calls[r] # None, ~calls[r].done,
           \/ calls' = [calls EXCEPT ![r] = None]
           \/ \E d \in CallRecords : /\ Becomes(r, d) /\ d.grant = calls[r].grant
                                     /\ d.done = calls[r].done
    PROVE  UsesOK'
<1>1. calls = [q \in Runtimes |-> calls[q]]
  BY DEF IInv, Typed
<1>2. CASE calls' = [calls EXCEPT ![r] = None]
  <2>1. calls'[r] = None /\ \A q \in Runtimes \ {r} : calls'[q] = calls[q]
    BY <1>1, <1>2
  <2>2. \A i \in 1..Len(grants) : OwnerStays(r, i)
    BY <2>1 DEF OwnerStays, GoesBy
  <2> QED BY <2>1, <2>2, OneStays
<1>3. ASSUME NEW d \in CallRecords, Becomes(r, d), d.grant = calls[r].grant,
             d.done = calls[r].done
      PROVE  UsesOK'
  <2> DEFINE f == [d EXCEPT !.todo = Tail(@)]
  <2>1. f.grant = calls[r].grant
    BY <1>3 DEF CallRecords
  <2>2. f.done = calls[r].done
    BY <1>3 DEF CallRecords
  <2>3. calls' = [calls EXCEPT ![r] = None] \/ calls' = [calls EXCEPT ![r] = f]
    BY <1>3 DEF Becomes
  <2> HIDE DEF f
  <2>4. (calls'[r] = None \/ calls'[r] = f) /\ \A q \in Runtimes \ {r} : calls'[q] = calls[q]
    BY <1>1, <2>3
  <2>5. \A i \in 1..Len(grants) : OwnerStays(r, i)
    BY <2>1, <2>2, <2>4 DEF OwnerStays, GoesBy
  <2> QED BY <2>4, <2>5, OneStays
<1> QED BY <1>2, <1>3

\* Before the patch is applied, and in a preflight, nothing is done.
LEMMA NotDone ==
    ASSUME IInv, NEW r \in Runtimes, calls[r] # None,
           Head(calls[r].todo) \notin {"receipt", "grant", "side", "row", "task"}
    PROVE  ~calls[r].done
<1> DEFINE c == calls[r]
           n == Len(c.todo)
<1>1. CallOK(c)
  BY CallTyped
<1>2. CASE c.op # "integrate"
  BY <1>1, <1>2 DEF CallOK, PreflightOK
<1>3. CASE c.op = "integrate"
  <2>1. n \in 1..12
    BY <1>1, <1>3, StepsLeft DEF Size
  <2>2. n \notin {5, 4, 3, 2, 1}
    BY <1>1, <1>3, StepsLeft
  <2>3. IntegrationOK(c, n)
    BY <1>1, <1>3 DEF CallOK
  <2> HIDE DEF n
  <2>4. ~(n <= 5)
    BY <2>1, <2>2
  <2> QED BY <2>3, <2>4 DEF IntegrationOK
<1> QED BY <1>2, <1>3

\* After it, it is; and once the grant was marked, it is marked or loose.
LEMMA Done ==
    ASSUME IInv, NEW r \in Runtimes, calls[r] # None,
           Head(calls[r].todo) \in {"receipt", "grant", "side", "row", "task"}
    PROVE  LET c == calls[r]
               s == Head(c.todo)
           IN  /\ c.op = "integrate" /\ c.done /\ c.grant \in 1..Len(grants)
               /\ c.patch = c.approval.patch /\ grants[c.grant].patch = c.patch
               /\ grants[c.grant].uses > 0 /\ c.patch \in {a.patch : a \in applied}
               /\ s # "receipt" => c.patch \in saved
               /\ s \notin {"receipt", "grant"} =>
                     grants[c.grant].state # "active" \/ grants[c.grant].loose
               /\ s \in {"row", "task"} => side
               /\ s = "task" => row
<1> DEFINE c == calls[r]
           s == Head(c.todo)
           n == Len(c.todo)
<1>1. CallOK(c)
  BY CallTyped
<1>2. /\ c.op = "integrate"
      /\ s = "receipt" => n = 5
      /\ s = "grant" => n = 4
      /\ s = "side" => n = 3
      /\ s = "row" => n = 2
      /\ s = "task" => n = 1
  BY <1>1, StepsLeft
<1>3. IntegrationOK(c, n)
  BY <1>1, <1>2 DEF CallOK
<1> HIDE DEF n, s, c
<1>4. CASE s = "receipt"
  BY <1>2, <1>3, <1>4 DEF IntegrationOK, Backed, c, s
<1>5. CASE s = "grant"
  BY <1>2, <1>3, <1>5 DEF IntegrationOK, Backed, c, s
<1>6. CASE s = "side"
  BY <1>2, <1>3, <1>6 DEF IntegrationOK, Backed, c, s
<1>7. CASE s = "row"
  BY <1>2, <1>3, <1>7 DEF IntegrationOK, Backed, c, s
<1>8. CASE s = "task"
  BY <1>2, <1>3, <1>8 DEF IntegrationOK, Backed, c, s
<1> QED BY <1>4, <1>5, <1>6, <1>7, <1>8 DEF s, c

\* The looks, the checks, and what fails before anything is applied.
LEMMA EarlyUses ==
    ASSUME IInv, NEW r \in Runtimes,
           \/ LookCanonical(r) \/ LookSubsumed(r) \/ LookEvidence(r) \/ Conclude(r)
           \/ Rediff(r) \/ CheckCanonical(r)
    PROVE  UsesOK'
<1> DEFINE c == calls[r]
<1>1. /\ Kept /\ grants' = grants /\ c # None /\ c \in CallRecords /\ ~c.done
      /\ work \in Contents /\ canon.head \in 0..MaxHead
  <2>1. c # None /\ Head(c.todo) \in {"canonical", "subsumed", "evidence", "conclude",
                                      "rediff", "check"}
    BY DEF LookCanonical, LookSubsumed, LookEvidence, Conclude, Rediff, CheckCanonical, At
  <2>2. ~c.done
    BY <2>1, NotDone
  <2> QED BY <2>1, <2>2, LooksKeep, CallTyped DEF IInv, Typed
<1> DEFINE Goes(d) == d \in CallRecords /\ d.grant = c.grant /\ d.done = c.done
<1>2. \/ calls' = [calls EXCEPT ![r] = None]
      \/ \E d : Becomes(r, d) /\ Goes(d)
  <2>1. CASE LookCanonical(r)
    <3> DEFINE b == IF base = "head" THEN ReadyAtHead(work) ELSE ReadySinceSnapshot(work)
               d == [c EXCEPT !.again = work, !.head = canon.head, !.ready = b]
    <3>1. b \in BOOLEAN
      BY DEF ReadyAtHead, ReadySinceSnapshot
    <3>2. d \in CallRecords /\ d.grant = c.grant
      BY <1>1, <3>1 DEF CallRecords
    <3>3. d.done = c.done
      BY <1>1 DEF CallRecords
    <3>4. Becomes(r, d)
      BY <2>1 DEF LookCanonical
    <3> QED BY <3>2, <3>3, <3>4
  <2>2. CASE LookEvidence(r)
    <3> DEFINE b == c.ready /\ c.patch # 0 /\ Evidence(work, c.patch)
               d == [c EXCEPT !.ready = b]
    <3>1. b \in BOOLEAN
      OBVIOUS
    <3>2. d \in CallRecords /\ d.grant = c.grant
      BY <1>1, <3>1 DEF CallRecords
    <3>3. d.done = c.done
      BY <1>1 DEF CallRecords
    <3>4. Becomes(r, d)
      BY <2>2 DEF LookEvidence
    <3> QED BY <3>2, <3>3, <3>4
  <2>3. CASE Rediff(r)
    <3> DEFINE d == [c EXCEPT !.patch = work]
    <3>1. d \in CallRecords /\ d.grant = c.grant
      BY <1>1 DEF CallRecords
    <3>2. d.done = c.done
      BY <1>1 DEF CallRecords
    <3>3. Becomes(r, d) \/ calls' = [calls EXCEPT ![r] = None]
      BY <2>3 DEF Rediff, Ends
    <3> QED BY <3>1, <3>2, <3>3
  <2>4. CASE LookSubsumed(r) \/ Conclude(r) \/ CheckCanonical(r)
    <3>1. Becomes(r, c) \/ calls' = [calls EXCEPT ![r] = None]
      BY <2>4 DEF LookSubsumed, Conclude, CheckCanonical, Ends
    <3>2. Goes(c)
      BY <1>1
    <3> QED BY <3>1, <3>2
  <2> QED BY <2>1, <2>2, <2>3, <2>4
<1> QED BY <1>1, <1>2, NotDoneStays

\* Calls that go by the same grants, and the same grants.
LEMMA SameUses ==
    ASSUME IInv, Kept, grants' = grants,
           \A q \in Runtimes : \/ calls'[q] = calls[q]
                               \/ /\ calls'[q] # None /\ calls[q] # None
                                  /\ calls'[q].grant = calls[q].grant
                                  /\ calls'[q].done = calls[q].done
                               \/ calls[q] = None /\ calls'[q].grant = 0
    PROVE  UsesOK'
<1>1. ASSUME NEW i \in 1..Len(grants)
      PROVE  UseOK(i)'
  <2>1. i # 0
    OBVIOUS
  <2>2. \A q \in Runtimes : OwnerStays(q, i)
    BY <2>1 DEF OwnerStays, GoesBy
  <2> QED BY <2>2, UseStays
<1> QED BY <1>1 DEF UsesOK

\* The records that follow the patch.
LEMMA RecordUses ==
    ASSUME IInv, NEW r \in Runtimes, SaveApplied(r) \/ Settle(r)
    PROVE  UsesOK'
<1> DEFINE c == calls[r]
<1>1. /\ Kept /\ grants' = grants /\ c # None /\ Becomes(r, c) /\ CallOK(c)
      /\ Head(c.todo) \in {"receipt", "side", "row"}
  BY RecordsKeep, CallTyped DEF SaveApplied, Settle, At
<1>2. c.op = "integrate" /\ Len(c.todo) # 1
  BY <1>1, StepsLeft
<1>3. Stepped(r, c) /\ Arrived(calls'[r], c, c)
  BY <1>1, <1>2, SameMoves
<1>4. /\ \A q \in Runtimes \ {r} : calls'[q] = calls[q]
      /\ calls'[r] # None
  BY <1>3, NamesAssumption DEF Stepped
<1>5. calls'[r].grant = c.grant /\ calls'[r].done = c.done
  BY <1>3 DEF Arrived
<1> QED BY <1>1, <1>4, <1>5, SameUses

\* A call that ends after its grant was marked, or left loose.
LEMMA EndUses ==
    ASSUME IInv, Kept, NEW r \in Runtimes, calls' = [calls EXCEPT ![r] = None],
           calls[r] # None, Len(grants') = Len(grants),
           \A i \in 1..Len(grants) : grants'[i].uses = grants[i].uses,
           calls[r].done => LET i == calls[r].grant
                            IN  grants'[i].state # "active" \/ grants'[i].loose
    PROVE  UsesOK'
<1>1. calls'[r] = None /\ \A q \in Runtimes \ {r} : calls'[q] = calls[q]
  BY DEF IInv, Typed
<1>2. ASSUME NEW i \in 1..Len(grants)
      PROVE  UseOK(i)'
  <2>1. OwnerStays(r, i)
    BY <1>1 DEF OwnerStays, GoesBy
  <2>2. \A q \in Runtimes : OwnerStays(q, i)
    BY <1>1, <2>1, AloneStays
  <2>3. grants'[i].uses = grants[i].uses
    OBVIOUS
  <2> QED BY <2>2, <2>3, UseStays
<1> QED BY <1>2 DEF UsesOK

\* A change of one grant that its call survives, or none is about.
LEMMA ChangeUses ==
    ASSUME IInv, Kept, NEW k \in 1..Len(grants), NEW g, Changes(k, g), g.uses = grants[k].uses,
           Len(grants') = Len(grants),
           \A q \in Runtimes : \/ calls'[q] = calls[q]
                               \/ /\ calls'[q] # None /\ calls[q] # None
                                  /\ calls'[q].grant = calls[q].grant
                                  /\ calls'[q].done = calls[q].done
    PROVE  UsesOK'
<1>1. ASSUME NEW i \in 1..Len(grants)
      PROVE  UseOK(i)'
  <2>1. \A q \in Runtimes : OwnerStays(q, i)
    BY DEF OwnerStays, GoesBy
  <2>2. grants'[i].uses = grants[i].uses
    BY DEF Changes
  <2> QED BY <2>1, <2>2, UseStays
<1> QED BY <1>1 DEF UsesOK

\* The mark of the grant, made or lost.
LEMMA MarkUses ==
    ASSUME IInv, Kept, NEW r \in Runtimes, calls[r] # None, Becomes(r, calls[r]),
           Head(calls[r].todo) = "grant", Len(grants') = Len(grants),
           NEW g, Changes(calls[r].grant, g), g.uses = grants[calls[r].grant].uses
    PROVE  UsesOK'
<1> DEFINE c == calls[r]
<1>1. CallOK(c)
  BY CallTyped
<1>2. c.op = "integrate" /\ Len(c.todo) # 1
  BY <1>1, StepsLeft
<1>3. Stepped(r, c) /\ Arrived(calls'[r], c, c)
  BY <1>2, SameMoves
<1>4. /\ \A q \in Runtimes \ {r} : calls'[q] = calls[q]
      /\ calls'[r] # None
  BY <1>3, NamesAssumption DEF Stepped
<1>5. calls'[r].grant = c.grant /\ calls'[r].done = c.done
  BY <1>3 DEF Arrived
<1>6. c.grant \in 1..Len(grants)
  BY <1>2, CallTyped
<1> QED BY <1>4, <1>5, <1>6, ChangeUses

\* The application: the grant of the call had not been used, and now it is by this
\* call.
LEMMA GitApplyUses ==
    ASSUME IInv, NEW r \in Runtimes, GitApply(r)
    PROVE  UsesOK'
<1> DEFINE c == calls[r]
           k == c.grant
           d == [c EXCEPT !.done = TRUE]
<1>1. Kept /\ c # None /\ CallOK(c) /\ c \in CallRecords
  BY GitApplyKeeps, CallTyped DEF GitApply, At
<1>2. c.op = "integrate" /\ Len(c.todo) = 6 /\ k \in 1..Len(grants) /\ ~c.done
  <2>1. c.op = "integrate" /\ Len(c.todo) = 6
    BY <1>1, StepsLeft DEF GitApply, At
  <2>2. ~c.done
    BY <1>1, NotDone DEF GitApply, At
  <2> QED BY <1>1, <2>1, <2>2, CallTyped
<1>3. CASE ~Applies(c.patch)
  <2>1. grants' = grants /\ calls' = [calls EXCEPT ![r] = None]
    BY <1>3 DEF GitApply, Ends
  <2> QED BY <1>1, <1>2, <2>1, NotDoneStays
<1>4. CASE Applies(c.patch)
  <2>1. /\ Becomes(r, d) /\ Len(grants') = Len(grants) /\ Changes(k, Used(grants[k]))
    <3>1. Applies(c.patch) => grants' # grants \/ Changes(k, Used(grants[k]))
      BY GitApplyKeeps
    <3>2. /\ Len(grants') = Len(grants) /\ Changes(k, Used(grants[k]))
      BY <1>4, GitApplyKeeps
    <3>3. Becomes(r, d)
      BY <1>4 DEF GitApply
    <3> QED BY <3>2, <3>3
  <2>2. d.done
    BY <1>1 DEF CallRecords
  <2>3. Follows(d, c)
    <3>1. d \in CallRecords /\ d.op = c.op /\ d.todo = c.todo /\ d.grant = c.grant
      BY <1>1 DEF CallRecords
    <3>2. d.approval = c.approval
      BY <1>1 DEF CallRecords
    <3>3. d.raced = c.raced /\ d.ready = c.ready
      BY <1>1 DEF CallRecords
    <3> QED BY <3>1, <3>2, <3>3 DEF Follows
  <2> HIDE DEF d
  <2>4. Stepped(r, d)
    <3>1. Len(calls[r].todo) # 1
      BY <1>2
    <3> QED BY <1>1, <1>2, <2>1, <2>3, <3>1, IntegrationMoves
  <2>5. \A q \in Runtimes \ {r} : calls'[q] = calls[q]
    BY <2>4 DEF Stepped
  <2>6. calls'[r] # None /\ calls'[r].grant = k /\ calls'[r].done
    BY <2>2, <2>4, NamesAssumption DEF Stepped, Arrived
  <2>7. ASSUME NEW i \in 1..Len(grants), i # k
        PROVE  UseOK(i)'
    <3>1. OwnerStays(r, i)
      BY <2>6, <2>7 DEF OwnerStays, GoesBy
    <3>2. \A q \in Runtimes : OwnerStays(q, i)
      BY <2>5, <3>1, AloneStays
    <3>3. grants'[i].uses = grants[i].uses
      BY <2>1, <2>7 DEF Changes
    <3> QED BY <1>1, <3>2, <3>3, UseStays
  <2>8. ASSUME NEW i \in 1..Len(grants), i = k
        PROVE  UseOK(i)'
    <3>1. grants[i] \in Grants
      BY GrantTyped DEF IInv
    <3>2. grants'[i] = Used(grants[i])
      BY <2>1, <2>8 DEF Changes
    <3>3. grants'[i].uses = grants[i].uses + 1
      BY <3>1, <3>2, GrantWith
    <3>4. grants'[i].loose = grants[i].loose
      BY <3>1, <3>2, GrantWith
    <3>5. UseOK(i)
      BY DEF IInv, UsesOK
    <3>6. CASE grants[i].loose
      BY <3>4, <3>6 DEF UseOK
    <3>7. CASE ~grants[i].loose
      <4>1. GoesBy(r, i)
        BY <1>1, <2>8 DEF GoesBy
      <4>2. /\ \A q, p \in Runtimes : GoesBy(q, i) /\ GoesBy(p, i) => q = p
            /\ grants[i].uses = 0
        BY <1>2, <3>5, <3>7, <4>1 DEF UseOK
      <4>3. \A q \in Runtimes : GoesBy(q, i)' => q = r
        BY <2>5, <4>1, <4>2 DEF GoesBy
      <4>4. GoesBy(r, i)'
        BY <2>6, <2>8 DEF GoesBy
      <4>5. grants'[i].uses <= 1
        BY <3>3, <4>2
      <4> QED BY <2>6, <4>3, <4>4, <4>5 DEF UseOK
    <3> QED BY <3>6, <3>7
  <2> QED BY <2>1, <2>7, <2>8 DEF UsesOK
<1> QED BY <1>3, <1>4

\* An integration that enters with a grant that matches: nobody goes by it, or it
\* becomes loose; and a grant nobody goes by that is active has not been used.
LEMMA EnterUses ==
    ASSUME IInv, NEW r \in Runtimes, NEW a, ApprovalOK(a), Enter(r, a),
           approvals' = [q \in Runtimes |-> approvals'[q]]
    PROVE  UsesOK'
<1>0. Kept
  BY EnterEffect
<1>1. PICK i \in 1..Len(grants') :
         /\ calls' = [calls EXCEPT ![r] = Call("integrate", Look \o Change \o Record, a, i)]
         /\ Shared(r, i) => grants'[i].loose
         /\ i \in 1..Len(grants) =>
               grants[i].state = "active" /\ grants'[i].uses = grants[i].uses
         /\ i \notin 1..Len(grants) => grants'[i].uses = 0
         /\ \A k \in 1..Len(grants') \ {i} : k \in 1..Len(grants) /\ grants'[k] = grants[k]
  BY EnterEffect
<1> DEFINE d == Call("integrate", Look \o Change \o Record, a, i)
<1>2. d.grant = i /\ ~d.done
  BY DEF Call
<1> HIDE DEF d
<1>3. calls'[r] = d /\ \A q \in Runtimes \ {r} : calls'[q] = calls[q]
  BY <1>1 DEF IInv, Typed, d
<1>4. calls[r] = None
  BY DEF Enter
<1>5. ASSUME NEW k \in 1..Len(grants'), k # i
      PROVE  UseOK(k)'
  <2>1. k \in 1..Len(grants) /\ grants'[k] = grants[k]
    BY <1>1, <1>5
  <2>2. OwnerStays(r, k)
    BY <1>2, <1>3, <1>4, <1>5 DEF OwnerStays, GoesBy
  <2>3. \A q \in Runtimes : OwnerStays(q, k)
    BY <1>3, <2>2, AloneStays
  <2> QED BY <1>0, <2>1, <2>3, UseStays
<1>6. UseOK(i)'
  <2>1. CASE grants'[i].loose
    BY <2>1 DEF UseOK
  <2>2. CASE ~grants'[i].loose
    <3>1. \A q \in Runtimes \ {r} : ~GoesBy(q, i)
      BY <1>1, <2>2 DEF Shared, GoesBy
    <3>2. \A q \in Runtimes : GoesBy(q, i)' => q = r
      BY <1>3, <3>1 DEF GoesBy
    <3>3. grants'[i].uses = 0
      <4>1. CASE i \in 1..Len(grants)
        <5>1. grants[i].uses \in Nat /\ UseOK(i) /\ (grants[i].loose => grants'[i].loose)
          BY <1>0, <4>1, GrantTyped DEF IInv, UsesOK, Kept, Grows
        <5>2. \A q \in Runtimes : ~GoesBy(q, i)
          BY <1>4, <3>1 DEF GoesBy
        <5>3. ~(grants[i].uses > 0)
          BY <1>1, <2>2, <4>1, <5>1, <5>2 DEF UseOK
        <5> QED BY <1>1, <4>1, <5>1, <5>3
      <4>2. CASE i \notin 1..Len(grants)
        BY <1>1, <4>2
      <4> QED BY <4>1, <4>2
    <3> QED BY <3>2, <3>3 DEF UseOK
  <2> QED BY <2>1, <2>2
<1> QED BY <1>5, <1>6 DEF UsesOK

\* A failing step: what it leaves of a grant that was used is marked or loose.
LEMMA StepFailsUses ==
    ASSUME IInv, NEW r \in Runtimes, StepFails(r)
    PROVE  UsesOK'
<1> DEFINE c == calls[r]
           s == Head(c.todo)
           k == c.grant
<1>1. /\ Kept /\ c # None /\ CallOK(c) /\ Len(grants') = Len(grants)
      /\ \/ s \notin {"receipt", "grant", "apply"} /\ grants' = grants
         \/ s \in {"receipt", "grant"} /\ Changes(k, Loose(grants[k]))
         \/ s = "apply" /\ Changes(k, Loose(Used(grants[k])))
  BY StepFailsKeeps, CallTyped DEF StepFails
<1>2. s \in {"receipt", "grant", "apply"} => k \in 1..Len(grants) /\ grants[k] \in Grants
  <2>1. s \in {"receipt", "grant", "apply"} => c.op = "integrate"
    BY <1>1, StepsLeft
  <2> QED BY <1>1, <2>1, CallTyped, GrantTyped DEF IInv
<1>3. s # "grant" => calls' = [calls EXCEPT ![r] = None]
  BY DEF StepFails, Ends
<1>4. CASE s \notin {"receipt", "grant", "apply"}
  <2>1. c.done => grants[k].state # "active" \/ grants[k].loose
    BY <1>1, <1>4, Done, NotDone
  <2>2. grants' = grants
    BY <1>1, <1>4
  <2>3. c.done => grants'[k].state # "active" \/ grants'[k].loose
    BY <2>1, <2>2
  <2> QED BY <1>1, <1>3, <1>4, <2>2, <2>3, EndUses
<1>5. CASE s = "receipt"
  <2>1. Changes(k, Loose(grants[k]))
    BY <1>1, <1>5
  <2>2. grants'[k] = Loose(grants[k])
    BY <1>2, <1>5, <2>1 DEF Changes
  <2>3. grants'[k].loose
    BY <1>2, <1>5, <2>2, GrantWith
  <2>4. \A i \in 1..Len(grants) : grants'[i].uses = grants[i].uses
    <3>1. Loose(grants[k]).uses = grants[k].uses
      BY <1>2, <1>5, GrantWith
    <3> QED BY <2>1, <3>1 DEF Changes
  <2> QED BY <1>1, <1>3, <1>5, <2>3, <2>4, EndUses
<1>6. CASE s = "grant"
  <2>1. Changes(k, Loose(grants[k])) /\ Loose(grants[k]).uses = grants[k].uses
    BY <1>1, <1>2, <1>6, GrantWith
  <2>2. Becomes(r, c)
    BY <1>6 DEF StepFails
  <2> QED BY <1>1, <1>6, <2>1, <2>2, MarkUses
<1>7. CASE s = "apply"
  <2>1. Changes(k, Loose(Used(grants[k])))
    BY <1>1, <1>7
  <2>2. ASSUME NEW i \in 1..Len(grants), i = k
        PROVE  UseOK(i)'
    <3>1. grants'[i] = Loose(Used(grants[i]))
      BY <2>1, <2>2 DEF Changes
    <3>2. Used(grants[i]) \in Grants
      BY <1>2, <1>7, <2>2, GrantWith
    <3>3. grants'[i].loose
      BY <3>1, <3>2, GrantWith
    <3> QED BY <3>3 DEF UseOK
  <2>3. calls'[r] = None /\ \A q \in Runtimes \ {r} : calls'[q] = calls[q]
    BY <1>3, <1>7 DEF IInv, Typed
  <2>4. ASSUME NEW i \in 1..Len(grants), i # k
        PROVE  UseOK(i)'
    <3>1. OwnerStays(r, i)
      BY <2>3, <2>4 DEF OwnerStays, GoesBy
    <3>2. \A q \in Runtimes : OwnerStays(q, i)
      BY <2>3, <3>1, AloneStays
    <3>3. grants'[i].uses = grants[i].uses
      BY <2>1, <2>4 DEF Changes
    <3> QED BY <1>1, <3>2, <3>3, UseStays
  <2> QED BY <1>1, <2>2, <2>4 DEF UsesOK
<1> QED BY <1>4, <1>5, <1>6, <1>7

\* A crash: a call that had applied its patch leaves its grant loose.
LEMMA CrashUses ==
    ASSUME IInv, NEW r \in Runtimes, Crash(r)
    PROVE  UsesOK'
<1> DEFINE c == calls[r]
           k == c.grant
<1>1. /\ Kept /\ Len(grants') = Len(grants) /\ calls' = [calls EXCEPT ![r] = None]
      /\ \/ (c = None \/ ~c.done) /\ grants' = grants
         \/ c # None /\ c.op = "integrate" /\ c.done /\ Changes(k, Loose(grants[k]))
  BY CrashKeeps DEF Crash
<1>2. CASE c = None
  <2>1. grants' = grants /\ calls' = calls
    BY <1>1, <1>2 DEF IInv, Typed
  <2> QED BY <1>1, <2>1, SameUses
<1>3. CASE c # None /\ ~c.done
  BY <1>1, <1>3, NotDoneStays
<1>4. CASE c # None /\ c.done
  <2>1. Changes(k, Loose(grants[k])) /\ c.op = "integrate"
    BY <1>1, <1>4
  <2>2. k \in 1..Len(grants) /\ grants[k] \in Grants
    BY <1>4, <2>1, CallTyped, GrantTyped DEF IInv
  <2>3. grants'[k] = Loose(grants[k])
    BY <2>1, <2>2 DEF Changes
  <2>4. grants'[k].loose
    BY <2>2, <2>3, GrantWith
  <2>5. \A i \in 1..Len(grants) : grants'[i].uses = grants[i].uses
    <3>1. Loose(grants[k]).uses = grants[k].uses
      BY <2>2, GrantWith
    <3> QED BY <2>1, <3>1 DEF Changes
  <2> QED BY <1>1, <1>4, <2>4, <2>5, EndUses
<1> QED BY <1>2, <1>3, <1>4

\* Every step keeps what is said of the uses of a grant.
LEMMA StepsUse ==
    ASSUME IInv, Next
    PROVE  UsesOK'
<1> USE DEF stored
<1>1. ASSUME NEW r \in Runtimes, \E op \in {"preflight", "trusted"} : StartPreflight(r, op)
      PROVE  UsesOK'
  <2>1. Kept /\ grants' = grants
    BY <1>1, LooksKeep
  <2>2. PICK op \in {"preflight", "trusted"} : StartPreflight(r, op)
    BY <1>1
  <2>3. /\ calls[r] = None /\ calls'[r] = Call(op, Look, None, 0)
        /\ \A q \in Runtimes \ {r} : calls'[q] = calls[q]
    BY <2>2 DEF StartPreflight, IInv, Typed
  <2>4. calls'[r].grant = 0
    BY <2>3 DEF Call
  <2> QED BY <2>1, <2>3, <2>4, SameUses
<1>2. ASSUME NEW r \in Runtimes, Integrate(r)
      PROVE  UsesOK'
  <2>1. ApprovalOK(approvals[r]) /\ Enter(r, approvals[r])
    BY <1>2 DEF Integrate, IInv, ApprovalsOK
  <2>2. approvals' = [q \in Runtimes |-> approvals'[q]]
    BY <1>2 DEF Integrate, IInv, Typed
  <2> QED BY <2>1, <2>2, EnterUses
<1>3. ASSUME NEW r \in Runtimes, IntegrateTrusted(r)
      PROVE  UsesOK'
  <2>1. PICK p \in {pinned.approval.patch, pinned.again} :
           Enter(r, [pinned.approval EXCEPT !.patch = p, !.first = (p = pinned.approval.patch)])
    BY <1>3 DEF IntegrateTrusted
  <2> DEFINE a == [pinned.approval EXCEPT !.patch = p, !.first = (p = pinned.approval.patch)]
  <2>2. ApprovalOK(a)
    BY <1>3, TrustedApproval DEF IntegrateTrusted
  <2>3. Enter(r, a)
    BY <2>1
  <2>4. approvals' = [q \in Runtimes |-> approvals'[q]]
    BY <1>3 DEF IntegrateTrusted, IInv, Typed
  <2> HIDE DEF a
  <2> QED BY <2>2, <2>3, <2>4, EnterUses
<1>4. ASSUME NEW r \in Runtimes, MarkIntegrated(r)
      PROVE  UsesOK'
  <2> DEFINE c == calls[r]
             g == InState(grants[c.grant], "integrated")
  <2>1. /\ Kept /\ Len(grants') = Len(grants) /\ Changes(c.grant, g)
        /\ c # None /\ Becomes(r, c) /\ Head(c.todo) = "grant"
    BY <1>4, MarkKeeps DEF MarkIntegrated, At
  <2>2. grants[c.grant] \in Grants
    BY <2>1, Done, GrantTyped DEF IInv
  <2>3. g.uses = grants[c.grant].uses
    BY <2>2, GrantWith
  <2> HIDE DEF g
  <2> QED BY <2>1, <2>3, MarkUses
<1>5. ASSUME NEW r \in Runtimes, CompleteTasks(r)
      PROVE  UsesOK'
  <2>1. /\ Kept /\ grants' = grants /\ calls[r] # None /\ Head(calls[r].todo) = "task"
        /\ calls' = [calls EXCEPT ![r] = None]
    BY <1>5, RecordsKeep DEF CompleteTasks, At, Ends
  <2>2. LET i == calls[r].grant IN grants'[i].state # "active" \/ grants'[i].loose
    BY <2>1, Done
  <2> QED BY <2>1, <2>2, EndUses
<1>6. ASSUME NEW r \in Runtimes, ApprovalStale(r)
      PROVE  UsesOK'
  BY <1>6, LooksKeep, SameUses DEF ApprovalStale
<1>7. ASSUME World
      PROVE  UsesOK'
  <2>1. CASE TimePasses
    <3>1. Kept /\ calls' = calls /\ Len(grants') = Len(grants)
      BY <2>1, TimeKeeps DEF TimePasses
    <3>2. ASSUME NEW i \in 1..Len(grants), Changes(i, InState(grants[i], "expired"))
          PROVE  UsesOK'
      <4>1. InState(grants[i], "expired").uses = grants[i].uses
        BY GrantTyped, GrantWith DEF IInv
      <4> QED BY <3>1, <3>2, <4>1, ChangeUses
    <3> QED BY <2>1, <3>1, <3>2, TimeKeeps, SameUses
  <2>2. CASE Prove \/ EditCanonical \/ QueueMoves
    BY <2>2, WorldKeeps, SameUses DEF Prove, EditCanonical, QueueMoves
  <2>3. ASSUME NEW w \in Contents, Edit(w)
        PROVE  UsesOK'
    <3>1. Kept /\ grants' = grants
      BY <2>3, WorldKeeps
    <3>2. ASSUME NEW q \in Runtimes, calls[q] # None
          PROVE  /\ calls'[q] # None /\ calls'[q].grant = calls[q].grant
                 /\ calls'[q].done = calls[q].done
      <4>1. calls[q] \in CallRecords /\ calls'[q] = [calls[q] EXCEPT !.raced = TRUE]
        BY <2>3, <3>2, CallTyped DEF Edit
      <4>2. calls'[q] \in CallRecords /\ calls'[q].grant = calls[q].grant
        BY <4>1 DEF CallRecords
      <4>3. calls'[q].done = calls[q].done
        BY <4>1 DEF CallRecords
      <4> QED BY <4>2, <4>3, NamesAssumption
    <3>3. \A q \in Runtimes : calls[q] = None => calls'[q] = calls[q]
      BY <2>3 DEF Edit
    <3> QED BY <3>1, <3>2, <3>3, SameUses
  <2> QED BY <1>7, <2>1, <2>2, <2>3 DEF World
<1> QED BY <1>1, <1>2, <1>3, <1>4, <1>5, <1>6, <1>7, EarlyUses, GitApplyUses, RecordUses,
           StepFailsUses, CrashUses DEF Next, Serve

-----------------------------------------------------------------------------
(* The store and the answers.                                               *)

\* A grant that counts as integrated does so already, but for the mark.
LEMMA StatesStay ==
    ASSUME IInv, Next, NEW i \in 1..Len(grants'), grants'[i].state = "integrated"
    PROVE  \/ i \in 1..Len(grants) /\ grants[i].state = "integrated"
           \/ \E r \in Runtimes : MarkIntegrated(r) /\ calls[r].grant = i
<1> USE DEF stored
<1>0. \A k \in 1..Len(grants) : grants[k] \in Grants
  BY GrantTyped DEF IInv
<1>1. ASSUME NEW k \in 1..Len(grants), NEW g, Changes(k, g), Len(grants') = Len(grants),
             g.state \in {grants[k].state, "expired"}
      PROVE  i \in 1..Len(grants) /\ grants[i].state = "integrated"
  BY <1>1 DEF Changes
<1>2. ASSUME grants' = grants
      PROVE  i \in 1..Len(grants) /\ grants[i].state = "integrated"
  BY <1>2
<1>3. ASSUME NEW r \in Runtimes, NEW a, ApprovalOK(a), Enter(r, a),
             approvals' = [q \in Runtimes |-> approvals'[q]]
      PROVE  i \in 1..Len(grants) /\ grants[i].state = "integrated"
  <2>1. PICK k \in 1..Len(grants') :
           /\ grants'[k].state = "active"
           /\ \A j \in 1..Len(grants') \ {k} : j \in 1..Len(grants) /\ grants'[j] = grants[j]
    BY <1>3, EnterEffect
  <2> QED BY <2>1
<1>4. ASSUME NEW r \in Runtimes, Integrate(r) \/ IntegrateTrusted(r)
      PROVE  i \in 1..Len(grants) /\ grants[i].state = "integrated"
  <2>1. CASE Integrate(r)
    <3>1. ApprovalOK(approvals[r]) /\ Enter(r, approvals[r])
      BY <2>1 DEF Integrate, IInv, ApprovalsOK
    <3>2. approvals' = [q \in Runtimes |-> approvals'[q]]
      BY <2>1 DEF Integrate, IInv, Typed
    <3> QED BY <1>3, <3>1, <3>2
  <2>2. CASE IntegrateTrusted(r)
    <3>1. PICK p \in {pinned.approval.patch, pinned.again} :
             Enter(r, [pinned.approval EXCEPT !.patch = p, !.first = (p = pinned.approval.patch)])
      BY <2>2 DEF IntegrateTrusted
    <3> DEFINE a == [pinned.approval EXCEPT !.patch = p, !.first = (p = pinned.approval.patch)]
    <3>2. ApprovalOK(a)
      BY <2>2, TrustedApproval DEF IntegrateTrusted
    <3>3. Enter(r, a)
      BY <3>1
    <3>4. approvals' = [q \in Runtimes |-> approvals'[q]]
      BY <2>2 DEF IntegrateTrusted, IInv, Typed
    <3> HIDE DEF a
    <3> QED BY <1>3, <3>2, <3>3, <3>4
  <2> QED BY <1>4, <2>1, <2>2
<1>5. ASSUME NEW r \in Runtimes, GitApply(r)
      PROVE  i \in 1..Len(grants) /\ grants[i].state = "integrated"
  <2> DEFINE k == calls[r].grant
             g == Used(grants[k])
  <2>1. CASE grants' = grants
    BY <1>2, <2>1
  <2>2. CASE Len(grants') = Len(grants) /\ Changes(k, g)
    <3>1. calls[r] # None /\ Head(calls[r].todo) = "apply"
      BY <1>5 DEF GitApply, At
    <3>2. calls[r].op = "integrate"
      BY <3>1, CallTyped, StepsLeft
    <3>3. k \in 1..Len(grants)
      BY <3>1, <3>2, CallTyped
    <3>4. g.state = grants[k].state
      BY <1>0, <3>3, GrantWith
    <3> HIDE DEF g
    <3> QED BY <1>1, <2>2, <3>3, <3>4
  <2> QED BY <1>5, <2>1, <2>2, GitApplyKeeps
<1>6. ASSUME NEW r \in Runtimes, MarkIntegrated(r)
      PROVE  \/ i \in 1..Len(grants) /\ grants[i].state = "integrated"
             \/ MarkIntegrated(r) /\ calls[r].grant = i
  BY <1>6, MarkKeeps DEF Changes
<1>7. ASSUME NEW r \in Runtimes, StepFails(r)
      PROVE  i \in 1..Len(grants) /\ grants[i].state = "integrated"
  <2> DEFINE k == calls[r].grant
             s == Head(calls[r].todo)
  <2>1. CASE grants' = grants
    BY <1>2, <2>1
  <2>2. CASE grants' # grants
    <3>1. calls[r] # None
      BY <1>7 DEF StepFails
    <3>2. s \in {"receipt", "grant", "apply"}
      BY <1>7, <2>2, StepFailsKeeps
    <3>3. calls[r].op = "integrate"
      BY <3>1, <3>2, CallTyped, StepsLeft
    <3>4. k \in 1..Len(grants) /\ grants[k] \in Grants
      BY <1>0, <3>1, <3>3, CallTyped
    <3>5. CASE Changes(k, Loose(grants[k]))
      <4>1. Loose(grants[k]).state = grants[k].state
        BY <3>4, GrantWith
      <4> QED BY <1>1, <1>7, <3>4, <3>5, <4>1, StepFailsKeeps
    <3>6. CASE Changes(k, Loose(Used(grants[k])))
      <4>1. Used(grants[k]) \in Grants /\ Used(grants[k]).state = grants[k].state
        BY <3>4, GrantWith
      <4>2. Loose(Used(grants[k])).state = grants[k].state
        BY <4>1, GrantWith
      <4> QED BY <1>1, <1>7, <3>4, <3>6, <4>2, StepFailsKeeps
    <3> QED BY <1>7, <2>2, <3>5, <3>6, StepFailsKeeps
  <2> QED BY <2>1, <2>2
<1>8. ASSUME NEW r \in Runtimes, Crash(r)
      PROVE  i \in 1..Len(grants) /\ grants[i].state = "integrated"
  <2> DEFINE k == calls[r].grant
  <2>1. CASE grants' = grants
    BY <1>2, <2>1
  <2>2. CASE calls[r] # None /\ calls[r].op = "integrate" /\ Changes(k, Loose(grants[k]))
    <3>1. k \in 1..Len(grants)
      BY <2>2, CallTyped
    <3>2. Loose(grants[k]).state = grants[k].state
      BY <1>0, <3>1, GrantWith
    <3> QED BY <1>1, <1>8, <2>2, <3>1, <3>2, CrashKeeps
  <2> QED BY <1>8, <2>1, <2>2, CrashKeeps
<1>9. ASSUME TimePasses
      PROVE  i \in 1..Len(grants) /\ grants[i].state = "integrated"
  <2>1. ASSUME NEW k \in 1..Len(grants), Changes(k, InState(grants[k], "expired"))
        PROVE  i \in 1..Len(grants) /\ grants[i].state = "integrated"
    <3>1. InState(grants[k], "expired").state = "expired"
      BY <1>0, GrantWith
    <3> QED BY <1>1, <1>9, <2>1, <3>1, TimeKeeps
  <2> QED BY <1>2, <1>9, <2>1, TimeKeeps
<1>10. ASSUME NEW r \in Runtimes,
              \/ \E op \in {"preflight", "trusted"} : StartPreflight(r, op)
              \/ LookCanonical(r) \/ LookSubsumed(r) \/ LookEvidence(r) \/ Conclude(r)
              \/ ApprovalStale(r) \/ Rediff(r) \/ CheckCanonical(r)
              \/ SaveApplied(r) \/ Settle(r) \/ CompleteTasks(r)
       PROVE  i \in 1..Len(grants) /\ grants[i].state = "integrated"
  BY <1>2, <1>10, LooksKeep, RecordsKeep
<1>11. ASSUME (\E c \in Contents : Edit(c)) \/ Prove \/ EditCanonical \/ QueueMoves
       PROVE  i \in 1..Len(grants) /\ grants[i].state = "integrated"
  BY <1>2, <1>11, WorldKeeps
<1> QED BY <1>4, <1>5, <1>6, <1>7, <1>8, <1>9, <1>10, <1>11 DEF Next, Serve, World

\* Every step but those of a call that write it leaves the store as it is.
LEMMA StoreStays ==
    ASSUME Next
    PROVE  /\ saved' = saved \/ \E r \in Runtimes : SaveApplied(r)
           /\ \/ receipts' = receipts
              \/ \E r \in Runtimes : SaveApplied(r) \/ LookSubsumed(r) \/ Conclude(r)
           /\ intents' = intents \/ \E r \in Runtimes : MarkIntegrated(r) \/ Conclude(r)
           /\ side' = side \/ \E r \in Runtimes : Settle(r)
           /\ row' = row \/ \E r \in Runtimes : Settle(r)
           /\ task' = task \/ \E r \in Runtimes : CompleteTasks(r)
           /\ applied' = applied \/ \E r \in Runtimes : GitApply(r) \/ StepFails(r)
<1> USE DEF stored, standing, ghosts
<1>1. ASSUME NEW r \in Runtimes,
             \/ \E op \in {"preflight", "trusted"} : StartPreflight(r, op)
             \/ LookCanonical(r) \/ LookEvidence(r) \/ ApprovalStale(r)
             \/ Rediff(r) \/ CheckCanonical(r) \/ Crash(r)
      PROVE  UNCHANGED <<saved, receipts, intents, side, row, task, applied>>
  BY <1>1 DEF StartPreflight, LookCanonical, LookEvidence, ApprovalStale, Rediff,
              CheckCanonical, Crash
<1>2. ASSUME NEW r \in Runtimes, LookSubsumed(r) \/ Conclude(r) \/ MarkIntegrated(r)
      PROVE  /\ UNCHANGED <<saved, side, row, task, applied>>
             /\ LookSubsumed(r) => intents' = intents
             /\ MarkIntegrated(r) => receipts' = receipts
  BY <1>2 DEF LookSubsumed, Conclude, MarkIntegrated
<1>3. ASSUME NEW r \in Runtimes, Integrate(r) \/ IntegrateTrusted(r)
      PROVE  UNCHANGED <<saved, receipts, intents, side, row, task, applied>>
  BY <1>3 DEF Integrate, IntegrateTrusted, Enter
<1>4. ASSUME NEW r \in Runtimes, GitApply(r) \/ StepFails(r)
      PROVE  UNCHANGED <<saved, receipts, intents, side, row, task>>
  BY <1>4 DEF GitApply, StepFails
<1>5. ASSUME NEW r \in Runtimes, SaveApplied(r) \/ Settle(r) \/ CompleteTasks(r)
      PROVE  /\ UNCHANGED <<intents, applied>>
             /\ SaveApplied(r) => UNCHANGED <<side, row, task>>
             /\ Settle(r) => UNCHANGED <<saved, receipts, task>>
             /\ CompleteTasks(r) => UNCHANGED <<saved, receipts, side, row>>
  BY <1>5 DEF SaveApplied, Settle, CompleteTasks
<1>6. ASSUME World
      PROVE  UNCHANGED <<saved, receipts, intents, side, row, task, applied>>
  BY <1>6 DEF World, Edit, Prove, EditCanonical, QueueMoves, TimePasses
<1> QED BY <1>1, <1>2, <1>3, <1>4, <1>5, <1>6 DEF Next, Serve

\* The records of an application, as they are written.
LEMMA ReceiptsStay ==
    ASSUME IInv, Next
    PROVE  ReceiptsAreTrue'
<1>0. /\ Typed /\ Kept /\ saved \subseteq saved' /\ applied \subseteq applied'
      /\ ReceiptsAreTrue /\ Typed'
  BY StepsMove DEF IInv, Kept, Grows
<1>1. saved' \subseteq {a.patch : a \in applied'}
  <2>1. saved \subseteq {a.patch : a \in applied'}
    BY <1>0 DEF ReceiptsAreTrue
  <2>2. ASSUME NEW r \in Runtimes, SaveApplied(r)
        PROVE  saved' \subseteq {a.patch : a \in applied'}
    <3>1. calls[r].patch \in {a.patch : a \in applied}
      BY <2>2, Done DEF SaveApplied, At
    <3> QED BY <1>0, <2>1, <2>2, <3>1 DEF SaveApplied
  <2> QED BY <2>1, <2>2, StoreStays
<1>2. ASSUME NEW c \in Contents, receipts'[c] = "applied"
      PROVE  c \in saved'
  <2>1. CASE receipts' = receipts
    BY <1>0, <1>2, <2>1 DEF ReceiptsAreTrue
  <2>2. ASSUME NEW r \in Runtimes, SaveApplied(r)
        PROVE  c \in saved'
    <3>1. receipts' = [receipts EXCEPT ![calls[r].patch] = "applied"]
          /\ saved' = saved \cup {calls[r].patch}
      BY <2>2 DEF SaveApplied
    <3> QED BY <1>0, <1>2, <3>1 DEF ReceiptsAreTrue, Typed
  <2>3. ASSUME NEW r \in Runtimes, LookSubsumed(r) \/ Conclude(r)
        PROVE  c \in saved'
    <3>1. \/ receipts' = receipts
          \/ receipts' = [receipts EXCEPT ![calls[r].patch] = "subsumed"]
          \/ receipts' = [receipts EXCEPT ![calls[r].patch] = "preflight"]
      BY <2>3 DEF LookSubsumed, Conclude
    <3> QED BY <1>0, <1>2, <3>1 DEF ReceiptsAreTrue, Typed
  <2> QED BY <2>1, <2>2, <2>3, StoreStays
<1>3. ASSUME NEW k \in DOMAIN intents', intents'[k] = "integrated"
      PROVE  k[2] \in saved'
  <2>0. k \in DOMAIN intents /\ k \in (0..MaxHead) \X Contents
    BY <1>0 DEF Typed
  <2>1. CASE intents' = intents
    BY <1>0, <1>3, <2>0, <2>1 DEF ReceiptsAreTrue
  <2>2. ASSUME NEW r \in Runtimes, MarkIntegrated(r)
        PROVE  k[2] \in saved'
    <3>1. intents' = [intents EXCEPT ![<<calls[r].head, calls[r].approval.patch>>] = "integrated"]
      BY <2>2 DEF MarkIntegrated
    <3>2. calls[r].approval.patch \in saved
      BY <2>2, Done DEF MarkIntegrated, At
    <3>3. CASE k = <<calls[r].head, calls[r].approval.patch>>
      BY <1>0, <3>2, <3>3
    <3>4. CASE k # <<calls[r].head, calls[r].approval.patch>>
      <4>1. intents'[k] = intents[k]
        BY <2>0, <3>1, <3>4
      <4> QED BY <1>0, <1>3, <2>0, <4>1 DEF ReceiptsAreTrue
    <3> QED BY <3>3, <3>4
  <2>3. ASSUME NEW r \in Runtimes, Conclude(r)
        PROVE  k[2] \in saved'
    <3> DEFINE j == <<calls[r].head, calls[r].patch>>
    <3>1. \/ intents' = intents
          \/ intents' = [intents EXCEPT ![j] = "confirmed"]
          \/ intents' = [intents EXCEPT ![j] = "awaiting"]
      BY <2>3 DEF Conclude
    <3> HIDE DEF j
    <3>2. intents[k] = "integrated"
      BY <1>3, <2>0, <3>1
    <3> QED BY <1>0, <2>0, <3>2 DEF ReceiptsAreTrue
  <2> QED BY <2>1, <2>2, <2>3, StoreStays
<1>4. ASSUME NEW i \in DOMAIN grants', grants'[i].state = "integrated"
      PROVE  grants'[i].uses > 0 /\ grants'[i].patch \in saved'
  <2>0. i \in 1..Len(grants')
    BY <1>0 DEF Typed
  <2>1. /\ i \in 1..Len(grants) => /\ grants'[i].patch = grants[i].patch
                                   /\ grants'[i].uses >= grants[i].uses
                                   /\ grants[i].uses \in Nat
        /\ grants'[i].uses \in Nat
    BY <1>0, <2>0, GrantTyped, GrantTypedNext DEF Kept, Grows
  <2>2. i \in 1..Len(grants) /\ grants[i].uses > 0 /\ grants[i].patch \in saved
    <3>1. CASE i \in 1..Len(grants) /\ grants[i].state = "integrated"
      <4>1. i \in DOMAIN grants
        BY <1>0, <3>1, GrantTyped
      <4> QED BY <1>0, <3>1, <4>1 DEF ReceiptsAreTrue
    <3>2. ASSUME NEW r \in Runtimes, MarkIntegrated(r), calls[r].grant = i
          PROVE  i \in 1..Len(grants) /\ grants[i].uses > 0 /\ grants[i].patch \in saved
      BY <3>2, Done DEF MarkIntegrated, At
    <3> QED BY <1>4, <2>0, <3>1, <3>2, StatesStay
  <2>3. grants'[i].uses > 0
    BY <2>1, <2>2
  <2> QED BY <1>0, <2>1, <2>2, <2>3
<1> QED BY <1>1, <1>2, <1>3, <1>4 DEF ReceiptsAreTrue

\* The records follow one another.
LEMMA OrderStays ==
    ASSUME IInv, Next
    PROVE  RecordedInOrder'
<1>0. /\ RecordedInOrder /\ Kept /\ saved \subseteq saved' /\ side \in BOOLEAN /\ row \in BOOLEAN
      /\ side' \in BOOLEAN /\ row' \in BOOLEAN /\ lease' \in BOOLEAN
      /\ side => side'
      /\ row => row'
      /\ lease' => lease
  BY StepsMove DEF IInv, Kept, Grows, Typed
<1>1. ASSUME NEW r \in Runtimes, Settle(r)
      PROVE  RecordedInOrder'
  <2>1. calls[r] # None /\ task' = task /\ saved' = saved
    BY <1>1 DEF Settle, At, ghosts
  <2>2. CASE At(r, "side") /\ side' = TRUE /\ UNCHANGED <<lease, row>>
    <3>1. calls[r].patch \in saved
      BY <2>2, Done DEF At
    <3> QED BY <1>0, <2>1, <2>2, <3>1 DEF RecordedInOrder
  <2>3. CASE At(r, "row") /\ lease' = FALSE /\ row' = TRUE /\ UNCHANGED side
    <3>1. side
      BY <2>3, Done DEF At
    <3> QED BY <1>0, <2>1, <2>3, <3>1 DEF RecordedInOrder
  <2> QED BY <1>1, <2>2, <2>3 DEF Settle
<1>2. ASSUME NEW r \in Runtimes, CompleteTasks(r)
      PROVE  RecordedInOrder'
  <2>1. row
    BY <1>2, Done DEF CompleteTasks, At
  <2>2. UNCHANGED <<side, row, lease, saved>>
    BY <1>2 DEF CompleteTasks, ghosts
  <2> QED BY <1>0, <2>1, <2>2 DEF RecordedInOrder
<1>3. CASE side' = side /\ row' = row /\ task' = task
  BY <1>0, <1>3 DEF RecordedInOrder
<1> QED BY <1>1, <1>2, <1>3, StoreStays

\* What a call that ends answers.
LEMMA LastStays ==
    ASSUME IInv, Next
    PROVE  \/ last' \in {last, None}
           \/ \E r \in Runtimes :
                 /\ calls[r] # None
                 /\ \/ last' = [answer |-> "refused", done |-> FALSE]
                    \/ last' = [answer |-> "unknown", done |-> calls[r].done]
                    \/ last' = [answer |-> "timeout", done |-> TRUE]
                    \/ /\ last' = [answer |-> "integrated", done |-> TRUE]
                       /\ row /\ row' = row
<1>1. ASSUME NEW r \in Runtimes,
             LookSubsumed(r) \/ Conclude(r) \/ Rediff(r) \/ CheckCanonical(r) \/ GitApply(r)
      PROVE  \/ last' = last
             \/ calls[r] # None /\ last' = [answer |-> "refused", done |-> FALSE]
  <2>1. ~calls[r].done /\ calls[r] # None
    BY <1>1, NotDone DEF LookSubsumed, Conclude, Rediff, CheckCanonical, GitApply, At
  <2>2. calls[r].done \in BOOLEAN
    BY <2>1, CallTyped DEF CallRecords
  <2>3. calls[r].done = FALSE
    BY <2>1, <2>2
  <2>4. last' = last \/ last' = [answer |-> "refused", done |-> calls[r].done]
    BY <1>1 DEF LookSubsumed, Conclude, Rediff, CheckCanonical, GitApply, Ends
  <2> QED BY <2>1, <2>3, <2>4
<1>2. ASSUME NEW r \in Runtimes, CompleteTasks(r)
      PROVE  /\ calls[r] # None /\ last' = [answer |-> "integrated", done |-> TRUE]
             /\ row /\ row' = row
  <2>1. /\ calls[r] # None /\ calls[r].done /\ calls[r].op = "integrate"
        /\ row /\ row' = row
    BY <1>2, Done DEF CompleteTasks, At
  <2>2. calls[r].done \in BOOLEAN
    BY <2>1, CallTyped DEF CallRecords
  <2>3. calls[r].done = TRUE
    BY <2>1, <2>2
  <2>4. last' = [answer |-> "integrated", done |-> calls[r].done]
    BY <1>2, <2>1 DEF CompleteTasks, Ends
  <2> QED BY <2>1, <2>3, <2>4
<1>3. ASSUME NEW r \in Runtimes, StepFails(r)
      PROVE  \/ last' = last
             \/ /\ calls[r] # None
                /\ \/ last' = [answer |-> "refused", done |-> FALSE]
                   \/ last' = [answer |-> "unknown", done |-> calls[r].done]
                   \/ last' = [answer |-> "timeout", done |-> TRUE]
  <2> DEFINE c == calls[r]
             s == Head(c.todo)
             d == [c EXCEPT !.done = TRUE]
  <2>1. c # None /\ c \in CallRecords /\ c.done \in BOOLEAN
    BY <1>3, CallTyped DEF StepFails, CallRecords
  <2>2. CASE s \notin {"grant", "apply"}
    <3>1. last' = last \/ last' = [answer |-> FailureAnswer(s), done |-> c.done]
      BY <1>3, <2>2 DEF StepFails, Ends
    <3>2. CASE s \in {"receipt", "side", "row", "task"}
      BY <2>1, <3>1, <3>2 DEF FailureAnswer
    <3>3. CASE s \notin {"receipt", "side", "row", "task"}
      <4>1. c.done = FALSE
        BY <2>1, <2>2, <3>3, NotDone
      <4>2. FailureAnswer(s) = "refused"
        BY <3>3 DEF FailureAnswer
      <4> QED BY <2>1, <3>1, <4>1, <4>2
    <3> QED BY <3>2, <3>3
  <2>3. CASE s = "grant"
    BY <1>3, <2>3 DEF StepFails
  <2>4. CASE s = "apply"
    <3>1. Ends(r, "timeout", d)
      BY <1>3, <2>4 DEF StepFails
    <3>2. d.done = TRUE
      BY <2>1 DEF CallRecords
    <3> HIDE DEF d
    <3> QED BY <2>1, <3>1, <3>2 DEF Ends
  <2> QED BY <2>2, <2>3, <2>4
<1>4. ASSUME NEW r \in Runtimes,
             \/ \E op \in {"preflight", "trusted"} : StartPreflight(r, op)
             \/ LookCanonical(r) \/ LookEvidence(r) \/ ApprovalStale(r)
             \/ SaveApplied(r) \/ MarkIntegrated(r) \/ Settle(r)
      PROVE  last' = last
  BY <1>4 DEF StartPreflight, LookCanonical, LookEvidence, ApprovalStale, SaveApplied,
              MarkIntegrated, Settle
<1>5. ASSUME NEW r \in Runtimes, Integrate(r) \/ IntegrateTrusted(r)
      PROVE  last' = last
  BY <1>5 DEF Integrate, IntegrateTrusted, Enter
<1>6. ASSUME NEW r \in Runtimes, Crash(r)
      PROVE  last' = None
  BY <1>6 DEF Crash
<1>7. ASSUME World
      PROVE  last' = last
  BY <1>7 DEF World, Edit, Prove, EditCanonical, QueueMoves, TimePasses
<1> QED BY <1>1, <1>2, <1>3, <1>4, <1>5, <1>6, <1>7 DEF Next, Serve

\* The answers are true, and stay so.
LEMMA AnswersStay ==
    ASSUME IInv, Next
    PROVE  LastOK' /\ AnswerIsTrue'
<1>0. LastOK /\ AnswerIsTrue /\ (row => row')
  BY StepsMove DEF IInv, Kept, Grows
<1>1. CASE last' \in {last, None}
  BY <1>0, <1>1 DEF LastOK, AnswerIsTrue
<1>2. ASSUME NEW r \in Runtimes, calls[r] # None,
             \/ last' = [answer |-> "refused", done |-> FALSE]
             \/ last' = [answer |-> "unknown", done |-> calls[r].done]
             \/ last' = [answer |-> "timeout", done |-> TRUE]
             \/ last' = [answer |-> "integrated", done |-> TRUE] /\ row
      PROVE  LastOK' /\ AnswerIsTrue'
  <2>1. calls[r].done \in BOOLEAN
    BY <1>2, CallTyped DEF CallRecords
  <2>2. last' \in Answers
    <3>1. \A s \in {"refused", "unknown", "timeout", "integrated"}, b \in BOOLEAN :
             [answer |-> s, done |-> b] \in Answers
      BY DEF Answers
    <3> QED BY <1>2, <2>1, <3>1
  <2>3. last'.answer = "refused" => ~last'.done
    BY <1>2
  <2>4. last'.answer = "integrated" => last'.done /\ row'
    BY <1>0, <1>2
  <2> QED BY <2>2, <2>3, <2>4 DEF LastOK, AnswerIsTrue
<1> QED BY <1>1, <1>2, LastStays

\* Nothing but an approved patch is applied, proven as far as that was asked.
LEMMA ApprovedStays ==
    ASSUME IInv, Next
    PROVE  OnlyApprovedIsApplied'
<1>0. OnlyApprovedIsApplied /\ proven \subseteq proven' /\ tasked' = tasked
  BY StepsMove DEF IInv, Kept, Grows
<1>1. CASE applied' = applied
  BY <1>0, <1>1 DEF OnlyApprovedIsApplied
<1>2. ASSUME NEW r \in Runtimes, GitApply(r) \/ StepFails(r), applied' # applied
      PROVE  OnlyApprovedIsApplied'
  <2> DEFINE c == calls[r]
             a == Application(c)
  <2>1. c # None /\ Head(c.todo) = "apply" /\ applied' = applied \cup {a}
    BY <1>2 DEF GitApply, StepFails, At
  <2>2. c.op = "integrate" /\ Len(c.todo) = 6
    BY <2>1, CallTyped, StepsLeft
  <2>3. IntegrationOK(c, 6)
    BY <2>1, <2>2, CallTyped
  <2>4. Backed(c)
    BY <2>3 DEF IntegrationOK
  <2>5. /\ a.patch = c.patch /\ a.approved = c.approval.patch
    BY DEF Application
  <2>6. (a.raced <=> c.raced \/ c.approval.raced) /\ (a.first <=> c.approval.first)
    BY DEF Application
  <2> HIDE DEF a, c
  <2>7. /\ a.patch = a.approved
        /\ a.patch \in proven' \/ (a.raced /\ (tasked' \/ ~a.first))
    BY <1>0, <2>4, <2>5, <2>6 DEF Backed
  <2> QED BY <1>0, <2>1, <2>7 DEF OnlyApprovedIsApplied
<1> QED BY <1>1, <1>2, StoreStays

-----------------------------------------------------------------------------
(* The theorems.                                                            *)

\* The initial states satisfy the invariant.
LEMMA InitInv ==
    ASSUME Init
    PROVE  IInv
<1> USE DEF Init
<1>1. /\ work \in Contents /\ tasked \in BOOLEAN
      /\ 0 \in 0..MaxHead /\ 0 \in 0..Foreign /\ Foreign \in 0..Foreign
  BY IntegrationAssumption, NamesAssumption DEF Foreign
<1>2. Typed
  <2>1. grants \in Seq(Grants)
    OBVIOUS
  <2>2. canon \in [head : 0..MaxHead, commit : 0..Foreign, held : 0..Foreign]
    BY <1>1
  <2>3. /\ receipts \in [Contents -> {"none", "preflight", "subsumed", "applied"}]
        /\ intents \in [(0..MaxHead) \X Contents -> {"none", "awaiting", "confirmed", "integrated"}]
    OBVIOUS
  <2>4. side \in BOOLEAN /\ row \in BOOLEAN /\ lease \in BOOLEAN
    OBVIOUS
  <2>5. calls = [r \in Runtimes |-> calls[r]] /\ approvals = [r \in Runtimes |-> approvals[r]]
    OBVIOUS
  <2> QED BY <1>1, <2>1, <2>2, <2>3, <2>4, <2>5 DEF Typed
<1>3. CallsOK /\ ApprovalsOK
  BY DEF CallsOK, ApprovalsOK
<1>4. UsesOK
  BY DEF UsesOK
<1>5. LastOK /\ AnswerIsTrue /\ OnlyApprovedIsApplied
  BY DEF LastOK, AnswerIsTrue, OnlyApprovedIsApplied
<1>6. ReceiptsAreTrue
  BY DEF ReceiptsAreTrue
<1>7. RecordedInOrder
  BY DEF RecordedInOrder
<1> QED BY <1>2, <1>3, <1>4, <1>5, <1>6, <1>7 DEF IInv

\* Every step preserves it.
LEMMA StepInv ==
    ASSUME IInv, [Next]_vars
    PROVE  IInv'
<1>1. CASE Next
  BY <1>1, StepsMove, StepsUse, ReceiptsStay, OrderStays, AnswersStay, ApprovedStays
     DEF IInv, Kept
<1>2. CASE UNCHANGED vars
  <2> USE <1>2 DEF vars, trees, facts, stored, standing, given, ghosts
  <2>1. Typed' /\ LastOK'
    BY DEF IInv, Typed, LastOK
  <2>2. Kept
    <3>1. grants' = grants /\ proven \subseteq proven' /\ tasked' = tasked
          /\ applied \subseteq applied' /\ saved \subseteq saved'
      OBVIOUS
    <3>2. (side => side') /\ (row => row') /\ (lease' => lease)
      OBVIOUS
    <3> QED BY <2>1, <3>1, <3>2, SameGrantsGrow DEF Kept, IInv
  <2>3. CallsOK'
    BY <2>2, NoneMoves
  <2>4. ApprovalsOK'
    BY <2>2, ApprovalsStay
  <2>5. UsesOK'
    BY <2>2, SameUses
  <2>6. ReceiptsAreTrue' /\ RecordedInOrder' /\ AnswerIsTrue' /\ OnlyApprovedIsApplied'
    BY DEF IInv, ReceiptsAreTrue, RecordedInOrder, AnswerIsTrue, OnlyApprovedIsApplied
  <2> QED BY <2>1, <2>3, <2>4, <2>5, <2>6 DEF IInv
<1> QED BY <1>1, <1>2

\* What the invariant says of the properties.
LEMMA InvMeans ==
    ASSUME IInv
    PROVE  IntegrationIsSound /\ OnlyApprovedIsApplied
<1>1. TypeOK
  <2>1. \A r \in Runtimes : calls[r] # None => calls[r].todo # <<>>
    <3>1. ASSUME NEW r \in Runtimes, calls[r] # None
          PROVE  calls[r].todo # <<>>
      <4>1. Planned(calls[r]) /\ Size(calls[r]) \in {4, 12}
        BY <3>1, CallTyped DEF CallOK, Size
      <4>2. Len(calls[r].todo) \in 1..Size(calls[r])
            /\ calls[r].todo = Part(Size(calls[r]), Len(calls[r].todo))
        BY <4>1 DEF Planned
      <4> QED BY <4>1, <4>2, PartStep
    <3> QED BY <3>1
  <2>2. \A i \in DOMAIN grants : grants[i].state \in {"active", "integrated", "expired"}
    <3>1. \A g \in Grants : g.state \in {"active", "integrated", "expired"}
      BY DEF Grants
    <3> QED BY <3>1, GrantTyped DEF IInv
  <2>3. /\ work \in Contents /\ proven \subseteq Contents
        /\ canon.head \in 0..MaxHead /\ {canon.commit, canon.held} \subseteq 0..Foreign
        /\ \A c \in Contents : receipts[c] \in {"none", "preflight", "subsumed", "applied"}
    BY DEF IInv, Typed
  <2>4. {side, row, lease} \subseteq BOOLEAN
    BY DEF IInv, Typed
  <2> QED BY <2>1, <2>2, <2>3, <2>4 DEF TypeOK
<1>2. DecidedOnce
  <2>1. \A i \in 1..Len(grants) : UseOK(i) /\ grants[i].uses \in Nat /\ DOMAIN grants = 1..Len(grants)
    BY GrantTyped DEF IInv, UsesOK
  <2>2. DOMAIN grants = 1..Len(grants)
    BY GrantTyped DEF IInv
  <2> QED BY <2>1, <2>2 DEF DecidedOnce, UseOK
<1> QED BY <1>1, <1>2 DEF IInv, IntegrationIsSound

\* Nothing is applied to the checkout but a patch that was approved and proven,
\* whatever people edit between the preflight, the approval and the integration
\* (the checks of workspace_integrate_development_session and director_integration).
THEOREM OnlyApprovedTheorem == Spec => []OnlyApprovedIsApplied
<1>1. Init => IInv
  BY InitInv
<1>2. IInv /\ [Next]_vars => IInv'
  BY StepInv
<1>3. IInv => OnlyApprovedIsApplied
  BY InvMeans
<1> QED BY <1>1, <1>2, <1>3, PTL DEF Spec

\* Receipts, intents, grants, session records and answers say what happened to the
\* checkout, and a human decision is carried out once, through failing steps and
\* crashes (the records of _workspace_integrate_development_session in their order).
THEOREM IntegrationTheorem == Spec => []IntegrationIsSound
<1>1. Init => IInv
  BY InitInv
<1>2. IInv /\ [Next]_vars => IInv'
  BY StepInv
<1>3. IInv => IntegrationIsSound
  BY InvMeans
<1> QED BY <1>1, <1>2, <1>3, PTL DEF Spec

=============================================================================
