---------------------- MODULE DevelopmentSessions_proofs ----------------------
(* Proofs about DevelopmentSessions: it keeps all work that is in a worktree *)
(* whatever fails and whenever the process dies, with any number of runtimes *)
(* of which none writes into a worktree that another one is about to remove. *)
(*                                                                           *)
(* The effects of a job that can take work away are the forced removal of a  *)
(* worktree and nothing else. It is listed right after the comparison of the *)
(* worktree with its archive, and no failure of that comparison is skipped.  *)
(* The invariant says so of the list of effects of every job; the lemmas say  *)
(* it of the lists that each handler makes, joins and flattens, and of what   *)
(* is left of a list after an effect, after a failure and after a crash.      *)
EXTENDS DevelopmentSessions, SequenceTheorems, FiniteSetTheorems, WellFoundedInduction, TLAPS

-----------------------------------------------------------------------------
(* Lists of effects.                                                        *)

IsList(q) == q \in Seq({q[i] : i \in DOMAIN q})

\* An effect with which a failure may be answered: it touches no archive and no
\* worktree but to remove a clean one.
Meek(e) == e.op \notin {"fill", "publish", "revalidate", "prune", "guard"}
MeekList(q) == IsList(q) /\ \A i \in DOMAIN q : Meek(q[i])

\* What an effect says of contents, worktrees and failures is what it may say.
Proper(e) ==
    /\ e.op = "fill" => e.content \in Contents
    /\ e.op = "publish" => e.tree \in Trees /\ e.content \in Contents
    /\ e.op = "guard" => MeekList(e.undo)
ProperList(q) == IsList(q) /\ \A i \in DOMAIN q : Proper(q[i])

\* An effect that removes no work.
Gentle(e) == Proper(e) /\ e.op \notin {"revalidate", "prune"}
GentleList(q) == IsList(q) /\ \A i \in DOMAIN q : Gentle(q[i])

LEMMA ListFacts ==
    ASSUME NEW q, IsList(q)
    PROVE  /\ Len(q) \in Nat /\ DOMAIN q = 1..Len(q)
           /\ q = <<>> <=> Len(q) = 0
           /\ q = [i \in 1..Len(q) |-> q[i]]
  BY DEF IsList

LEMMA IsListOf ==
    ASSUME NEW S, NEW q \in Seq(S)
    PROVE  IsList(q)
  <1>1. Len(q) \in Nat /\ DOMAIN q = 1..Len(q) /\ q = [i \in 1..Len(q) |-> q[i]]
    BY LenProperties
  <1> QED BY <1>1, SeqDef DEF IsList

LEMMA Indexed ==
    ASSUME NEW n \in Nat, NEW q, DOMAIN q = 1..n, q = [i \in 1..n |-> q[i]]
    PROVE  IsList(q) /\ Len(q) = n
  <1>1. IsList(q)
    BY SeqDef DEF IsList
  <1> QED BY <1>1, LenProperties DEF IsList

LEMMA Joined ==
    ASSUME NEW p, NEW q, IsList(p), IsList(q)
    PROVE  /\ IsList(p \o q)
           /\ Len(p \o q) = Len(p) + Len(q)
           /\ \A i \in DOMAIN (p \o q) :
                 \/ i \in DOMAIN p /\ (p \o q)[i] = p[i]
                 \/ /\ i > Len(p) /\ i - Len(p) \in DOMAIN q
                    /\ (p \o q)[i] = q[i - Len(p)]
  <1> DEFINE S == {p[i] : i \in DOMAIN p} \cup {q[i] : i \in DOMAIN q}
  <1>1. p \in Seq(S) /\ q \in Seq(S)
    <2>1. \A i \in 1..Len(p) : p[i] \in S
      BY ListFacts
    <2>2. \A i \in 1..Len(q) : q[i] \in S
      BY ListFacts
    <2> QED BY <2>1, <2>2, ListFacts, SeqDef
  <1> HIDE DEF S
  <1>2. /\ p \o q \in Seq(S) /\ Len(p \o q) = Len(p) + Len(q)
        /\ \A i \in 1..(Len(p) + Len(q)) :
              (p \o q)[i] = IF i <= Len(p) THEN p[i] ELSE q[i - Len(p)]
    BY <1>1, ConcatProperties
  <1>3. DOMAIN (p \o q) = 1..(Len(p) + Len(q))
    BY <1>2, LenProperties
  <1>4. Len(p) \in Nat /\ Len(q) \in Nat /\ DOMAIN p = 1..Len(p) /\ DOMAIN q = 1..Len(q)
    BY ListFacts
  <1>5. IsList(p \o q)
    BY <1>2, IsListOf
  <1>6. ASSUME NEW i \in DOMAIN (p \o q)
        PROVE  \/ i \in DOMAIN p /\ (p \o q)[i] = p[i]
               \/ /\ i > Len(p) /\ i - Len(p) \in DOMAIN q
                  /\ (p \o q)[i] = q[i - Len(p)]
    <2>1. i \in 1..(Len(p) + Len(q))
      BY <1>3
    <2>2. (p \o q)[i] = IF i <= Len(p) THEN p[i] ELSE q[i - Len(p)]
      BY <1>2, <2>1
    <2>3. CASE i <= Len(p)
      BY <1>4, <2>1, <2>2, <2>3
    <2>4. CASE i > Len(p)
      BY <1>4, <2>1, <2>2, <2>4
    <2> QED BY <1>4, <2>1, <2>3, <2>4
  <1> QED BY <1>2, <1>5, <1>6

LEMMA MeekJoin ==
    ASSUME NEW p, NEW q, MeekList(p), MeekList(q) PROVE MeekList(p \o q)
  BY Joined DEF MeekList

LEMMA GentleJoin ==
    ASSUME NEW p, NEW q, GentleList(p), GentleList(q) PROVE GentleList(p \o q)
  BY Joined DEF GentleList

LEMMA Nothing == MeekList(<<>>) /\ GentleList(<<>>)
  <1>1. <<>> \in Seq({}) /\ Len(<<>>) = 0
    BY EmptySeq
  <1>2. DOMAIN <<>> = 1..0
    BY <1>1, LenProperties
  <1>3. IsList(<<>>)
    BY <1>1, IsListOf
  <1> QED BY <1>2, <1>3 DEF MeekList, GentleList

LEMMA One ==
    ASSUME NEW a
    PROVE  IsList(<<a>>) /\ \A i \in DOMAIN <<a>> : <<a>>[i] \in {a}
  <1>1. <<a>> \in Seq({a}) /\ DOMAIN <<a>> = 1..1
    OBVIOUS
  <1>2. ASSUME NEW i \in 1..1 PROVE <<a>>[i] \in {a}
    OBVIOUS
  <1> QED BY <1>1, <1>2, IsListOf

LEMMA Two ==
    ASSUME NEW a, NEW b
    PROVE  IsList(<<a, b>>) /\ \A i \in DOMAIN <<a, b>> : <<a, b>>[i] \in {a, b}
  <1>1. <<a, b>> \in Seq({a, b}) /\ DOMAIN <<a, b>> = 1..2
    OBVIOUS
  <1>2. ASSUME NEW i \in 1..2 PROVE <<a, b>>[i] \in {a, b}
    OBVIOUS
  <1> QED BY <1>1, <1>2, IsListOf

LEMMA Three ==
    ASSUME NEW a, NEW b, NEW c
    PROVE  IsList(<<a, b, c>>) /\ \A i \in DOMAIN <<a, b, c>> : <<a, b, c>>[i] \in {a, b, c}
  <1>1. <<a, b, c>> \in Seq({a, b, c}) /\ DOMAIN <<a, b, c>> = 1..3
    OBVIOUS
  <1>2. ASSUME NEW i \in 1..3 PROVE <<a, b, c>>[i] \in {a, b, c}
    OBVIOUS
  <1> QED BY <1>1, <1>2, IsListOf

LEMMA Four ==
    ASSUME NEW a, NEW b, NEW c, NEW d
    PROVE  IsList(<<a, b, c, d>>) /\ \A i \in DOMAIN <<a, b, c, d>> : <<a, b, c, d>>[i] \in {a, b, c, d}
  <1>1. <<a, b, c, d>> \in Seq({a, b, c, d}) /\ DOMAIN <<a, b, c, d>> = 1..4
    OBVIOUS
  <1>2. ASSUME NEW i \in 1..4 PROVE <<a, b, c, d>>[i] \in {a, b, c, d}
    OBVIOUS
  <1> QED BY <1>1, <1>2, IsListOf

LEMMA Five ==
    ASSUME NEW a, NEW b, NEW c, NEW d, NEW e
    PROVE  IsList(<<a, b, c, d, e>>) /\ \A i \in DOMAIN <<a, b, c, d, e>> : <<a, b, c, d, e>>[i] \in {a, b, c, d, e}
  <1>1. <<a, b, c, d, e>> \in Seq({a, b, c, d, e}) /\ DOMAIN <<a, b, c, d, e>> = 1..5
    OBVIOUS
  <1>2. ASSUME NEW i \in 1..5 PROVE <<a, b, c, d, e>>[i] \in {a, b, c, d, e}
    OBVIOUS
  <1> QED BY <1>1, <1>2, IsListOf

LEMMA Six ==
    ASSUME NEW a, NEW b, NEW c, NEW d, NEW e, NEW f
    PROVE  IsList(<<a, b, c, d, e, f>>) /\ \A i \in DOMAIN <<a, b, c, d, e, f>> : <<a, b, c, d, e, f>>[i] \in {a, b, c, d, e, f}
  <1>1. <<a, b, c, d, e, f>> \in Seq({a, b, c, d, e, f}) /\ DOMAIN <<a, b, c, d, e, f>> = 1..6
    OBVIOUS
  <1>2. ASSUME NEW i \in 1..6 PROVE <<a, b, c, d, e, f>>[i] \in {a, b, c, d, e, f}
    OBVIOUS
  <1> QED BY <1>1, <1>2, IsListOf

LEMMA Seven ==
    ASSUME NEW a, NEW b, NEW c, NEW d, NEW e, NEW f, NEW g
    PROVE  IsList(<<a, b, c, d, e, f, g>>) /\ \A i \in DOMAIN <<a, b, c, d, e, f, g>> : <<a, b, c, d, e, f, g>>[i] \in {a, b, c, d, e, f, g}
  <1>1. <<a, b, c, d, e, f, g>> \in Seq({a, b, c, d, e, f, g}) /\ DOMAIN <<a, b, c, d, e, f, g>> = 1..7
    OBVIOUS
  <1>2. ASSUME NEW i \in 1..7 PROVE <<a, b, c, d, e, f, g>>[i] \in {a, b, c, d, e, f, g}
    OBVIOUS
  <1> QED BY <1>1, <1>2, IsListOf

-----------------------------------------------------------------------------
(* FlattenSeq, by the least number for which a claim fails.                 *)

LEMMA Least ==
    ASSUME NEW T, T \subseteq Nat, T # {}
    PROVE  \E n \in T : \A k \in T : n <= k
  <1>1. PICK n \in T : \A k \in T : ~(<<k, n>> \in OpToRel(<, Nat))
    BY NatLessThanWellFounded, WFMin
  <1>2. ASSUME NEW k \in T PROVE n <= k
    <2>1. n \in Nat /\ k \in Nat
      OBVIOUS
    <2>2. ~(k < n)
      BY <1>1, <2>1 DEF OpToRel
    <2> QED BY <2>1, <2>2
  <1> QED BY <1>2

\* f flattens the first n sequences of q.
Flattens(q, n, f) ==
    f = [i \in 1..n |-> IF i = 1 THEN q[i] ELSE f[i - 1] \o q[i]]

LEMMA FlatteningExists ==
    ASSUME NEW q, NEW m \in Nat
    PROVE  \E f : Flattens(q, m, f)
  <1> DEFINE T == {n \in Nat : ~\E f : Flattens(q, n, f)}
  <1> SUFFICES ASSUME T # {} PROVE FALSE
    OBVIOUS
  <1>1. PICK n \in T : \A k \in T : n <= k
    BY Least
  <1>2. n \in Nat /\ ~\E f : Flattens(q, n, f)
    BY <1>1
  <1>3. n # 0
    <2> SUFFICES ASSUME n = 0 PROVE FALSE
      OBVIOUS
    <2> DEFINE g == [i \in 1..0 |-> q[i]]
    <2>1. Flattens(q, 0, g)
      BY DEF Flattens
    <2> QED BY <1>2, <2>1
  <1>4. n - 1 \in Nat /\ n - 1 \notin T
    BY <1>1, <1>2, <1>3
  <1>5. PICK f : Flattens(q, n - 1, f)
    BY <1>4
  <1> DEFINE g == [i \in 1..n |-> IF i < n THEN f[i] ELSE IF i = 1 THEN q[i] ELSE f[i - 1] \o q[i]]
  <1>6. ASSUME NEW i \in 1..n
        PROVE  g[i] = IF i = 1 THEN q[i] ELSE g[i - 1] \o q[i]
    <2>1. CASE i = n /\ i = 1
      <3>1. g[i] = IF i < n THEN f[i] ELSE IF i = 1 THEN q[i] ELSE f[i - 1] \o q[i]
        OBVIOUS
      <3>2. ~(i < n)
        BY <1>2, <2>1
      <3> QED BY <2>1, <3>1, <3>2
    <2>2. CASE i = n /\ i # 1
      <3>1. i - 1 \in 1..n /\ i - 1 < n
        BY <1>2, <2>2
      <3>2. g[i - 1] = f[i - 1]
        BY <3>1
      <3>3. g[i] = IF i < n THEN f[i] ELSE IF i = 1 THEN q[i] ELSE f[i - 1] \o q[i]
        OBVIOUS
      <3>4. ~(i < n)
        BY <1>2, <2>2
      <3> HIDE DEF g
      <3> QED BY <2>2, <3>2, <3>3, <3>4
    <2>3. CASE i # n
      <3>1. i \in 1..(n - 1) /\ i < n
        BY <1>2, <2>3
      <3>2. f[i] = IF i = 1 THEN q[i] ELSE f[i - 1] \o q[i]
        BY <1>5, <3>1 DEF Flattens
      <3>3. i # 1 => g[i - 1] = f[i - 1]
        <4> SUFFICES ASSUME i # 1 PROVE g[i - 1] = f[i - 1]
          OBVIOUS
        <4>1. i - 1 \in 1..n /\ i - 1 < n
          BY <1>2, <3>1
        <4> QED BY <4>1
      <3>4. g[i] = f[i]
        BY <3>1
      <3> QED BY <3>2, <3>3, <3>4
    <2> QED BY <2>1, <2>2, <2>3
  <1>7. Flattens(q, n, g)
    <2>1. g = [i \in 1..n |-> g[i]]
      OBVIOUS
    <2> HIDE DEF g
    <2>2. [i \in 1..n |-> g[i]] = [i \in 1..n |-> IF i = 1 THEN q[i] ELSE g[i - 1] \o q[i]]
      BY <1>6
    <2> QED BY <2>1, <2>2 DEF Flattens
  <1> QED BY <1>2, <1>7


\* The elements of p are elements of the sequences that q lists.
Of(p, q, n) ==
    IsList(p) /\ \A k \in DOMAIN p : \E i \in 1..n : \E m \in DOMAIN q[i] : p[k] = q[i][m]

LEMMA FlattenElements ==
    ASSUME NEW q, NEW n \in Nat, DOMAIN q = 1..n, q = [i \in 1..n |-> q[i]],
           \A i \in 1..n : IsList(q[i])
    PROVE  Of(FlattenSeq(q), q, n)
  <1>1. Len(q) = n
    BY Indexed
  <1>2. CASE n = 0
    <2>1. FlattenSeq(q) = q
      BY <1>1, <1>2 DEF FlattenSeq
    <2>2. IsList(q)
      BY Indexed
    <2>3. DOMAIN q = {}
      BY <1>2
    <2> QED BY <2>1, <2>2, <2>3 DEF Of
  <1>3. CASE n # 0
    <2> DEFINE f == CHOOSE f : Flattens(q, n, f)
    <2>1. FlattenSeq(q) = f[n]
      BY <1>1, <1>3, Zenon DEF FlattenSeq, Flattens
    <2>2. Flattens(q, n, f)
      BY FlatteningExists
    <2> HIDE DEF f
    <2> DEFINE T == {i \in 1..n : ~Of(f[i], q, n)}
    <2>3. T = {}
      <3> SUFFICES ASSUME T # {} PROVE FALSE
        OBVIOUS
      <3>1. T \subseteq Nat
        OBVIOUS
      <3>2. PICK i \in T : \A k \in T : i <= k
        BY <3>1, Least
      <3>3. i \in 1..n /\ ~Of(f[i], q, n)
        BY <3>2
      <3>4. f[i] = IF i = 1 THEN q[i] ELSE f[i - 1] \o q[i]
        BY <2>2, <3>3 DEF Flattens
      <3>5. CASE i = 1
        <4>1. IsList(q[i]) /\ f[i] = q[i]
          BY <3>3, <3>4, <3>5
        <4> QED BY <3>3, <4>1 DEF Of
      <3>6. CASE i # 1
        <4>1. i - 1 \in 1..n /\ ~(i <= i - 1)
          BY <3>3, <3>6
        <4>2. i - 1 \notin T
          BY <3>2, <4>1
        <4>3. Of(f[i - 1], q, n) /\ IsList(q[i])
          BY <3>3, <4>1, <4>2
        <4>4. PICK p : p = f[i - 1]
          OBVIOUS
        <4>5. IsList(p \o q[i]) /\ f[i] = p \o q[i]
          BY <3>4, <3>6, <4>3, <4>4, Joined DEF Of
        <4>6. ASSUME NEW k \in DOMAIN (p \o q[i])
              PROVE  \E x \in 1..n : \E m \in DOMAIN q[x] : (p \o q[i])[k] = q[x][m]
          <5>0. PICK b : b = q[i]
            OBVIOUS
          <5>1. Of(p, q, n) /\ IsList(p) /\ IsList(b) /\ k \in DOMAIN (p \o b)
            BY <4>3, <4>4, <5>0 DEF Of
          <5>2. \/ k \in DOMAIN p /\ (p \o b)[k] = p[k]
                \/ k - Len(p) \in DOMAIN b /\ (p \o b)[k] = b[k - Len(p)]
            BY <5>1, Joined
          <5> QED BY <3>3, <5>0, <5>1, <5>2 DEF Of
        <4> QED BY <3>3, <4>5, <4>6 DEF Of
      <3> QED BY <3>5, <3>6
    <2>4. n \in 1..n
      BY <1>3
    <2> QED BY <2>1, <2>3, <2>4
  <1> QED BY <1>2, <1>3

LEMMA FlattenIsGentle ==
    ASSUME NEW q, NEW n \in Nat, DOMAIN q = 1..n, q = [i \in 1..n |-> q[i]],
           \A i \in 1..n : GentleList(q[i])
    PROVE  GentleList(FlattenSeq(q))
  <1>1. Of(FlattenSeq(q), q, n)
    BY FlattenElements DEF GentleList
  <1> QED BY <1>1 DEF Of, GentleList

LEMMA FlattenIsMeek ==
    ASSUME NEW q, NEW n \in Nat, DOMAIN q = 1..n, q = [i \in 1..n |-> q[i]],
           \A i \in 1..n : MeekList(q[i])
    PROVE  MeekList(FlattenSeq(q))
  <1>1. Of(FlattenSeq(q), q, n)
    BY FlattenElements DEF MeekList
  <1> QED BY <1>1 DEF Of, MeekList
-----------------------------------------------------------------------------
(* Jobs.                                                                    *)

IsJob(j) == j = [todo |-> j.todo, undo |-> j.undo, safe |-> j.safe]

HasCheck(q) == \E i \in DOMAIN q : q[i].op = "revalidate"

\* A worktree that is gone, is clean, or is archived as it is.
Spare(w, t, as) == t[w] \in {None, 0} \/ \E a \in as : a.tree = w /\ a.content = t[w]

\* A worktree is removed by force right after it has been compared with its archive.
PrunesChecked(q, t, as) ==
    \A i \in DOMAIN q : q[i].op = "prune" =>
        IF i = 1 THEN Spare(q[i].tree, t, as)
        ELSE q[i - 1].op = "revalidate" /\ q[i - 1].tree = q[i].tree

\* Nothing before such a comparison makes the job skip what fails.
ChecksGuarded(q) ==
    \A i \in DOMAIN q : q[i].op = "revalidate" =>
        \A k \in DOMAIN q : k < i /\ q[k].op = "guard" => ~q[k].safe

JobFits(j, t, as) ==
    /\ IsJob(j)
    /\ ProperList(j.todo) /\ MeekList(j.undo)
    /\ PrunesChecked(j.todo, t, as) /\ ChecksGuarded(j.todo)
    /\ HasCheck(j.todo) => ~j.safe

LEMMA GentleFits ==
    ASSUME NEW q, GentleList(q), NEW t, NEW as
    PROVE  ProperList(q) /\ PrunesChecked(q, t, as) /\ ChecksGuarded(q) /\ ~HasCheck(q)
  BY DEF GentleList, Gentle, ProperList, PrunesChecked, ChecksGuarded, HasCheck

LEMMA FreeFits == ASSUME NEW t, NEW as PROVE JobFits(Free, t, as)
  <1>1. IsJob(Free) /\ Free.todo = <<>> /\ Free.undo = <<>>
    BY DEF Free, IsJob
  <1> QED BY <1>1, Nothing, GentleFits DEF JobFits

LEMMA UpTo == ASSUME NEW n \in Nat PROVE IsFiniteSet(1..n) /\ Cardinality(1..n) = n
  <1>1. 1 \in Int /\ n \in Int
    OBVIOUS
  <1>2. IsFiniteSet(1..n) /\ Cardinality(1..n) = IF 1 > n THEN 0 ELSE n - 1 + 1
    BY <1>1, FS_Interval
  <1> QED BY <1>2

\* The effects that take place at once are before any other.
LEMMA LeadingBefore ==
    ASSUME NEW q, IsList(q), NEW p \in DOMAIN q, q[p].op \notin Private
    PROVE  /\ Cardinality(Leading(q)) \in Nat /\ Cardinality(Leading(q)) < p
           /\ \A i \in Leading(q) : i < p
  <1>1. Len(q) \in Nat /\ DOMAIN q = 1..Len(q) /\ p \in 1..Len(q)
    BY ListFacts
  <1>2. ASSUME NEW i \in Leading(q) PROVE i \in 1..(p - 1)
    <2>1. i \in 1..Len(q) /\ \A k \in 1..i : q[k].op \in Private
      BY <1>1 DEF Leading
    <2>2. ~(p \in 1..i)
      BY <2>1
    <2> QED BY <1>1, <2>1, <2>2
  <1>3. Leading(q) \subseteq 1..(p - 1)
    BY <1>2
  <1>4. IsFiniteSet(1..(p - 1)) /\ Cardinality(1..(p - 1)) = p - 1
    <2>1. p - 1 \in Nat
      BY <1>1
    <2> QED BY <2>1, UpTo
  <1>5. Cardinality(Leading(q)) \in Nat /\ Cardinality(Leading(q)) <= p - 1
    BY <1>3, <1>4, FS_Subset, FS_CardinalityType
  <1> QED BY <1>1, <1>2, <1>5

LEMMA LeadingCounted ==
    ASSUME NEW q, IsList(q)
    PROVE  Cardinality(Leading(q)) \in 0..Len(q) /\ Leading(q) \subseteq DOMAIN q
  <1>1. Len(q) \in Nat /\ DOMAIN q = 1..Len(q)
    BY ListFacts
  <1>2. Leading(q) \subseteq 1..Len(q)
    BY <1>1 DEF Leading
  <1>3. IsFiniteSet(1..Len(q)) /\ Cardinality(1..Len(q)) = Len(q)
    BY <1>1, UpTo
  <1>4. Cardinality(Leading(q)) \in Nat /\ Cardinality(Leading(q)) <= Len(q)
    BY <1>2, <1>3, FS_Subset, FS_CardinalityType
  <1> QED BY <1>1, <1>2, <1>4

\* A set of places has a last one.
LEMMA Latest ==
    ASSUME NEW q, IsList(q), NEW G, G \subseteq DOMAIN q, G # {}
    PROVE  \E i \in G : \A m \in G : m <= i
  <1> DEFINE n == Len(q)
             T == {n - k : k \in G}
  <1>1. n \in Nat /\ G \subseteq 1..n
    BY ListFacts
  <1> HIDE DEF n
  <1>2. T \subseteq Nat /\ T # {}
    <2>1. ASSUME NEW k \in G PROVE n - k \in Nat
      <3>1. k \in 1..n
        BY <1>1
      <3>2. k \in Int /\ k <= n
        BY <3>1
      <3> QED BY <1>1, <3>2
    <2> QED BY <2>1
  <1>3. PICK x \in T : \A y \in T : x <= y
    BY <1>2, Least
  <1>4. PICK i \in G : x = n - i
    OBVIOUS
  <1>5. ASSUME NEW k \in G PROVE k <= i
    <2>1. n - i <= n - k
      BY <1>3, <1>4
    <2>2. k \in Int /\ i \in Int
      BY <1>1
    <2> QED BY <1>1, <2>1, <2>2
  <1> QED BY <1>5

\* The end of a list, from some place on.
LEMMA EndOf ==
    ASSUME NEW q, IsList(q), NEW n \in Nat
    PROVE  LET e == SubSeq(q, n + 1, Len(q)) IN
           /\ IsList(e) /\ (n <= Len(q) => Len(e) = Len(q) - n)
           /\ \A i \in DOMAIN e : n + i \in DOMAIN q /\ e[i] = q[n + i]
  <1> DEFINE e == SubSeq(q, n + 1, Len(q))
             S == {q[i] : i \in DOMAIN q}
  <1>1. Len(q) \in Nat /\ DOMAIN q = 1..Len(q)
    BY ListFacts
  <1>2. n + 1 \in Int /\ Len(q) \in Int
    BY <1>1
  <1>3. \A i \in (n + 1)..Len(q) : q[i] \in S
    BY <1>1
  <1> HIDE DEF S
  <1>4. /\ e \in Seq(S) /\ Len(e) = IF n + 1 <= Len(q) THEN Len(q) - (n + 1) + 1 ELSE 0
        /\ \A i \in 1..(Len(q) - (n + 1) + 1) : e[i] = q[(n + 1) + i - 1]
    BY <1>2, <1>3, SubSeqProperties
  <1> HIDE DEF e
  <1>5. IsList(e) /\ DOMAIN e = 1..Len(e)
    BY <1>4, IsListOf, ListFacts
  <1>6. n <= Len(q) => Len(e) = Len(q) - n
    BY <1>1, <1>4
  <1>7. ASSUME NEW i \in DOMAIN e PROVE n + i \in DOMAIN q /\ e[i] = q[n + i]
    <2>0. i \in 1..Len(e) /\ Len(e) # 0
      BY <1>4, <1>5
    <2>1. i \in 1..Len(e) /\ n + 1 <= Len(q)
      BY <1>4, <2>0
    <2>2. i \in 1..(Len(q) - (n + 1) + 1) /\ (n + 1) + i - 1 = n + i
      BY <1>1, <1>4, <2>1
    <2> QED BY <1>1, <1>4, <2>1, <2>2
  <1> QED BY <1>5, <1>6, <1>7 DEF e

\* A job that is sound goes on as one that is.
LEMMA ContinueFits ==
    ASSUME NEW r \in Runtimes, NEW j, NEW objs, NEW t, NEW as,
           job = [x \in Runtimes |-> job[x]],
           Continue(r, j, objs),
           ProperList(j.todo), MeekList(j.undo),
           PrunesChecked(j.todo, t, as), ChecksGuarded(j.todo),
           HasCheck(j.todo) => ~j.safe \/ j.todo[1].op = "guard"
    PROVE  JobFits(job'[r], t, as)
  <1> DEFINE q == j.todo
             n == Cardinality(Leading(q))
             on == InForce(j, Leading(q))
             rest == SubSeq(q, n + 1, Len(q))
  <1>1. job'[r] = IF rest = <<>> THEN Free ELSE [todo |-> rest, undo |-> on.undo, safe |-> on.safe]
    BY DEF Continue
  <1>2. CASE rest = <<>>
    BY <1>1, <1>2, FreeFits
  <1>3. CASE rest # <<>>
    <2> DEFINE k == [todo |-> rest, undo |-> on.undo, safe |-> on.safe]
    <2>1. job'[r] = k /\ IsJob(k) /\ k.todo = rest /\ k.undo = on.undo /\ k.safe = on.safe
      BY <1>1, <1>3 DEF IsJob
    <2> HIDE DEF k
    <2>2. IsList(q) /\ n \in 0..Len(q) /\ Leading(q) \subseteq DOMAIN q
      BY LeadingCounted DEF ProperList
    <2>3. /\ IsList(rest) /\ n \in Nat
          /\ \A i \in DOMAIN rest : n + i \in DOMAIN q /\ rest[i] = q[n + i]
      BY <2>2, EndOf, ListFacts
    <2>4. DOMAIN rest \subseteq Nat \ {0} /\ DOMAIN q \subseteq Nat \ {0} /\ DOMAIN rest = 1..Len(rest)
          /\ Len(rest) \in Nat
      BY <2>2, <2>3, ListFacts
    <2> DEFINE guards == {i \in Leading(q) : q[i].op = "guard"}
    <2>5. \/ guards = {} /\ on = j
          \/ \E g \in guards : on = q[g]
      <3>1. CASE guards = {}
        BY <3>1 DEF InForce
      <3>2. CASE guards # {}
        <4> DEFINE last(i) == \A m \in guards : m <= i
        <4>1. on = q[CHOOSE i \in guards : last(i)]
          BY <3>2 DEF InForce
        <4>2. \E i \in guards : last(i)
          BY <2>2, <3>2, Latest
        <4> QED BY <4>1, <4>2
      <3> QED BY <3>1, <3>2
    <2> HIDE DEF on, rest, n
    <2>6. ProperList(rest)
      BY <2>3 DEF ProperList
    <2>7. MeekList(on.undo)
      BY <2>2, <2>5 DEF ProperList, Proper
    <2>8. ASSUME NEW i \in DOMAIN rest, rest[i].op = "prune"
          PROVE  IF i = 1 THEN Spare(rest[i].tree, t, as)
                 ELSE rest[i - 1].op = "revalidate" /\ rest[i - 1].tree = rest[i].tree
      <3>1. n + i \in DOMAIN q /\ rest[i] = q[n + i] /\ i \in Nat \ {0}
        BY <2>3, <2>4
      <3>0. PICK p \in DOMAIN q : p = n + i
        BY <3>1
      <3>p. IF p = 1 THEN Spare(q[p].tree, t, as)
            ELSE q[p - 1].op = "revalidate" /\ q[p - 1].tree = q[p].tree
        <4>1. q[p].op = "prune"
          BY <2>8, <3>0, <3>1
        <4> QED BY <4>1 DEF PrunesChecked
      <3>2. CASE n + i = 1
        <4>1. n = 0 /\ i = 1
          BY <2>3, <3>1, <3>2
        <4>2. p = 1 /\ rest[i] = q[p]
          BY <3>0, <3>1, <3>2
        <4> QED BY <3>p, <4>1, <4>2
      <3>3. CASE n + i # 1
        <4>1. q[n + i - 1].op = "revalidate" /\ q[n + i - 1].tree = q[n + i].tree
          <5>1. p - 1 = n + i - 1 /\ p # 1
            BY <2>3, <3>0, <3>1, <3>3
          <5>2. q[p - 1].op = "revalidate" /\ q[p - 1].tree = q[p].tree
            BY <3>p, <5>1
          <5> HIDE DEF q
          <5> QED BY <3>0, <5>1, <5>2
        <4>2. n + i - 1 \in DOMAIN q
          BY <2>2, <2>3, <2>4, <3>1, <3>3, ListFacts
        <4>3. n < n + i - 1
          BY <2>2, <4>1, <4>2, LeadingBefore DEF n, Private
        <4>4. i # 1 /\ i - 1 \in DOMAIN rest /\ n + (i - 1) = n + i - 1
          BY <2>3, <2>4, <3>1, <4>3
        <4>5. rest[i - 1] = q[n + i - 1]
          BY <2>3, <4>4
        <4> QED BY <3>1, <4>1, <4>4, <4>5
      <3> QED BY <3>2, <3>3
    <2>9. ASSUME NEW i \in DOMAIN rest, rest[i].op = "revalidate",
                 NEW m \in DOMAIN rest, m < i, rest[m].op = "guard"
          PROVE  ~rest[m].safe
      <3>1. n + i \in DOMAIN q /\ n + m \in DOMAIN q /\ n + m < n + i
        BY <2>3, <2>4, <2>9
      <3> QED BY <2>3, <2>9, <3>1 DEF ChecksGuarded
    <2>10. ASSUME NEW i \in DOMAIN rest, rest[i].op = "revalidate" PROVE ~on.safe
      <3>1. n + i \in DOMAIN q /\ q[n + i].op = "revalidate"
        BY <2>3, <2>10
      <3>2. \A g \in Leading(q) : g < n + i
        BY <2>2, <3>1, LeadingBefore DEF Private
      <3>3. CASE guards = {}
        <4>1. on = j
          BY <2>5, <3>3
        <4>2. q[1].op # "guard"
          <5> SUFFICES ASSUME q[1].op = "guard" PROVE FALSE
            OBVIOUS
          <5>1. 1 \in DOMAIN q
            BY <2>2, <2>4, <3>1, ListFacts
          <5>2. 1 \in Leading(q)
            BY <5>1 DEF Leading, Private
          <5> QED BY <3>3, <5>2
        <4> QED BY <3>1, <4>1, <4>2 DEF HasCheck
      <3>4. CASE guards # {}
        <4>1. PICK g \in guards : on = q[g]
          BY <2>5, <3>4
        <4>2. g \in DOMAIN q /\ g < n + i /\ q[g].op = "guard"
          BY <2>2, <3>2
        <4> QED BY <3>1, <4>1, <4>2 DEF ChecksGuarded
      <3> QED BY <3>3, <3>4
    <2> QED
      BY <2>1, <2>6, <2>7, <2>8, <2>9, <2>10 DEF JobFits, PrunesChecked, ChecksGuarded, HasCheck
  <1> QED BY <1>2, <1>3

-----------------------------------------------------------------------------
(* The effects of the handlers, and lists of them.                          *)

LEMMA MeekIsGentle == ASSUME NEW e, Meek(e) PROVE Gentle(e)
  BY DEF Meek, Gentle, Proper

LEMMA MeekListIsGentle == ASSUME NEW q, MeekList(q) PROVE GentleList(q)
  BY MeekIsGentle DEF MeekList, GentleList

LEMMA MeekEffects ==
    ASSUME NEW a, NEW b, NEW c
    PROVE  /\ Meek(MakeTree(a)) /\ Meek(DropTree(a))
           /\ Meek(Sidecar(a, b)) /\ Meek(LastSidecar(a, b)) /\ Meek(NoSidecar(a))
           /\ Meek(Row(a, b)) /\ Meek(RowState(a, b, c))
           /\ Meek(Object(a, b)) /\ Meek(Attach(a, b, c))
           /\ Meek(Detach(a)) /\ Meek(Deselect(a)) /\ Meek(Forget(a))
           /\ Meek(Acquire(a, b)) /\ Meek(Release(a)) /\ Meek(Suspend(a))
           /\ Meek(Enqueue(a, b, c)) /\ Meek(Bind(a, b, c)) /\ Meek(Move(a, b))
           /\ Meek(Reactivate(a)) /\ Meek(Settle(a)) /\ Meek(MarkPruned(a, b))
           /\ Meek(Claim(a, b)) /\ Meek(Salvage(a, b)) /\ Meek(Apply(a))
           /\ Meek(Shut) /\ Meek(Limit(a)) /\ Meek(Collect(a)) /\ Meek(Provision(a))
  BY DEF Meek, MakeTree, DropTree, Sidecar, LastSidecar, NoSidecar, Row, RowState, Object,
         Attach, Detach, Deselect, Forget, Acquire, Release, Suspend, Enqueue, Bind, Move,
         Reactivate, Settle, MarkPruned, Claim, Salvage, Apply, Shut, Limit, Collect, Provision

LEMMA GentleGuards ==
    /\ Gentle(Tolerant)
    /\ \A u : MeekList(u) => Gentle(OnFailure(u))
  BY Nothing DEF Gentle, Proper, Tolerant, OnFailure

LEMMA MeekOne ==
    ASSUME NEW a, Meek(a)
    PROVE  MeekList(<<a>>)
  BY One DEF MeekList

LEMMA GentleOne ==
    ASSUME NEW a, Gentle(a)
    PROVE  GentleList(<<a>>)
  BY One DEF GentleList

LEMMA MeekTwo ==
    ASSUME NEW a, NEW b, Meek(a), Meek(b)
    PROVE  MeekList(<<a, b>>)
  BY Two DEF MeekList

LEMMA GentleTwo ==
    ASSUME NEW a, NEW b, Gentle(a), Gentle(b)
    PROVE  GentleList(<<a, b>>)
  BY Two DEF GentleList

LEMMA MeekThree ==
    ASSUME NEW a, NEW b, NEW c, Meek(a), Meek(b), Meek(c)
    PROVE  MeekList(<<a, b, c>>)
  BY Three DEF MeekList

LEMMA GentleThree ==
    ASSUME NEW a, NEW b, NEW c, Gentle(a), Gentle(b), Gentle(c)
    PROVE  GentleList(<<a, b, c>>)
  BY Three DEF GentleList

LEMMA MeekFour ==
    ASSUME NEW a, NEW b, NEW c, NEW d, Meek(a), Meek(b), Meek(c), Meek(d)
    PROVE  MeekList(<<a, b, c, d>>)
  BY Four DEF MeekList

LEMMA GentleFour ==
    ASSUME NEW a, NEW b, NEW c, NEW d, Gentle(a), Gentle(b), Gentle(c), Gentle(d)
    PROVE  GentleList(<<a, b, c, d>>)
  BY Four DEF GentleList

LEMMA MeekFive ==
    ASSUME NEW a, NEW b, NEW c, NEW d, NEW e, Meek(a), Meek(b), Meek(c), Meek(d), Meek(e)
    PROVE  MeekList(<<a, b, c, d, e>>)
  BY Five DEF MeekList

LEMMA GentleFive ==
    ASSUME NEW a, NEW b, NEW c, NEW d, NEW e, Gentle(a), Gentle(b), Gentle(c), Gentle(d), Gentle(e)
    PROVE  GentleList(<<a, b, c, d, e>>)
  BY Five DEF GentleList

LEMMA GentleSix ==
    ASSUME NEW a, NEW b, NEW c, NEW d, NEW e, NEW f, Gentle(a), Gentle(b), Gentle(c), Gentle(d), Gentle(e), Gentle(f)
    PROVE  GentleList(<<a, b, c, d, e, f>>)
  BY Six DEF GentleList

LEMMA GentleSeven ==
    ASSUME NEW a, NEW b, NEW c, NEW d, NEW e, NEW f, NEW g, Gentle(a), Gentle(b), Gentle(c), Gentle(d), Gentle(e), Gentle(f), Gentle(g)
    PROVE  GentleList(<<a, b, c, d, e, f, g>>)
  BY Seven DEF GentleList

LEMMA Written ==
    ASSUME NEW s, NEW v
    PROVE  MeekList(Store(s, v)) /\ MeekList(Save(s, v)) /\ MeekList(Retire(s))
  <1>1. MeekList(Store(s, v))
    BY MeekEffects, MeekTwo DEF Store
  <1>2. MeekList(<<Object(s, v)>>)
    BY MeekEffects, MeekOne
  <1>3. MeekList(Save(s, v))
    BY <1>1, <1>2, MeekJoin DEF Save
  <1>4. Meek([op |-> "close", session |-> s]) /\ Meek([op |-> "clear", session |-> s])
    BY DEF Meek
  <1>5. MeekList(Retire(s))
    BY <1>4, MeekEffects, MeekThree DEF Retire
  <1> QED BY <1>1, <1>3, <1>5

LEMMA WrittenOf ==
    ASSUME NEW r, NEW s, NEW v
    PROVE  MeekList(ObjectOf(r, s, v)) /\ MeekList(SaveOf(r, s, v))
  <1>1. MeekList(ObjectOf(r, s, v))
    BY Nothing, MeekEffects, MeekOne DEF ObjectOf
  <1> QED BY <1>1, Written, MeekJoin DEF SaveOf

\* One effect for each of n.
LEMMA EachGentle ==
    ASSUME NEW n \in Nat, NEW q, DOMAIN q = 1..n, q = [i \in 1..n |-> q[i]],
           \A i \in 1..n : Gentle(q[i])
    PROVE  GentleList(q)
  BY Indexed DEF GentleList

LEMMA Counted ==
    ASSUME NEW S, S \subseteq Sessions
    PROVE  Cardinality(S) \in Nat
  <1>1. MaxSessions \in Nat
    BY NumbersAssumption
  <1>2. IsFiniteSet(1..MaxSessions)
    BY <1>1, UpTo
  <1> QED BY <1>2, FS_Subset, FS_CardinalityType DEF Sessions

-----------------------------------------------------------------------------
(* The invariant, and what a step does to it.                               *)

ArchivesFit ==
    \A a \in archive :
        /\ a.tree \in Trees /\ a.content \in Contents
        /\ a = [tree |-> a.tree, content |-> a.content, aliases |-> a.aliases, pruned |-> a.pruned]

TreesFit == tree \in [Trees -> Contents \cup {None}]

JobsFit ==
    /\ job = [r \in Runtimes |-> job[r]]
    /\ \A r \in Runtimes : JobFits(job[r], tree, archive)

WorkInv == TreesFit /\ ArchivesFit /\ JobsFit

\* The one thing the theorem excludes: a runtime puts changes into a worktree that
\* another has compared with its archive and removes next.
Removes(r, w) == LET q == job[r].todo IN 1 \in DOMAIN q /\ q[1].op = "prune" /\ q[1].tree = w

Undisturbed ==
    \A r \in Runtimes : \A w :
        Removes(r, w) /\ job'[r] = job[r] => tree'[w] \in {tree[w], None, 0}

\* Archives may be marked, and none goes away.
Grown == \A a \in archive : \E b \in archive' : b.tree = a.tree /\ b.content = a.content

\* The jobs of the runtimes that do not take this step.
LEMMA OthersFit ==
    ASSUME Undisturbed, WorkInv, Grown, NEW x \in Runtimes, job'[x] = job[x]
    PROVE  JobFits(job'[x], tree', archive')
  <1>1. JobFits(job[x], tree, archive)
    BY DEF WorkInv, JobsFit
  <1>2. PICK q : q = job[x].todo
    OBVIOUS
  <1>3. PrunesChecked(q, tree, archive)
    BY <1>1, <1>2 DEF JobFits
  <1>4. ASSUME NEW i \in DOMAIN q, q[i].op = "prune", i = 1
        PROVE  Spare(q[i].tree, tree', archive')
    <2>1. PICK w : w = q[i].tree
      OBVIOUS
    <2>2. Spare(w, tree, archive)
      BY <1>3, <1>4, <2>1 DEF PrunesChecked
    <2>3. Removes(x, w)
      BY <1>2, <1>4, <2>1 DEF Removes
    <2>4. tree'[w] \in {tree[w], None, 0}
      BY <2>3 DEF Undisturbed
    <2>5. CASE \E a \in archive : a.tree = w /\ a.content = tree[w]
      <3>1. \E b \in archive' : b.tree = w /\ b.content = tree[w]
        BY <2>5 DEF Grown
      <3> QED BY <2>1, <2>4, <3>1 DEF Spare
    <2> QED BY <2>1, <2>2, <2>4, <2>5 DEF Spare
  <1>5. PrunesChecked(q, tree', archive')
    BY <1>3, <1>4 DEF PrunesChecked
  <1> QED BY <1>1, <1>2, <1>5 DEF JobFits

LEMMA OnlyJob ==
    ASSUME Undisturbed, WorkInv, Grown, NEW r \in Runtimes, NEW j, NEW objs,
           Continue(r, j, objs), JobFits(job'[r], tree', archive')
    PROVE  JobsFit'
  <1>1. job' = [x \in Runtimes |-> job'[x]]
    BY DEF WorkInv, JobsFit, Continue
  <1>2. \A x \in Runtimes \ {r} : job'[x] = job[x]
    BY DEF WorkInv, JobsFit, Continue
  <1>3. \A x \in Runtimes : JobFits(job'[x], tree', archive')
    BY <1>2, OthersFit
  <1> QED BY <1>1, <1>3 DEF JobsFit

LEMMA GentleJob ==
    ASSUME Undisturbed, WorkInv, NEW r \in Runtimes, NEW j, NEW objs, Continue(r, j, objs),
           GentleList(j.todo), MeekList(j.undo), TreesFit', ArchivesFit', Grown
    PROVE  WorkInv'
  <1>1. /\ ProperList(j.todo) /\ PrunesChecked(j.todo, tree', archive')
        /\ ChecksGuarded(j.todo) /\ ~HasCheck(j.todo)
    BY GentleFits
  <1>2. job = [x \in Runtimes |-> job[x]]
    BY DEF WorkInv, JobsFit
  <1>3. JobFits(job'[r], tree', archive')
    BY <1>1, <1>2, ContinueFits
  <1> QED BY <1>3, OnlyJob DEF WorkInv

LEMMA SameWork ==
    ASSUME WorkInv, UNCHANGED <<tree, archive>> PROVE TreesFit' /\ ArchivesFit' /\ Grown
  BY DEF WorkInv, TreesFit, ArchivesFit, Grown

LEMMA BeginStep ==
    ASSUME Undisturbed, WorkInv, NEW r \in Runtimes, NEW todo, GentleList(todo), Begin(r, todo)
    PROVE  WorkInv' /\ UNCHANGED <<tree, archive>>
  <1> DEFINE j == [todo |-> todo, undo |-> <<>>, safe |-> FALSE]
  <1>1. Continue(r, j, mem[r]) /\ UNCHANGED <<tree, archive>>
    BY DEF Begin, work
  <1>2. j.todo = todo /\ j.undo = <<>>
    OBVIOUS
  <1> HIDE DEF j
  <1> QED BY <1>1, <1>2, Nothing, SameWork, GentleJob

-----------------------------------------------------------------------------
(* The handlers: what they begin removes no work.                           *)

LEMMA SuspendAllGentle == ASSUME NEW r PROVE GentleList(SuspendAll(r))
  <1>1. ASSUME NEW s PROVE GentleList(SuspendSteps(r, s))
    <2> DEFINE v == mem[r][s]
               w == Marked(v, "suspended")
               a == IF task[v.task].state = "running" THEN <<Move(v.task, "stale")>> ELSE <<>>
               b == <<Object(s, w), OnFailure(Save(s, v))>>
               c == Store(s, w)
               d == <<OnFailure(<<>>), Detach(s)>>
    <2>1. GentleList(a)
      BY Nothing, MeekEffects, MeekIsGentle, GentleOne
    <2>2. GentleList(b)
      BY Written, MeekEffects, MeekIsGentle, GentleGuards, GentleTwo
    <2>3. GentleList(c)
      BY Written, MeekListIsGentle
    <2>4. GentleList(d)
      BY Nothing, MeekEffects, MeekIsGentle, GentleGuards, GentleTwo
    <2>5. SuspendSteps(r, s) = ((a \o b) \o c) \o d
      BY DEF SuspendSteps
    <2> HIDE DEF a, b, c, d
    <2> QED BY <2>1, <2>2, <2>3, <2>4, <2>5, GentleJoin
  <1> DEFINE n == Cardinality(Inactive(r))
             q == [i \in 1..n |->
                    SuspendSteps(r, SetToSortSeq(Inactive(r), LAMBDA a, b : a < b)[i])]
  <1>2. n \in Nat
    BY Counted DEF Inactive
  <1>3. SuspendAll(r) = FlattenSeq(q)
    BY DEF SuspendAll
  <1>4. \A i \in 1..n : GentleList(q[i])
    BY <1>1
  <1> HIDE DEF n
  <1>5. DOMAIN q = 1..n /\ q = [i \in 1..n |-> q[i]]
    OBVIOUS
  <1> HIDE DEF q
  <1> QED BY <1>2, <1>3, <1>4, <1>5, FlattenIsGentle

LEMMA ReconcileStep ==
    ASSUME Undisturbed, WorkInv, NEW r \in Runtimes, ReconcileInactive(r)
    PROVE  WorkInv' /\ UNCHANGED <<tree, archive>>
  BY SuspendAllGentle, BeginStep DEF ReconcileInactive, BeginPlain

LEMMA CreateStep ==
    ASSUME Undisturbed, WorkInv, NEW r \in Runtimes, Create(r)
    PROVE  WorkInv' /\ UNCHANGED <<tree, archive>>
  <1> DEFINE s == Next1
             v == Fresh(s, None)
             u == <<NoSidecar(s), DropTree(s)>>
             a == <<OnFailure(u), MakeTree(s)>>
             b == Store(s, v)
             c == <<Attach(s, v, "first")>>
  <1>1. Begin(r, (a \o b) \o c)
    BY DEF Create, BeginWithId
  <1>2. MeekList(u)
    BY MeekEffects, MeekTwo
  <1>3. GentleList(a)
    <2> HIDE DEF u
    <2> QED BY <1>2, MeekEffects, MeekIsGentle, GentleGuards, GentleTwo
  <1>4. GentleList(b) /\ GentleList(c)
    BY Written, MeekListIsGentle, MeekEffects, MeekOne
  <1> HIDE DEF a, b, c
  <1> QED BY <1>1, <1>3, <1>4, GentleJoin, BeginStep

LEMMA EnqueueStep ==
    ASSUME Undisturbed, WorkInv, NEW r \in Runtimes, Start(r) \/ PlanTask(r)
    PROVE  WorkInv' /\ UNCHANGED <<tree, archive>>
  <1>1. CASE Start(r)
    <2> DEFINE q == <<Enqueue(Next1, None, None), Provision(Next1)>>
    <2>1. Begin(r, q)
      BY <1>1 DEF Start, BeginWithId
    <2>2. GentleList(q)
      BY MeekEffects, MeekTwo, MeekListIsGentle
    <2> QED BY <2>1, <2>2, BeginStep
  <1>2. CASE PlanTask(r)
    <2> DEFINE q == <<Enqueue(Next1, None, None)>>
    <2>1. Begin(r, q)
      BY <1>2 DEF PlanTask, BeginWithId
    <2>2. GentleList(q)
      BY MeekEffects, MeekOne, MeekListIsGentle
    <2> QED BY <2>1, <2>2, BeginStep
  <1> QED BY <1>1, <1>2

LEMMA UndoStartMeek == ASSUME NEW s PROVE MeekList(UndoStart(s))
  BY MeekEffects, MeekFive DEF UndoStart

LEMMA DispatchStep ==
    ASSUME Undisturbed, WorkInv, NEW r \in Runtimes, Dispatch(r)
    PROVE  WorkInv' /\ UNCHANGED <<tree, archive>>
  <1> DEFINE s == Next1
  <1>1. PICK t \in Tasks :
          Begin(r, <<OnFailure(UndoStart(s)), MakeTree(s)>> \o Store(s, Fresh(s, t))
                     \o <<Attach(s, Fresh(s, t), "never"), Acquire(s, t), Bind(t, s, s),
                          Move(t, "running")>>)
    BY DEF Dispatch, BeginWithId
  <1> DEFINE a == <<OnFailure(UndoStart(s)), MakeTree(s)>>
             b == Store(s, Fresh(s, t))
             c == <<Attach(s, Fresh(s, t), "never"), Acquire(s, t), Bind(t, s, s),
                    Move(t, "running")>>
  <1>2. GentleList(a)
    BY UndoStartMeek, MeekEffects, MeekIsGentle, GentleGuards, GentleTwo
  <1>3. GentleList(b) /\ GentleList(c)
    BY Written, MeekListIsGentle, MeekEffects, MeekFour
  <1>4. Begin(r, (a \o b) \o c)
    BY <1>1
  <1> HIDE DEF a, b, c
  <1> QED BY <1>2, <1>3, <1>4, GentleJoin, BeginStep

LEMMA ReclaimStep ==
    ASSUME Undisturbed, WorkInv, NEW r \in Runtimes, Reclaim(r)
    PROVE  WorkInv' /\ UNCHANGED <<tree, archive>>
  <1>1. PICK s \in Sessions :
          Begin(r, <<Attach(s, mem[r][s], "never"), OnFailure(<<Detach(s)>>), Row(s, mem[r][s])>>)
    BY DEF Reclaim, BeginPlain
  <1>2. MeekList(<<Detach(s)>>)
    BY MeekEffects, MeekOne
  <1>3. Gentle(OnFailure(<<Detach(s)>>))
    BY <1>2, GentleGuards
  <1>4. Gentle(Attach(s, mem[r][s], "never")) /\ Gentle(Row(s, mem[r][s]))
    BY MeekEffects, MeekIsGentle
  <1>5. GentleList(<<Attach(s, mem[r][s], "never"), OnFailure(<<Detach(s)>>), Row(s, mem[r][s])>>)
    BY <1>3, <1>4, GentleThree
  <1> QED BY <1>1, <1>5, BeginStep

LEMMA SynchronizeStep ==
    ASSUME Undisturbed, WorkInv, NEW r \in Runtimes, Synchronize(r)
    PROVE  WorkInv' /\ UNCHANGED <<tree, archive>>
  <1> DEFINE s == chosen[r]
             v == mem[r][s]
             gone == v = None \/ v.life \in {"integrated", "cleanup_candidate"}
             u == IF gone THEN v ELSE [v EXCEPT !.stale = TRUE]
             a == <<Deselect(s)>>
             b == IF gone THEN <<>> ELSE <<Object(s, u), LastSidecar(s, u)>>
             j == [todo |-> a \o b, undo |-> <<>>, safe |-> TRUE]
  <1>1. Continue(r, j, mem[r]) /\ UNCHANGED <<tree, archive>>
    BY DEF Synchronize, work
  <1>2. GentleList(a)
    BY MeekEffects, MeekOne, MeekListIsGentle
  <1>3. GentleList(b)
    <2> HIDE DEF gone, u
    <2> QED BY MeekEffects, MeekTwo, MeekListIsGentle, Nothing
  <1> HIDE DEF a, b
  <1>4. j.todo = a \o b /\ j.undo = <<>>
    OBVIOUS
  <1> HIDE DEF j
  <1> QED BY <1>1, <1>2, <1>3, <1>4, GentleJoin, Nothing, SameWork, GentleJob

LEMMA IntegrateStep ==
    ASSUME Undisturbed, WorkInv, NEW r \in Runtimes, Integrate(r)
    PROVE  WorkInv' /\ UNCHANGED <<tree, archive>>
  <1>1. PICK s \in Sessions :
          LET v == [mem[r][s] EXCEPT !.life = "integrated"]
          IN  Begin(r, <<Apply(v.tree), Object(s, v), Sidecar(s, v), Release(v.tree),
                         RowState(s, "integrated", FALSE), Move(v.task, "settled")>>)
    BY DEF Integrate, BeginPlain
  <1> DEFINE v == [mem[r][s] EXCEPT !.life = "integrated"]
             q == <<Apply(v.tree), Object(s, v), Sidecar(s, v), Release(v.tree),
                    RowState(s, "integrated", FALSE), Move(v.task, "settled")>>
  <1>2. Begin(r, q)
    BY <1>1
  <1>3. GentleList(q)
    <2> HIDE DEF v
    <2> QED BY MeekEffects, MeekIsGentle, GentleSix
  <1> QED BY <1>2, <1>3, BeginStep

LEMMA CloseStep ==
    ASSUME Undisturbed, WorkInv, NEW r \in Runtimes, Close(r)
    PROVE  WorkInv' /\ UNCHANGED <<tree, archive>>
  <1>1. PICK s \in Known(r) :
          LET v == View(r, s)
              retained == v.task # None /\ Dirty(v.tree) /\ ~Subsumed(v.tree)
              settle == IF v.task # None /\ task[v.task].state = "running"
                        THEN <<Move(v.task, "stale")>> ELSE <<>>
          IN  Begin(r, <<Release(v.tree)>> \o
                CASE v.life \in {"integrated", "abandoned"} ->
                       SaveOf(r, s, Marked(v, v.life)) \o <<Detach(s), Collect({})>>
                  [] OTHER -> IF v.task # None /\ Subsumed(v.tree)
                       THEN settle \o SaveOf(r, s, Marked(v, "integrated"))
                            \o <<Detach(s), Collect({})>>
                       ELSE (IF retained THEN <<>> ELSE settle)
                            \o SaveOf(r, s, Marked(v, "suspended")) \o <<Detach(s)>>)
    BY DEF Close, BeginPlain
  <1> DEFINE v == View(r, s)
             retained == v.task # None /\ Dirty(v.tree) /\ ~Subsumed(v.tree)
             settle == IF v.task # None /\ task[v.task].state = "running"
                       THEN <<Move(v.task, "stale")>> ELSE <<>>
             first == <<Release(v.tree)>>
             last == <<Detach(s), Collect({})>>
             off == <<Detach(s)>>
             as(life) == SaveOf(r, s, Marked(v, life))
             kept == IF retained THEN <<>> ELSE settle
  <1>2. /\ GentleList(settle) /\ GentleList(first) /\ GentleList(last) /\ GentleList(off)
        /\ \A life : GentleList(as(life))
        /\ GentleList(kept)
    <2>1. GentleList(settle)
      BY Nothing, MeekEffects, MeekOne, MeekListIsGentle
    <2>2. GentleList(first) /\ GentleList(last) /\ GentleList(off)
      BY MeekEffects, MeekOne, MeekTwo, MeekListIsGentle
    <2>3. \A life : GentleList(as(life))
      BY WrittenOf, MeekListIsGentle
    <2> HIDE DEF settle
    <2> QED BY <2>1, <2>2, <2>3, Nothing
  <1>3. CASE v.life \in {"integrated", "abandoned"}
    <2>1. Begin(r, first \o (as(v.life) \o last))
      BY <1>1, <1>3
    <2> HIDE DEF first, last, as
    <2> QED BY <1>2, <2>1, GentleJoin, BeginStep
  <1>4. CASE v.life \notin {"integrated", "abandoned"} /\ v.task # None /\ Subsumed(v.tree)
    <2>1. Begin(r, first \o ((settle \o as("integrated")) \o last))
      BY <1>1, <1>4
    <2> HIDE DEF first, last, as, settle
    <2> QED BY <1>2, <2>1, GentleJoin, BeginStep
  <1>5. CASE v.life \notin {"integrated", "abandoned"} /\ ~(v.task # None /\ Subsumed(v.tree))
    <2>1. Begin(r, first \o ((kept \o as("suspended")) \o off))
      BY <1>1, <1>5
    <2> HIDE DEF first, off, as, kept
    <2> QED BY <1>2, <2>1, GentleJoin, BeginStep
  <1> QED BY <1>3, <1>4, <1>5

LEMMA AbandonStep ==
    ASSUME Undisturbed, WorkInv, NEW r \in Runtimes, Abandon(r)
    PROVE  WorkInv' /\ UNCHANGED <<tree, archive>>
  <1>1. PICK s \in Known(r) :
          LET v == View(r, s)
              its == {t \in Tasks : task[t].state = "running" /\ task[t].tree = v.tree
                                    /\ task[t].session \in {None, s}}
          IN  Begin(r, <<Release(v.tree)>> \o ForEach(its, LAMBDA t : Move(t, "stale"))
                         \o SaveOf(r, s, Marked(v, "abandoned")) \o <<Detach(s), Collect({})>>)
    BY DEF Abandon, BeginPlain
  <1> DEFINE v == View(r, s)
             its == {t \in Tasks : task[t].state = "running" /\ task[t].tree = v.tree
                                   /\ task[t].session \in {None, s}}
             a == <<Release(v.tree)>>
             n == Cardinality(its)
             b == [i \in 1..n |-> Move(InOrder(its)[i], "stale")]
             c == SaveOf(r, s, Marked(v, "abandoned"))
             d == <<Detach(s), Collect({})>>
  <1>2. Begin(r, ((a \o b) \o c) \o d)
    BY <1>1 DEF ForEach
  <1>3. GentleList(a) /\ GentleList(c) /\ GentleList(d)
    BY WrittenOf, MeekEffects, MeekOne, MeekTwo, MeekListIsGentle
  <1>4. n \in Nat
    BY Counted DEF Tasks
  <1>5. GentleList(b)
    <2> HIDE DEF n, its
    <2>1. DOMAIN b = 1..n /\ b = [i \in 1..n |-> b[i]]
      OBVIOUS
    <2>2. \A i \in 1..n : Gentle(b[i])
      BY MeekEffects, MeekIsGentle
    <2> HIDE DEF b
    <2> QED BY <1>4, <2>1, <2>2, EachGentle
  <1> HIDE DEF a, b, c, d
  <1> QED BY <1>2, <1>3, <1>5, GentleJoin, BeginStep

LEMMA AttachStepsGentle == ASSUME NEW s, NEW v, NEW k PROVE GentleList(AttachSteps(s, v, k))
  <1> DEFINE t == WritesFor(s, v)
             new == Fresh(v.tree, v.task)
             named == Fresh(v.tree, t)
             n == Cardinality(Rebound(s, v))
             a == <<Release(v.tree), OnFailure(<<NoSidecar(k)>>)>>
             b == Store(k, new)
             c == [i \in 1..n |-> Bind(InOrder(Rebound(s, v))[i], k, v.tree)]
             d == IF t # v.task THEN Store(k, named) ELSE <<>>
             u == <<Release(v.tree), NoSidecar(k)>>
             e == IF t # None /\ task[t].state = "stale"
                  THEN <<Acquire(v.tree, t), OnFailure(u), Reactivate(t)>> ELSE <<>>
             f == <<RowState(s, "stale", TRUE), NoSidecar(s), Forget(s), Attach(k, named, "always")>>
  <1>1. AttachSteps(s, v, k) = ((((a \o b) \o c) \o d) \o e) \o f
    BY DEF AttachSteps, ForEach
  <1>2. GentleList(a)
    <2>1. MeekList(<<NoSidecar(k)>>)
      BY MeekEffects, MeekOne
    <2>2. Gentle(OnFailure(<<NoSidecar(k)>>))
      BY <2>1, GentleGuards
    <2> QED BY <2>2, MeekEffects, MeekIsGentle, GentleTwo
  <1>3. GentleList(b)
    BY Written, MeekListIsGentle
  <1>4. GentleList(c)
    <2>1. n \in Nat
      BY Counted DEF Rebound, Tasks
    <2> HIDE DEF n
    <2>2. DOMAIN c = 1..n /\ c = [i \in 1..n |-> c[i]]
      OBVIOUS
    <2>3. \A i \in 1..n : Gentle(c[i])
      BY MeekEffects, MeekIsGentle
    <2> HIDE DEF c
    <2> QED BY <2>1, <2>2, <2>3, EachGentle
  <1>5. GentleList(d)
    <2> HIDE DEF named, t
    <2> QED BY Written, MeekListIsGentle, Nothing
  <1>6. GentleList(e)
    <2>1. MeekList(u)
      BY MeekEffects, MeekTwo
    <2> HIDE DEF u, t
    <2>2. Gentle(OnFailure(u))
      BY <2>1, GentleGuards
    <2>3. GentleList(<<Acquire(v.tree, t), OnFailure(u), Reactivate(t)>>)
      BY <2>2, MeekEffects, MeekIsGentle, GentleThree
    <2> QED BY <2>3, Nothing
  <1>7. GentleList(f)
    <2> HIDE DEF named
    <2> QED BY MeekEffects, MeekFour, MeekListIsGentle
  <1> HIDE DEF a, b, c, d, e, f
  <1> QED BY <1>1, <1>2, <1>3, <1>4, <1>5, <1>6, <1>7, GentleJoin

LEMMA AttachAgainStep ==
    ASSUME Undisturbed, WorkInv, NEW r \in Runtimes, AttachAgain(r)
    PROVE  WorkInv' /\ UNCHANGED <<tree, archive>>
  <1>1. PICK s \in Known(r) : Begin(r, AttachSteps(s, View(r, s), Next1))
    BY DEF AttachAgain, BeginWithId
  <1> QED BY <1>1, AttachStepsGentle, BeginStep

LEMMA ResumeStepsGentle == ASSUME NEW r, NEW s PROVE GentleList(ResumeSteps(r, s))
  <1> DEFINE v == View(r, s)
             again == [Fresh(v.tree, v.task) EXCEPT !.until = lapsed[s] + 1]
             u == <<Release(v.tree)>>
             w == <<Release(v.tree), Move(v.task, "stale")>>
             a == <<Acquire(v.tree, v.task), OnFailure(u), Reactivate(v.task), OnFailure(w)>>
             b == ObjectOf(r, s, again)
             c == Store(s, again)
             d == <<Attach(s, again, "first")>>
  <1>1. ResumeSteps(r, s) = ((a \o b) \o c) \o d
    BY DEF ResumeSteps
  <1>2. MeekList(u) /\ MeekList(w)
    BY MeekEffects, MeekOne, MeekTwo
  <1>3. GentleList(a)
    <2> HIDE DEF u, w
    <2> QED BY <1>2, GentleGuards, MeekEffects, MeekIsGentle, GentleFour
  <1>4. GentleList(b) /\ GentleList(c) /\ GentleList(d)
    <2> HIDE DEF again
    <2> QED BY Written, WrittenOf, MeekListIsGentle, MeekEffects, MeekOne
  <1> HIDE DEF a, b, c, d
  <1> QED BY <1>1, <1>3, <1>4, GentleJoin

LEMMA ResumeStep ==
    ASSUME Undisturbed, WorkInv, NEW r \in Runtimes, Resume(r) \/ AttachBeside(r)
    PROVE  WorkInv' /\ UNCHANGED <<tree, archive>>
  <1>1. PICK s \in Known(r) : Begin(r, ResumeSteps(r, s))
    BY DEF Resume, AttachBeside, BeginPlain
  <1> QED BY <1>1, ResumeStepsGentle, BeginStep

LEMMA RestoreStepsGentle ==
    ASSUME NEW a, a.content \in Contents, NEW k PROVE GentleList(RestoreSteps(a, k))
  <1> DEFINE v == RestoreRecord(k)
             u == <<Salvage(k, [v EXCEPT !.task = None])>>
             m == <<Move(k, "stale")>>
             o == <<Object(k, v)>>
             w == (m \o Store(k, v)) \o o
             rm == <<Release(k), Move(k, "stale")>>
             x == (rm \o Store(k, v)) \o o
             b == <<OnFailure(u), MakeTree(k), Fill(k, a.content), Enqueue(k, k, k), OnFailure(w)>>
             c == Store(k, v)
             d == <<Acquire(k, k), OnFailure(x), Move(k, "running")>>
             e == Store(k, Fresh(k, k))
             f == <<Attach(k, Fresh(k, k), "always")>>
  <1>1. RestoreSteps(a, k) = (((b \o c) \o d) \o e) \o f
    BY DEF RestoreSteps
  <1> HIDE DEF v
  <1>2. MeekList(u) /\ MeekList(m) /\ MeekList(o) /\ MeekList(rm) /\ MeekList(Store(k, v))
    BY MeekEffects, MeekOne, MeekTwo, Written
  <1>3. MeekList(w) /\ MeekList(x)
    <2> HIDE DEF m, o, rm
    <2> QED BY <1>2, MeekJoin
  <1>4. Gentle(Fill(k, a.content))
    BY DEF Gentle, Proper, Fill
  <1>5. GentleList(b) /\ GentleList(d)
    <2> HIDE DEF u, w, x
    <2>1. Gentle(OnFailure(u)) /\ Gentle(OnFailure(w)) /\ Gentle(OnFailure(x))
      BY <1>2, <1>3, GentleGuards
    <2> QED BY <1>4, <2>1, MeekEffects, MeekIsGentle, GentleFive, GentleThree
  <1>6. GentleList(c) /\ GentleList(e) /\ GentleList(f)
    BY Written, MeekListIsGentle, MeekEffects, MeekOne
  <1> HIDE DEF b, c, d, e, f
  <1> QED BY <1>1, <1>5, <1>6, GentleJoin

LEMMA RestoreStep ==
    ASSUME Undisturbed, WorkInv, NEW r \in Runtimes, Restore(r)
    PROVE  WorkInv' /\ UNCHANGED <<tree, archive>>
  <1>1. PICK a \in archive : Begin(r, RestoreSteps(a, Next1))
    BY DEF Restore, BeginWithId, Archived
  <1>2. a.content \in Contents
    BY DEF WorkInv, ArchivesFit
  <1> QED BY <1>1, <1>2, RestoreStepsGentle, BeginStep

-----------------------------------------------------------------------------
(* The handlers that are not a job, and the life of a runtime.              *)

Archives == {<<a.tree, a.content>> : a \in archive}

\* What a step of the specification is in the abstract one.
Keeps == [Work!Next]_<<tree, Archives>>

LEMMA SameKeeps == ASSUME UNCHANGED <<tree, archive>> PROVE Keeps
  BY DEF Keeps, Archives

\* A worktree that is written to while no job of its writer is under way.
LEMMA EditStep ==
    ASSUME Undisturbed, WorkInv, NEW r \in Runtimes, Edit(r)
    PROVE  WorkInv' /\ Keeps
  <1>1. PICK s \in Sessions, c \in Contents :
          /\ Idle(r) /\ Live(r, s)
          /\ tree' = [tree EXCEPT ![mem[r][s].tree] = c]
          /\ UNCHANGED <<archive, job>>
    BY DEF Edit
  <1> DEFINE w == mem[r][s].tree
  <1>2. tree[w] # None
    BY <1>1 DEF Live
  <1> HIDE DEF w
  <1>3. TreesFit' /\ ArchivesFit'
    BY <1>1 DEF WorkInv, TreesFit, ArchivesFit, w
  <1>4. Grown
    BY <1>1 DEF Grown
  <1>5. JobsFit'
    <2>1. \A x \in Runtimes : JobFits(job'[x], tree', archive')
      BY <1>1, <1>4, OthersFit
    <2> QED BY <1>1, <2>1 DEF WorkInv, JobsFit
  <1>6. Keeps
    <2>1. CASE w \in Trees
      <3>1. Work!Write(w)
        BY <1>1, <1>2 DEF Work!Write, w
      <3> QED BY <2>1, <3>1 DEF Keeps, Work!Next
    <2>2. CASE w \notin Trees
      <3>1. tree' = tree
        BY <1>1, <2>2 DEF WorkInv, TreesFit, w
      <3> QED BY <1>1, <3>1, SameKeeps
    <2> QED BY <2>1, <2>2
  <1> QED BY <1>3, <1>5, <1>6 DEF WorkInv

\* Whatever leaves worktrees, archives and jobs alone.
LEMMA SameInv ==
    ASSUME WorkInv, UNCHANGED <<tree, archive, job>> PROVE WorkInv'
  BY DEF WorkInv, TreesFit, ArchivesFit, JobsFit

LEMMA RequestStep ==
    ASSUME WorkInv, NEW r \in Runtimes, RequestAttach(r)
    PROVE  WorkInv' /\ UNCHANGED <<tree, archive>>
  <1>1. UNCHANGED <<tree, archive, job>>
    BY DEF RequestAttach, work
  <1> QED BY <1>1, SameInv

LEMMA LapseStep ==
    ASSUME WorkInv, Lapse \/ LeaseLapses
    PROVE  WorkInv' /\ UNCHANGED <<tree, archive>>
  <1>1. UNCHANGED <<tree, archive, job>>
    BY DEF Lapse, LeaseLapses, work
  <1> QED BY <1>1, SameInv

LEMMA EndedStep ==
    ASSUME WorkInv, NEW rs, NothingInMemory(rs), UNCHANGED <<tree, archive>>
    PROVE  WorkInv'
  <1>1. job' = [r \in Runtimes |-> job'[r]]
    BY DEF NothingInMemory
  <1>2. \A r \in Runtimes : JobFits(job'[r], tree, archive)
    BY FreeFits DEF NothingInMemory, WorkInv, JobsFit
  <1> QED BY <1>1, <1>2, SameWork DEF WorkInv, JobsFit

LEMMA ShutDownStep ==
    ASSUME WorkInv, NEW r \in Runtimes, ShutDown(r)
    PROVE  WorkInv' /\ UNCHANGED <<tree, archive>>
  BY EndedStep DEF ShutDown, work

LEMMA CrashStep ==
    ASSUME WorkInv, Crash
    PROVE  WorkInv' /\ UNCHANGED <<tree, archive>>
  BY EndedStep DEF Crash, work

LEMMA BootStep ==
    ASSUME Undisturbed, WorkInv, NEW r \in Runtimes, Boot(r)
    PROVE  WorkInv' /\ UNCHANGED <<tree, archive>>
  <1> DEFINE kept == {s \in Sessions : KeptAtBoot(s, Loaded[s])}
             lost == {s \in Sessions : LostAtBoot(s, Loaded[s])}
             settled == {s \in Sessions : SettledAtBoot(s, Loaded[s])}
             a == [i \in 1..Cardinality(kept) |-> Claim(InOrder(kept)[i], Loaded[InOrder(kept)[i]])]
             b == [i \in 1..Cardinality(lost) |->
                     Save(InOrder(lost)[i], Marked(Loaded[InOrder(lost)[i]], "stale"))]
             c == [i \in 1..Cardinality(settled) |->
                     <<Settle(Loaded[InOrder(settled)[i]].task),
                       RowState(InOrder(settled)[i], "stale", TRUE)>>]
             j == [todo |-> (a \o FlattenSeq(b)) \o FlattenSeq(c), undo |-> <<>>, safe |-> TRUE]
  <1>1. Continue(r, j, Loaded) /\ UNCHANGED <<tree, archive>>
    BY Zenon DEF Boot, ForEach, work
  <1>2. j.todo = (a \o FlattenSeq(b)) \o FlattenSeq(c) /\ j.undo = <<>>
    OBVIOUS
  <1>3. Cardinality(kept) \in Nat /\ Cardinality(lost) \in Nat /\ Cardinality(settled) \in Nat
    BY Counted
  <1> HIDE DEF j, kept, lost, settled
  <1>4. GentleList(a)
    <2>1. DOMAIN a = 1..Cardinality(kept) /\ a = [i \in 1..Cardinality(kept) |-> a[i]]
      OBVIOUS
    <2>2. \A i \in 1..Cardinality(kept) : Gentle(a[i])
      BY MeekEffects, MeekIsGentle
    <2> HIDE DEF a
    <2> QED BY <1>3, <2>1, <2>2, EachGentle
  <1>5. GentleList(FlattenSeq(b))
    <2>1. DOMAIN b = 1..Cardinality(lost) /\ b = [i \in 1..Cardinality(lost) |-> b[i]]
      OBVIOUS
    <2>2. \A i \in 1..Cardinality(lost) : GentleList(b[i])
      BY Written, MeekListIsGentle
    <2> HIDE DEF b
    <2> QED BY <1>3, <2>1, <2>2, FlattenIsGentle
  <1>6. GentleList(FlattenSeq(c))
    <2>1. DOMAIN c = 1..Cardinality(settled) /\ c = [i \in 1..Cardinality(settled) |-> c[i]]
      OBVIOUS
    <2>2. \A i \in 1..Cardinality(settled) : GentleList(c[i])
      BY MeekEffects, MeekTwo, MeekListIsGentle
    <2> HIDE DEF c
    <2> QED BY <1>3, <2>1, <2>2, FlattenIsGentle
  <1> HIDE DEF a, b, c
  <1>7. GentleList(j.todo) /\ MeekList(j.undo)
    BY <1>2, <1>4, <1>5, <1>6, GentleJoin, Nothing
  <1> QED BY <1>1, <1>7, SameWork, GentleJob

LEMMA CloseRuntimeStep ==
    ASSUME Undisturbed, WorkInv, NEW r \in Runtimes, CloseRuntime(r)
    PROVE  WorkInv' /\ UNCHANGED <<tree, archive>>
  <1> DEFINE open == {s \in Sessions : mem[r][s] # None /\ ~mem[r][s].stale}
             done == {s \in open : mem[r][s].life \in {"integrated", "cleanup_candidate"}}
             gone == {s \in open \ done : HandedOff(r, s)}
             v(s) == Marked(mem[r][s], "stale")
             end(s) == <<Object(s, v(s)), LastSidecar(s, v(s)), RowState(s, "stale", TRUE)>>
             steps(s) == IF s \in done THEN <<LastSidecar(s, mem[r][s])>>
                         ELSE IF s \in gone THEN <<>> ELSE end(s)
             a == [i \in 1..Cardinality(open) |-> steps(InOrder(open)[i])]
             b == <<Suspend(Trees \ {mem[r][s].tree : s \in gone}), Shut>>
             j == [todo |-> FlattenSeq(a) \o b, undo |-> <<>>, safe |-> TRUE]
  <1>1. Continue(r, j, mem[r]) /\ UNCHANGED <<tree, archive>>
    BY Zenon DEF CloseRuntime, ForEach, work
  <1>2. j.todo = FlattenSeq(a) \o b /\ j.undo = <<>>
    OBVIOUS
  <1>3. Cardinality(open) \in Nat
    BY Counted
  <1>4. GentleList(b)
    <2> HIDE DEF gone
    <2> QED BY MeekEffects, MeekTwo, MeekListIsGentle
  <1> HIDE DEF j, b, open, done, gone
  <1>5. GentleList(FlattenSeq(a))
    <2>1. DOMAIN a = 1..Cardinality(open) /\ a = [i \in 1..Cardinality(open) |-> a[i]]
      OBVIOUS
    <2>2. \A s : GentleList(steps(s))
      <3>1. \A s : MeekList(end(s))
        <4> HIDE DEF v
        <4> QED BY MeekEffects, MeekThree
      <3>2. \A s : MeekList(<<LastSidecar(s, mem[r][s])>>)
        BY MeekEffects, MeekOne
      <3> HIDE DEF end
      <3> QED BY <3>1, <3>2, Nothing, MeekListIsGentle
    <2>3. \A i \in 1..Cardinality(open) : GentleList(a[i])
      <3> HIDE DEF steps
      <3> QED BY <2>2
    <2> HIDE DEF a
    <2> QED BY <1>3, <2>1, <2>3, FlattenIsGentle
  <1> HIDE DEF a
  <1>6. GentleList(j.todo) /\ MeekList(j.undo)
    BY <1>2, <1>4, <1>5, GentleJoin, Nothing
  <1> QED BY <1>1, <1>6, SameWork, GentleJob

-----------------------------------------------------------------------------
(* The collection of a worktree.                                            *)

\* Its steps up to the last comparison: a failure among them is never skipped.
WaryList(q) ==
    IsList(q) /\ \A i \in DOMAIN q : Gentle(q[i]) /\ (q[i].op = "guard" => ~q[i].safe)

LEMMA MeekIsWary == ASSUME NEW q, MeekList(q) PROVE WaryList(q)
  BY MeekIsGentle DEF MeekList, WaryList, Meek

LEMMA WaryJoin ==
    ASSUME NEW p, NEW q, WaryList(p), WaryList(q) PROVE WaryList(p \o q)
  BY Joined DEF WaryList

Removal(w, c) == <<Revalidate(w, c), Prune(w), Tolerant, MarkPruned(w, c)>>

LEMMA RemovalFacts ==
    ASSUME NEW w, NEW c
    PROVE  /\ IsList(Removal(w, c)) /\ DOMAIN Removal(w, c) = 1..4 /\ Len(Removal(w, c)) = 4
           /\ Removal(w, c)[1].op = "revalidate" /\ Removal(w, c)[1].tree = w
           /\ Removal(w, c)[2].op = "prune" /\ Removal(w, c)[2].tree = w
           /\ Gentle(Removal(w, c)[3]) /\ Gentle(Removal(w, c)[4])
           /\ Proper(Removal(w, c)[1]) /\ Proper(Removal(w, c)[2])
  <1>1. IsList(Removal(w, c))
    BY Four DEF Removal
  <1>2. DOMAIN Removal(w, c) = 1..4 /\ Len(Removal(w, c)) = 4
    BY DEF Removal
  <1>3. /\ Removal(w, c)[1] = Revalidate(w, c) /\ Removal(w, c)[2] = Prune(w)
        /\ Removal(w, c)[3] = Tolerant /\ Removal(w, c)[4] = MarkPruned(w, c)
    BY DEF Removal
  <1>4. Gentle(Tolerant) /\ Gentle(MarkPruned(w, c))
    BY GentleGuards, MeekEffects, MeekIsGentle
  <1> HIDE DEF Removal
  <1> QED BY <1>1, <1>2, <1>3, <1>4 DEF Revalidate, Prune, Proper

LEMMA RemovalJoin ==
    ASSUME NEW p, WaryList(p), NEW w, NEW c, NEW t, NEW as
    PROVE  LET q == p \o Removal(w, c) IN
           ProperList(q) /\ PrunesChecked(q, t, as) /\ ChecksGuarded(q)
  <1> DEFINE m == Removal(w, c)
             q == p \o m
             n == Len(p)
  <1>1. /\ IsList(q) /\ n \in Nat /\ DOMAIN p = 1..n /\ DOMAIN m = 1..4
        /\ Len(m) = 4 /\ DOMAIN q = 1..(n + 4)
    <2>1. IsList(p) /\ IsList(m) /\ DOMAIN m = 1..4 /\ Len(m) = 4
      BY RemovalFacts DEF WaryList
    <2> HIDE DEF m
    <2>2. IsList(q) /\ Len(q) = n + 4
      BY <2>1, Joined
    <2> QED BY <2>1, <2>2, ListFacts
  <1>2. ASSUME NEW i \in DOMAIN q
        PROVE  \/ i \in 1..n /\ q[i] = p[i]
               \/ i - n \in 1..4 /\ i > n /\ q[i] = m[i - n]
    BY <1>1, RemovalFacts, Joined DEF WaryList
  <1> HIDE DEF q, m, n
  <1>3. ASSUME NEW i \in DOMAIN q
        PROVE  \/ i \in 1..n /\ Gentle(q[i]) /\ (q[i].op = "guard" => ~q[i].safe)
               \/ i = n + 1 /\ q[i] = m[1]
               \/ i = n + 2 /\ q[i] = m[2]
               \/ i = n + 3 /\ q[i] = m[3]
               \/ i = n + 4 /\ q[i] = m[4]
    <2>1. CASE i \in 1..n /\ q[i] = p[i]
      BY <1>1, <2>1 DEF WaryList
    <2>2. CASE i - n \in 1..4 /\ i > n /\ q[i] = m[i - n]
      <3>1. i \in Int /\ n \in Nat
        BY <1>1
      <3>2. i - n = 1 \/ i - n = 2 \/ i - n = 3 \/ i - n = 4
        BY <2>2
      <3>3. \/ i = n + 1 /\ i - n = 1
            \/ i = n + 2 /\ i - n = 2
            \/ i = n + 3 /\ i - n = 3
            \/ i = n + 4 /\ i - n = 4
        BY <3>1, <3>2
      <3> QED BY <2>2, <3>3
    <2> QED BY <1>2, <2>1, <2>2
  <1>4. /\ m[1].op = "revalidate" /\ m[1].tree = w /\ m[2].op = "prune" /\ m[2].tree = w
        /\ Gentle(m[3]) /\ Gentle(m[4]) /\ Proper(m[1]) /\ Proper(m[2])
    BY RemovalFacts DEF m
  <1>5. ProperList(q)
    BY <1>1, <1>3, <1>4 DEF ProperList, Gentle
  <1>6. PrunesChecked(q, t, as)
    <2> SUFFICES ASSUME NEW i \in DOMAIN q, q[i].op = "prune"
                 PROVE  i # 1 /\ q[i - 1].op = "revalidate" /\ q[i - 1].tree = q[i].tree
      BY Zenon DEF PrunesChecked
    <2>1. i = n + 2 /\ q[i] = m[2]
      BY <1>3, <1>4 DEF Gentle
    <2>2. i - 1 \in DOMAIN q /\ i - 1 = n + 1 /\ i # 1
      BY <1>1, <2>1
    <2>3. q[i - 1] = m[1]
      <3>1. ~(i - 1 \in 1..n) /\ i - 1 # n + 2 /\ i - 1 # n + 3 /\ i - 1 # n + 4
        BY <1>1, <2>2
      <3> QED BY <1>3, <2>2, <3>1
    <2> QED BY <1>4, <2>1, <2>2, <2>3
  <1>7. ChecksGuarded(q)
    <2> SUFFICES ASSUME NEW i \in DOMAIN q, q[i].op = "revalidate",
                        NEW k \in DOMAIN q, k < i, q[k].op = "guard"
                 PROVE  ~q[k].safe
      BY DEF ChecksGuarded
    <2>1. i = n + 1
      BY <1>3, <1>4 DEF Gentle
    <2>2. k # n + 1 /\ k # n + 2 /\ k # n + 3 /\ k # n + 4
      BY <1>1, <2>1
    <2> QED BY <1>3, <2>2
  <1> QED BY <1>5, <1>6, <1>7 DEF q, m

\* Effects that remove no work may follow.
LEMMA GentleTail ==
    ASSUME NEW p, NEW q, NEW t, NEW as, GentleList(q),
           ProperList(p), PrunesChecked(p, t, as), ChecksGuarded(p)
    PROVE  ProperList(p \o q) /\ PrunesChecked(p \o q, t, as) /\ ChecksGuarded(p \o q)
  <1>1. PICK b : b = p \o q
    OBVIOUS
  <1>2. IsList(p) /\ IsList(q)
    BY DEF GentleList, ProperList
  <1>3. /\ IsList(b) /\ Len(b) = Len(p) + Len(q)
        /\ \A i \in DOMAIN b : \/ i \in DOMAIN p /\ b[i] = p[i]
                               \/ i > Len(p) /\ Gentle(b[i])
    BY <1>1, <1>2, Joined DEF GentleList
  <1>4. /\ Len(p) \in Nat /\ Len(q) \in Nat /\ DOMAIN p = 1..Len(p)
        /\ DOMAIN b = 1..(Len(p) + Len(q))
    BY <1>2, <1>3, ListFacts
  <1>5. ProperList(b)
    BY <1>3 DEF ProperList, Gentle
  <1>6. PrunesChecked(b, t, as)
    <2> SUFFICES ASSUME NEW i \in DOMAIN b, b[i].op = "prune"
                 PROVE  IF i = 1 THEN Spare(b[i].tree, t, as)
                        ELSE b[i - 1].op = "revalidate" /\ b[i - 1].tree = b[i].tree
      BY DEF PrunesChecked
    <2>1. i \in DOMAIN p /\ b[i] = p[i]
      BY <1>3 DEF Gentle
    <2>2. IF i = 1 THEN Spare(p[i].tree, t, as)
          ELSE p[i - 1].op = "revalidate" /\ p[i - 1].tree = p[i].tree
      BY <2>1 DEF PrunesChecked
    <2>3. i # 1 => i - 1 \in DOMAIN b /\ ~(i - 1 > Len(p))
      BY <1>4, <2>1
    <2>4. i # 1 => b[i - 1] = p[i - 1]
      BY <1>3, <2>3
    <2> QED BY <2>1, <2>2, <2>4
  <1>7. ChecksGuarded(b)
    <2> SUFFICES ASSUME NEW i \in DOMAIN b, b[i].op = "revalidate",
                        NEW k \in DOMAIN b, k < i, b[k].op = "guard"
                 PROVE  ~b[k].safe
      BY DEF ChecksGuarded
    <2>1. i \in DOMAIN p /\ b[i] = p[i]
      BY <1>3 DEF Gentle
    <2>2. ~(k > Len(p))
      BY <1>4, <2>1
    <2>3. k \in DOMAIN p /\ b[k] = p[k]
      BY <1>3, <2>2
    <2> QED BY <2>1, <2>3 DEF ChecksGuarded
  <1> QED BY <1>1, <1>5, <1>6, <1>7

\* A list begins as its first part does.
LEMMA StartOf ==
    ASSUME NEW p, NEW q, IsList(p), IsList(q), 1 \in DOMAIN p
    PROVE  IsList(p \o q) /\ 1 \in DOMAIN (p \o q) /\ (p \o q)[1] = p[1]
  <1>1. /\ IsList(p \o q) /\ Len(p \o q) = Len(p) + Len(q)
        /\ Len(p) \in Nat /\ Len(q) \in Nat /\ Len(p) >= 1
    BY Joined, ListFacts
  <1>2. 1 \in DOMAIN (p \o q)
    BY <1>1, ListFacts
  <1>3. ~(1 > Len(p))
    BY <1>1
  <1> QED BY <1>1, <1>2, <1>3, Joined

-----------------------------------------------------------------------------
(* The effect at the head of a job, and what is left after it.              *)

LEMMA AfterHead ==
    ASSUME NEW q, IsList(q), q # <<>>
    PROVE  /\ Head(q) = q[1] /\ 1 \in DOMAIN q
           /\ IsList(Tail(q)) /\ Len(q) \in Nat \ {0} /\ DOMAIN q = 1..Len(q)
           /\ \A i \in DOMAIN Tail(q) :
                 i \in Nat \ {0} /\ i + 1 \in DOMAIN q /\ Tail(q)[i] = q[i + 1]
  <1> DEFINE S == {q[i] : i \in DOMAIN q}
  <1>1. q \in Seq(S)
    BY DEF IsList
  <1> HIDE DEF S
  <1>2. Len(q) \in Nat \ {0} /\ DOMAIN q = 1..Len(q)
    BY ListFacts
  <1>3. /\ Tail(q) \in Seq(S) /\ Len(Tail(q)) = Len(q) - 1
        /\ \A i \in 1..Len(Tail(q)) : Tail(q)[i] = q[i + 1]
    BY <1>1, HeadTailProperties
  <1>4. IsList(Tail(q)) /\ DOMAIN Tail(q) = 1..(Len(q) - 1)
    BY <1>3, IsListOf, ListFacts
  <1>5. Head(q) = q[1] /\ 1 \in DOMAIN q
    BY <1>1, <1>2
  <1>6. ASSUME NEW i \in DOMAIN Tail(q)
        PROVE  i \in Nat \ {0} /\ i + 1 \in DOMAIN q /\ Tail(q)[i] = q[i + 1]
    BY <1>2, <1>3, <1>4
  <1> QED BY <1>2, <1>4, <1>5, <1>6

LEMMA HeadFits ==
    ASSUME WorkInv, NEW r \in Runtimes, job[r].todo # <<>>
    PROVE  /\ Proper(Effect(r))
           /\ Effect(r).op = "prune" => Spare(Effect(r).tree, tree, archive)
  <1>1. IsList(job[r].todo)
    BY DEF WorkInv, JobsFit, JobFits, ProperList
  <1>2. Effect(r) = job[r].todo[1] /\ 1 \in DOMAIN job[r].todo
    BY <1>1, AfterHead DEF Effect
  <1> QED BY <1>2 DEF WorkInv, JobsFit, JobFits, ProperList, PrunesChecked

\* A job goes on: what follows a comparison is removed only if it was equal.
LEMMA GoOnStep ==
    ASSUME Undisturbed, WorkInv, NEW r \in Runtimes, GoOn(r), job[r].todo # <<>>,
           TreesFit', ArchivesFit', Grown,
           Effect(r).op = "revalidate" =>
                \E a \in archive' : a.tree = Effect(r).tree /\ a.content = tree'[Effect(r).tree]
    PROVE  WorkInv'
  <1> DEFINE q == job[r].todo
             j == [job[r] EXCEPT !.todo = Tail(@)]
  <1>1. /\ IsJob(job[r]) /\ ProperList(q) /\ MeekList(job[r].undo)
        /\ PrunesChecked(q, tree, archive) /\ ChecksGuarded(q)
        /\ HasCheck(q) => ~job[r].safe
    BY DEF WorkInv, JobsFit, JobFits
  <1>2. Continue(r, j, mem[r])
    BY DEF GoOn
  <1>3. j.todo = Tail(q) /\ j.undo = job[r].undo /\ j.safe = job[r].safe
    BY <1>1 DEF IsJob
  <1>4. /\ Effect(r) = q[1] /\ 1 \in DOMAIN q /\ IsList(Tail(q))
        /\ \A i \in DOMAIN Tail(q) :
                 i \in Nat \ {0} /\ i + 1 \in DOMAIN q /\ Tail(q)[i] = q[i + 1]
    BY <1>1, AfterHead DEF Effect, ProperList
  <1>0. Len(Tail(q)) \in Nat /\ DOMAIN Tail(q) = 1..Len(Tail(q))
    BY <1>4, ListFacts
  <1> HIDE DEF q, j
  <1>5. ProperList(Tail(q))
    BY <1>1, <1>4 DEF ProperList
  <1>6. ChecksGuarded(Tail(q))
    <2> SUFFICES ASSUME NEW i \in DOMAIN Tail(q), Tail(q)[i].op = "revalidate",
                        NEW k \in DOMAIN Tail(q), k < i, Tail(q)[k].op = "guard"
                 PROVE  ~Tail(q)[k].safe
      BY DEF ChecksGuarded
    <2>1. i + 1 \in DOMAIN q /\ k + 1 \in DOMAIN q /\ k + 1 < i + 1
      BY <1>4
    <2>2. q[i + 1].op = "revalidate" /\ q[k + 1].op = "guard" /\ Tail(q)[k] = q[k + 1]
      BY <1>4
    <2> QED BY <1>1, <2>1, <2>2 DEF ChecksGuarded
  <1>7. HasCheck(Tail(q)) => ~j.safe
    BY <1>1, <1>3, <1>4 DEF HasCheck
  <1>8. PrunesChecked(Tail(q), tree', archive')
    <2> SUFFICES ASSUME NEW i \in DOMAIN Tail(q), Tail(q)[i].op = "prune"
                 PROVE  IF i = 1 THEN Spare(Tail(q)[i].tree, tree', archive')
                        ELSE Tail(q)[i - 1].op = "revalidate"
                             /\ Tail(q)[i - 1].tree = Tail(q)[i].tree
      BY DEF PrunesChecked
    <2>1. PICK k \in DOMAIN q : k = i + 1 /\ i \in Nat \ {0} /\ Tail(q)[i] = q[k]
      BY <1>4
    <2>2. k # 1 /\ k - 1 = i
      BY <2>1
    <2>3. q[k - 1].op = "revalidate" /\ q[k - 1].tree = q[k].tree
      BY <1>1, <2>1, <2>2 DEF PrunesChecked
    <2>4. CASE i = 1
      <3>1. Effect(r).op = "revalidate" /\ Effect(r).tree = Tail(q)[i].tree
        BY <1>4, <2>1, <2>2, <2>3, <2>4
      <3> QED BY <2>4, <3>1 DEF Spare
    <2>5. CASE i # 1
      <3>1. i - 1 \in DOMAIN Tail(q) /\ (i - 1) + 1 = i
        BY <1>0, <2>1, <2>5
      <3>2. Tail(q)[i - 1] = q[i]
        BY <1>4, <3>1
      <3> QED BY <2>1, <2>2, <2>3, <2>5, <3>2
    <2> QED BY <2>4, <2>5
  <1>9. job = [x \in Runtimes |-> job[x]]
    BY DEF WorkInv, JobsFit
  <1>10. JobFits(job'[r], tree', archive')
    BY <1>1, <1>2, <1>3, <1>5, <1>6, <1>7, <1>8, <1>9, ContinueFits
  <1> QED BY <1>2, <1>10, OnlyJob DEF WorkInv

\* The effects of a collection fit, and begin with a guard.
LEMMA CollectFits ==
    ASSUME WorkInv, NEW r \in Runtimes, NEW w \in Trees, NEW done, tree[w] # None
    PROVE  LET q == CollectSteps(r, w, done) IN
           /\ ProperList(q) /\ PrunesChecked(q, tree, archive) /\ ChecksGuarded(q)
           /\ q[1].op = "guard"
  <1> DEFINE its == Aliases(r, w)
             n == Cardinality(its)
             rest == <<Collect(done \cup {w})>>
             marking(s, v) == ObjectOf(r, s, v) \o <<Sidecar(s, v), RowState(s, v.life, v.stale)>>
             to(s) == Marked(View(r, s), "cleanup_candidate")
             ms == [i \in 1..n |-> marking(InOrder(its)[i], to(InOrder(its)[i]))]
             bs == [i \in 1..n |-> marking(InOrder(its)[i], View(r, InOrder(its)[i]))]
             rs == [i \in 1..n |-> Retire(InOrder(its)[i])]
             undo == FlattenSeq(bs) \o rest
             a == <<OnFailure(rest), Publish(w, tree[w], its), OnFailure(undo)>>
             p == a \o FlattenSeq(ms)
             m == Removal(w, tree[w])
             q == ((p \o m) \o FlattenSeq(rs)) \o rest
  <1>1. CollectSteps(r, w, done) = q
    BY DEF CollectSteps, ForEach, Removal
  <1>2. n \in Nat
    BY Counted DEF Aliases, Known
  <1>3. \A s, v : MeekList(marking(s, v))
    BY WrittenOf, MeekEffects, MeekTwo, MeekJoin
  <1>4. MeekList(FlattenSeq(ms))
    <2>1. DOMAIN ms = 1..n /\ ms = [i \in 1..n |-> ms[i]]
      OBVIOUS
    <2>2. \A i \in 1..n : MeekList(ms[i])
      <3> HIDE DEF marking, to
      <3> QED BY <1>3
    <2> HIDE DEF ms, n
    <2> QED BY <1>2, <2>1, <2>2, FlattenIsMeek
  <1>5. MeekList(FlattenSeq(bs))
    <2>1. DOMAIN bs = 1..n /\ bs = [i \in 1..n |-> bs[i]]
      OBVIOUS
    <2>2. \A i \in 1..n : MeekList(bs[i])
      <3> HIDE DEF marking
      <3> QED BY <1>3
    <2> HIDE DEF bs, n
    <2> QED BY <1>2, <2>1, <2>2, FlattenIsMeek
  <1>6. MeekList(FlattenSeq(rs))
    <2>1. DOMAIN rs = 1..n /\ rs = [i \in 1..n |-> rs[i]]
      OBVIOUS
    <2>2. \A i \in 1..n : MeekList(rs[i])
      BY Written
    <2> HIDE DEF rs, n
    <2> QED BY <1>2, <2>1, <2>2, FlattenIsMeek
  <1>7. MeekList(rest)
    BY MeekEffects, MeekOne
  <1>8. MeekList(undo)
    <2> HIDE DEF bs, rest
    <2> QED BY <1>5, <1>7, MeekJoin
  <1>9. WaryList(a) /\ a[1].op = "guard" /\ DOMAIN a = 1..3
    <2> HIDE DEF rest, undo
    <2>1. Gentle(OnFailure(rest)) /\ Gentle(OnFailure(undo))
      BY <1>7, <1>8, GentleGuards
    <2>2. tree[w] \in Contents
      BY DEF WorkInv, TreesFit
    <2>3. Gentle(Publish(w, tree[w], its)) /\ Publish(w, tree[w], its).op # "guard"
      BY <2>2 DEF Gentle, Proper, Publish
    <2>4. ~OnFailure(rest).safe /\ ~OnFailure(undo).safe
      BY DEF OnFailure
    <2>5. a[1] = OnFailure(rest) /\ DOMAIN a = 1..3
      OBVIOUS
    <2>6. IsList(a) /\ \A i \in DOMAIN a : a[i] \in {OnFailure(rest), Publish(w, tree[w], its), OnFailure(undo)}
      BY Three
    <2> HIDE DEF a
    <2>7. ASSUME NEW i \in DOMAIN a PROVE Gentle(a[i]) /\ (a[i].op = "guard" => ~a[i].safe)
      BY <2>1, <2>3, <2>4, <2>6
    <2>8. a[1].op = "guard"
      BY <2>5 DEF OnFailure
    <2> QED BY <2>5, <2>6, <2>7, <2>8 DEF WaryList
  <1> HIDE DEF a, ms, rs, m, rest
  <1>10. WaryList(p)
    BY <1>4, <1>9, MeekIsWary, WaryJoin
  <1>11. /\ ProperList(p \o m) /\ PrunesChecked(p \o m, tree, archive) /\ ChecksGuarded(p \o m)
    <2> HIDE DEF p
    <2> QED BY <1>10, RemovalJoin DEF m
  <1>12. ProperList(q) /\ PrunesChecked(q, tree, archive) /\ ChecksGuarded(q)
    <2> HIDE DEF p
    <2> QED BY <1>6, <1>7, <1>11, MeekListIsGentle, GentleTail
  <1>13. q[1] = a[1]
    <2>1. IsList(a) /\ 1 \in DOMAIN a /\ Len(a) = 3
      BY <1>9, ListFacts DEF WaryList
    <2>2. /\ IsList(FlattenSeq(ms)) /\ IsList(m) /\ IsList(FlattenSeq(rs)) /\ IsList(rest)
      BY <1>4, <1>6, <1>7, RemovalFacts DEF MeekList, m
    <2>3. IsList(p) /\ 1 \in DOMAIN p /\ p[1] = a[1]
      BY <2>1, <2>2, StartOf
    <2> HIDE DEF p
    <2>4. IsList(p \o m) /\ 1 \in DOMAIN (p \o m) /\ (p \o m)[1] = a[1]
      BY <2>2, <2>3, StartOf
    <2> DEFINE pm == p \o m
    <2> HIDE DEF pm
    <2>5. IsList(pm \o FlattenSeq(rs)) /\ 1 \in DOMAIN (pm \o FlattenSeq(rs))
          /\ (pm \o FlattenSeq(rs))[1] = a[1]
      BY <2>2, <2>4, StartOf DEF pm
    <2> QED BY <2>2, <2>5, StartOf DEF pm
  <1> HIDE DEF q
  <1> QED BY <1>1, <1>9, <1>12, <1>13

LEMMA CollectStep ==
    ASSUME Undisturbed, WorkInv, NEW r \in Runtimes, CollectNext(r)
    PROVE  WorkInv' /\ UNCHANGED <<tree, archive>>
  <1>1. UNCHANGED <<tree, archive>> /\ At(r, {"collect"})
    BY DEF CollectNext, work
  <1>2. CASE GoOn(r)
    BY <1>1, <1>2, SameWork, GoOnStep DEF At
  <1>3. CASE ~GoOn(r)
    <2> DEFINE done == Effect(r).done
               todo == {w \in Trees \ done : Collectable(r, w)}
               w == CHOOSE w \in todo : \A u \in todo : w <= u
    <2>1. todo # {} /\ Expand(r, CollectSteps(r, w, done))
      BY <1>3 DEF CollectNext
    <2>2. w \in Trees /\ tree[w] # None
      <3>1. todo \subseteq Nat
        BY NumbersAssumption DEF Trees, Sessions
      <3>2. \E x \in todo : \A u \in todo : x <= u
        BY <2>1, <3>1, Least
      <3>3. w \in todo
        BY <3>2
      <3> QED BY <3>3 DEF Collectable
    <2> HIDE DEF w, done
    <2> DEFINE q == CollectSteps(r, w, done)
    <2>3. ProperList(q) /\ PrunesChecked(q, tree', archive') /\ ChecksGuarded(q) /\ q[1].op = "guard"
      BY <1>1, <2>2, CollectFits
    <2> HIDE DEF q
    <2> DEFINE j == [job[r] EXCEPT !.todo = q]
    <2>4. Continue(r, j, mem[r])
      BY <2>1 DEF Expand, q
    <2>5. j.todo = q /\ j.undo = job[r].undo /\ MeekList(job[r].undo)
      BY DEF WorkInv, JobsFit, JobFits, IsJob
    <2> HIDE DEF j
    <2>6. job = [x \in Runtimes |-> job[x]]
      BY DEF WorkInv, JobsFit
    <2>7. JobFits(job'[r], tree', archive')
      BY <2>3, <2>4, <2>5, <2>6, ContinueFits
    <2> QED BY <1>1, <2>4, <2>7, OnlyJob, SameWork DEF WorkInv
  <1> QED BY <1>2, <1>3

-----------------------------------------------------------------------------
(* The steps of a job that list further effects.                            *)

LEMMA ExpandStep ==
    ASSUME Undisturbed, WorkInv, NEW r \in Runtimes, NEW steps, GentleList(steps),
           Expand(r, steps), UNCHANGED <<tree, archive>>
    PROVE  WorkInv'
  <1> DEFINE j == [job[r] EXCEPT !.todo = steps]
  <1>1. Continue(r, j, mem[r])
    BY DEF Expand
  <1>2. j.todo = steps /\ j.undo = job[r].undo /\ MeekList(job[r].undo)
    BY DEF WorkInv, JobsFit, JobFits, IsJob
  <1> HIDE DEF j
  <1> QED BY <1>1, <1>2, SameWork, GentleJob

LEMMA ProvisionStep ==
    ASSUME Undisturbed, WorkInv, NEW r \in Runtimes, ProvisionSteps(r)
    PROVE  WorkInv' /\ UNCHANGED <<tree, archive>>
  <1> DEFINE t == Effect(r).task
             ts == OrphanTrees(r)
             us == OrphanTasks(r)
             a == [i \in 1..Cardinality(ts) |-> Release(InOrder(ts)[i])]
             b == [i \in 1..Cardinality(us) |-> Move(InOrder(us)[i], "stale")]
             c == <<Limit(t)>>
             j == [todo |-> (a \o b) \o c, undo |-> <<>>, safe |-> FALSE]
  <1>1. UNCHANGED <<tree, archive>>
    BY DEF ProvisionSteps, work
  <1>2. CASE ~Reconciled(r)
    <2>1. Expand(r, SuspendAll(r) \o <<Provision(t)>>)
      BY <1>2 DEF ProvisionSteps
    <2>2. GentleList(<<Provision(t)>>)
      BY MeekEffects, MeekOne, MeekListIsGentle
    <2> QED BY <1>1, <2>1, <2>2, SuspendAllGentle, GentleJoin, ExpandStep
  <1>3. CASE Reconciled(r)
    <2>1. Continue(r, j, Merged(r))
      BY <1>3, Zenon DEF ProvisionSteps, ForEach
    <2>2. j.todo = (a \o b) \o c /\ j.undo = <<>>
      OBVIOUS
    <2> HIDE DEF j
    <2>3. GentleList(a)
      <3> HIDE DEF ts
      <3>1. DOMAIN a = 1..Cardinality(ts) /\ a = [i \in 1..Cardinality(ts) |-> a[i]]
        OBVIOUS
      <3>2. \A i \in 1..Cardinality(ts) : Gentle(a[i])
        BY MeekEffects, MeekIsGentle
      <3>4. Cardinality(ts) \in Nat
        BY Counted DEF OrphanTrees, Trees, ts
      <3> HIDE DEF a
      <3> QED BY <3>1, <3>2, <3>4, EachGentle
    <2>4. GentleList(b)
      <3>0. Cardinality(us) \in Nat
        BY Counted DEF OrphanTasks, Tasks
      <3> HIDE DEF us
      <3>1. DOMAIN b = 1..Cardinality(us) /\ b = [i \in 1..Cardinality(us) |-> b[i]]
        OBVIOUS
      <3>2. \A i \in 1..Cardinality(us) : Gentle(b[i])
        BY MeekEffects, MeekIsGentle
      <3> HIDE DEF b
      <3> QED BY <3>0, <3>1, <3>2, EachGentle
    <2>5. GentleList(c)
      BY MeekEffects, MeekOne, MeekListIsGentle
    <2> HIDE DEF a, b, c
    <2>6. GentleList(j.todo) /\ MeekList(j.undo)
      BY <2>2, <2>3, <2>4, <2>5, GentleJoin, Nothing
    <2> QED BY <1>1, <2>1, <2>6, SameWork, GentleJob
  <1> QED BY <1>1, <1>2, <1>3

LEMMA StartStepsGentle == ASSUME NEW t PROVE GentleList(StartSteps(t))
  <1> DEFINE v == Fresh(t, t)
             m == <<Move(t, "stale")>>
             a == <<OnFailure(UndoStart(t) \o m), MakeTree(t)>>
             b == Store(t, v)
             c == <<Attach(t, v, "first"), Bind(t, t, t), Acquire(t, t), Move(t, "running")>>
  <1>1. StartSteps(t) = (a \o b) \o c
    BY DEF StartSteps
  <1>2. MeekList(UndoStart(t)) /\ MeekList(m)
    BY UndoStartMeek, MeekEffects, MeekOne
  <1>3. GentleList(a)
    <2> HIDE DEF m
    <2>1. MeekList(UndoStart(t) \o m)
      BY <1>2, MeekJoin
    <2> QED BY <2>1, GentleGuards, MeekEffects, MeekIsGentle, GentleTwo
  <1>4. GentleList(b) /\ GentleList(c)
    <2> HIDE DEF v
    <2> QED BY Written, MeekEffects, MeekFour, MeekListIsGentle
  <1> HIDE DEF a, b, c
  <1> QED BY <1>1, <1>3, <1>4, GentleJoin

LEMMA LimitStep ==
    ASSUME Undisturbed, WorkInv, NEW r \in Runtimes, LimitSteps(r)
    PROVE  WorkInv' /\ UNCHANGED <<tree, archive>>
  <1> DEFINE t == Effect(r).task
             steps == IF Cardinality(Slots(r)) >= MaxParallel THEN <<Move(t, "blocked")>>
                      ELSE StartSteps(t)
  <1>1. Expand(r, steps) /\ UNCHANGED <<tree, archive>>
    BY Zenon DEF LimitSteps, work
  <1>2. GentleList(steps)
    <2>1. GentleList(<<Move(t, "blocked")>>)
      BY MeekEffects, MeekOne, MeekListIsGentle
    <2> QED BY <2>1, StartStepsGentle
  <1> HIDE DEF steps
  <1> QED BY <1>1, <1>2, ExpandStep

LEMMA SalvageStep ==
    ASSUME Undisturbed, WorkInv, NEW r \in Runtimes, SalvageSteps(r)
    PROVE  WorkInv' /\ UNCHANGED <<tree, archive>>
  <1> DEFINE e == Effect(r)
             a == <<>>
             b == Store(e.session, e.rec) \o <<Object(e.session, e.rec)>>
             c == <<DropTree(e.session)>>
             steps == CASE tree[e.session] = None -> a
                        [] Dirty(e.session) -> b
                        [] OTHER -> c
  <1>1. Expand(r, steps) /\ UNCHANGED <<tree, archive>>
    BY Zenon DEF SalvageSteps, work
  <1>2. GentleList(a) /\ GentleList(b) /\ GentleList(c)
    BY Nothing, Written, MeekEffects, MeekOne, MeekListIsGentle, GentleJoin
  <1>3. GentleList(steps)
    <2> HIDE DEF a, b, c
    <2>1. CASE tree[e.session] = None
      BY <1>2, <2>1 DEF Dirty
    <2>2. CASE tree[e.session] # None /\ Dirty(e.session)
      BY <1>2, <2>2
    <2>3. CASE tree[e.session] # None /\ ~Dirty(e.session)
      BY <1>2, <2>3
    <2> QED BY <2>1, <2>2, <2>3
  <1> HIDE DEF steps
  <1> QED BY <1>1, <1>3, ExpandStep

-----------------------------------------------------------------------------
(* The effects.                                                             *)

\* An effect that touches neither worktree nor archive.
LEMMA OtherEffect ==
    ASSUME Undisturbed, WorkInv, NEW r \in Runtimes, GoOn(r), job[r].todo # <<>>,
           Effect(r).op # "revalidate", UNCHANGED <<tree, archive>>
    PROVE  WorkInv'
  BY SameWork, GoOnStep

LEMMA OtherSteps ==
    ASSUME Undisturbed, WorkInv, NEW r \in Runtimes,
           \/ ChangeSidecar(r) \/ SaveRow(r) \/ SetRowState(r) \/ AcquireLease(r)
           \/ EndLeases(r) \/ ChangeTask(r) \/ ApplyToCanonical(r)
    PROVE  WorkInv' /\ UNCHANGED <<tree, archive>>
  <1>1. /\ UNCHANGED <<tree, archive>> /\ GoOn(r) /\ job[r].todo # <<>>
        /\ Effect(r).op # "revalidate"
    <2>1. CASE ChangeSidecar(r) \/ SaveRow(r) \/ SetRowState(r)
      BY <2>1 DEF ChangeSidecar, SaveRow, SetRowState, Does, At, work
    <2>2. CASE AcquireLease(r) \/ EndLeases(r) \/ ChangeTask(r) \/ ApplyToCanonical(r)
      BY <2>2 DEF AcquireLease, EndLeases, ChangeTask, ApplyToCanonical, Does, At, work
    <2> QED BY <2>1, <2>2
  <1> QED BY <1>1, OtherEffect

LEMMA CheckStep ==
    ASSUME Undisturbed, WorkInv, NEW r \in Runtimes, RevalidateArchive(r)
    PROVE  WorkInv' /\ UNCHANGED <<tree, archive>>
  <1>1. /\ UNCHANGED <<tree, archive>> /\ GoOn(r) /\ job[r].todo # <<>>
        /\ Effect(r).op = "revalidate" /\ Possible(r, Effect(r))
    BY DEF RevalidateArchive, Does, At, work
  <1>2. \E a \in archive : a.tree = Effect(r).tree /\ a.content = tree[Effect(r).tree]
    <2>1. /\ tree[Effect(r).tree] = Effect(r).content
          /\ \E a \in archive : a.tree = Effect(r).tree /\ a.content = Effect(r).content
      BY <1>1 DEF Possible
    <2> QED BY <2>1
  <1> QED BY <1>1, <1>2, SameWork, GoOnStep

LEMMA NoneIsNoContent ==
    0 \in Contents /\ None \notin Contents
  <1>1. MaxContent \in Nat
    BY NumbersAssumption
  <1>2. None \notin Int
    BY NoneAssumption
  <1> QED BY <1>1, <1>2 DEF Contents

LEMMA WorktreeStep ==
    ASSUME Undisturbed, WorkInv, NEW r \in Runtimes, ChangeWorktree(r)
    PROVE  WorkInv' /\ Keeps
  <1> DEFINE e == Effect(r)
             w == e.tree
  <1>1. /\ e.op \in {"make", "drop", "prune"} /\ Possible(r, e) /\ job[r].todo # <<>>
        /\ tree' = [tree EXCEPT ![w] = IF e.op = "make" THEN 0 ELSE None]
        /\ UNCHANGED archive /\ GoOn(r)
    BY DEF ChangeWorktree, Does, At
  <1>2. e.op = "prune" => Spare(w, tree, archive)
    BY <1>1, HeadFits
  <1> HIDE DEF e
  <1>3. TreesFit' /\ ArchivesFit' /\ Grown
    BY <1>1, NoneIsNoContent DEF WorkInv, TreesFit, ArchivesFit, Grown
  <1>4. WorkInv'
    BY <1>1, <1>3, GoOnStep DEF e
  <1>5. CASE w \notin Trees
    <2>1. tree' = tree
      BY <1>1, <1>5 DEF WorkInv, TreesFit
    <2> QED BY <1>1, <1>4, <2>1, SameKeeps
  <1>6. CASE w \in Trees /\ e.op = "make"
    <2>1. tree[w] = None
      BY <1>1, <1>6 DEF Possible
    <2>2. Work!Open(w)
      BY <1>1, <1>6, <2>1 DEF Work!Open
    <2> QED BY <1>4, <1>6, <2>2 DEF Keeps, Work!Next
  <1>7. CASE w \in Trees /\ e.op # "make"
    <2>1. (e.op = "drop" => tree[w] = 0) /\ (e.op = "prune" => tree[w] # None)
      BY <1>1 DEF Possible
    <2>2. tree[w] = 0 \/ <<w, tree[w]>> \in Archives
      BY <1>1, <1>2, <1>7, <2>1 DEF Archives, Spare
    <2>3. tree' = [tree EXCEPT ![w] = None] /\ Archives' = Archives
      BY <1>1, <1>7 DEF Archives
    <2>4. Work!Discard(w)
      BY <2>2, <2>3 DEF Work!Discard, Archives
    <2> QED BY <1>4, <1>7, <2>4 DEF Keeps, Work!Next
  <1> QED BY <1>5, <1>6, <1>7

LEMMA FillStep ==
    ASSUME Undisturbed, WorkInv, NEW r \in Runtimes, FillWorktree(r)
    PROVE  WorkInv' /\ Keeps
  <1> DEFINE e == Effect(r)
             w == e.tree
  <1>1. /\ e.op = "fill" /\ Possible(r, e) /\ job[r].todo # <<>>
        /\ tree' = [tree EXCEPT ![w] = e.content]
        /\ UNCHANGED archive /\ GoOn(r)
    BY DEF FillWorktree, Does, At
  <1>2. e.content \in Contents
    BY <1>1, HeadFits DEF Proper
  <1> HIDE DEF e
  <1>3. TreesFit' /\ ArchivesFit' /\ Grown
    BY <1>1, <1>2 DEF WorkInv, TreesFit, ArchivesFit, Grown
  <1>4. WorkInv'
    BY <1>1, <1>3, GoOnStep DEF e
  <1>5. CASE w \notin Trees
    <2>1. tree' = tree
      BY <1>1, <1>5 DEF WorkInv, TreesFit
    <2> QED BY <1>1, <1>4, <2>1, SameKeeps
  <1>6. CASE w \in Trees
    <2>1. tree[w] # None
      BY <1>1, NoneIsNoContent DEF Possible
    <2>2. Work!Write(w)
      BY <1>1, <1>2, <2>1 DEF Work!Write
    <2> QED BY <1>4, <1>6, <2>2 DEF Keeps, Work!Next
  <1> QED BY <1>5, <1>6

LEMMA PublishStep ==
    ASSUME Undisturbed, WorkInv, NEW r \in Runtimes, PublishArchive(r)
    PROVE  WorkInv' /\ Keeps
  <1> DEFINE e == Effect(r)
             w == e.tree
             new == [tree |-> w, content |-> e.content, aliases |-> e.aliases, pruned |-> FALSE]
  <1>1. /\ e.op = "publish" /\ Possible(r, e) /\ job[r].todo # <<>>
        /\ archive' = archive \cup {new} /\ UNCHANGED tree /\ GoOn(r)
    BY DEF PublishArchive, Does, At
  <1>2. w \in Trees /\ e.content \in Contents
    BY <1>1, HeadFits DEF Proper
  <1>3. tree[w] = e.content
    BY <1>1 DEF Possible
  <1> HIDE DEF e
  <1>4. TreesFit' /\ ArchivesFit'
    <2>1. \A a \in archive' : a \in archive \/ a = new
      BY <1>1
    <2>2. /\ new.tree = w /\ new.content = e.content
          /\ new = [tree |-> new.tree, content |-> new.content, aliases |-> new.aliases,
                    pruned |-> new.pruned]
      OBVIOUS
    <2> HIDE DEF new
    <2> QED BY <1>1, <1>2, <2>1, <2>2 DEF WorkInv, TreesFit, ArchivesFit
  <1>5. WorkInv'
    <2>1. Grown
      BY <1>1 DEF Grown
    <2> QED BY <1>1, <1>4, <2>1, GoOnStep DEF e
  <1>6. Archives' = Archives \cup {<<w, tree[w]>>}
    <2>1. new.tree = w /\ new.content = tree[w]
      BY <1>3
    <2> HIDE DEF new
    <2> QED BY <1>1, <2>1 DEF Archives
  <1>7. PICK x \in Trees : x = w
    BY <1>2
  <1>8. tree[x] # None /\ Archives' = Archives \cup {<<x, tree[x]>>} /\ UNCHANGED tree
    BY <1>1, <1>2, <1>3, <1>6, <1>7, NoneIsNoContent
  <1>9. Work!Keep(x)
    BY <1>8 DEF Work!Keep, Archives
  <1> QED BY <1>5, <1>9 DEF Keeps, Work!Next

LEMMA MarkStep ==
    ASSUME Undisturbed, WorkInv, NEW r \in Runtimes, MarkArchivePruned(r)
    PROVE  WorkInv' /\ Keeps
  <1> DEFINE e == Effect(r)
             on(a) == IF a.tree = e.tree /\ a.content = e.content
                      THEN [a EXCEPT !.pruned = TRUE] ELSE a
  <1>1. /\ e.op = "pruned" /\ job[r].todo # <<>>
        /\ archive' = {on(a) : a \in archive} /\ UNCHANGED tree /\ GoOn(r)
    BY DEF MarkArchivePruned, Does, At
  <1> HIDE DEF e
  <1>2. ASSUME NEW a \in archive
        PROVE  /\ on(a).tree = a.tree /\ on(a).content = a.content
               /\ on(a) = [tree |-> on(a).tree, content |-> on(a).content,
                           aliases |-> on(a).aliases, pruned |-> on(a).pruned]
    <2>1. a = [tree |-> a.tree, content |-> a.content, aliases |-> a.aliases, pruned |-> a.pruned]
      BY DEF WorkInv, ArchivesFit
    <2>2. PICK b : b = [a EXCEPT !.pruned = TRUE]
      OBVIOUS
    <2>3. b = [tree |-> a.tree, content |-> a.content, aliases |-> a.aliases, pruned |-> TRUE]
      BY <2>1, <2>2
    <2>4. /\ b.tree = a.tree /\ b.content = a.content
          /\ b = [tree |-> b.tree, content |-> b.content, aliases |-> b.aliases, pruned |-> b.pruned]
      BY <2>3
    <2>5. on(a) = b \/ on(a) = a
      BY <2>2
    <2> HIDE DEF on
    <2> QED BY <2>1, <2>4, <2>5
  <1> HIDE DEF on
  <1>3. TreesFit' /\ ArchivesFit' /\ Grown
    BY <1>1, <1>2 DEF WorkInv, TreesFit, ArchivesFit, Grown
  <1>4. WorkInv'
    BY <1>1, <1>3, GoOnStep DEF e
  <1>5. Archives' = Archives
    <2>1. Archives' = {<<on(a).tree, on(a).content>> : a \in archive}
      BY <1>1 DEF Archives
    <2> QED BY <1>2, <2>1 DEF Archives
  <1> QED BY <1>1, <1>4, <1>5 DEF Keeps

-----------------------------------------------------------------------------
(* An effect that fails.                                                    *)

\* A job that skips what fails compares nothing: what is left of it removes no work.
LEMMA SkippingIsGentle ==
    ASSUME WorkInv, NEW r \in Runtimes, job[r].todo # <<>>, job[r].safe
    PROVE  GentleList(Tail(job[r].todo))
  <1> DEFINE q == job[r].todo
  <1>1. ProperList(q) /\ PrunesChecked(q, tree, archive) /\ ~HasCheck(q) /\ q # <<>>
    BY DEF WorkInv, JobsFit, JobFits
  <1> HIDE DEF q
  <1>2. /\ IsList(Tail(q)) /\ DOMAIN q = 1..Len(q) /\ Len(q) \in Nat
        /\ \A i \in DOMAIN Tail(q) :
                 i \in Nat \ {0} /\ i + 1 \in DOMAIN q /\ Tail(q)[i] = q[i + 1]
    BY <1>1, AfterHead DEF ProperList
  <1>3. ASSUME NEW i \in DOMAIN Tail(q) PROVE Gentle(Tail(q)[i])
    <2>1. PICK k \in DOMAIN q : k = i + 1 /\ i \in Nat \ {0} /\ Tail(q)[i] = q[k]
      BY <1>2
    <2>2. k # 1 /\ k - 1 = i /\ k - 1 \in DOMAIN q
      BY <1>2, <2>1
    <2>3. q[k].op # "revalidate" /\ q[k - 1].op # "revalidate"
      BY <1>1, <2>2 DEF HasCheck
    <2>4. q[k].op # "prune"
      BY <1>1, <2>2, <2>3 DEF PrunesChecked
    <2> QED BY <1>1, <2>1, <2>3, <2>4 DEF ProperList, Gentle
  <1> QED BY <1>2, <1>3 DEF GentleList, q

LEMMA EndIsGentle ==
    ASSUME NEW q, GentleList(q), NEW n \in Nat
    PROVE  GentleList(SubSeq(q, n + 1, Len(q)))
  BY EndOf DEF GentleList

LEMMA AttemptCounted ==
    ASSUME NEW q, IsList(q), NEW s
    PROVE  Cardinality(Attempt(q, s)) \in Nat
  <1>1. Len(q) \in Nat /\ DOMAIN q = 1..Len(q)
    BY ListFacts
  <1>2. Attempt(q, s) \subseteq 1..Len(q)
    BY <1>1 DEF Attempt
  <1>3. IsFiniteSet(1..Len(q))
    BY <1>1, UpTo
  <1> QED BY <1>2, <1>3, FS_Subset, FS_CardinalityType

LEMMA AfterFailureGentle ==
    ASSUME WorkInv, NEW r \in Runtimes, job[r].todo # <<>>
    PROVE  GentleList(AfterFailure(r).todo) /\ MeekList(AfterFailure(r).undo)
  <1>1. IsJob(job[r]) /\ MeekList(job[r].undo)
    BY DEF WorkInv, JobsFit, JobFits
  <1>2. CASE ~job[r].safe
    <2>1. AfterFailure(r) = [todo |-> job[r].undo, undo |-> <<>>, safe |-> TRUE]
      BY <1>2 DEF AfterFailure
    <2> QED BY <1>1, <2>1, Nothing, MeekListIsGentle
  <1>3. CASE job[r].safe
    <2> DEFINE e == Effect(r)
               rest == Tail(job[r].todo)
               from(k) == SubSeq(rest, k, Len(rest))
               back == <<RowState(e.session, "cleanup_candidate", TRUE)>>
               todo == CASE e.op = "close" -> from(3)
                         [] e.op = "clear" -> back \o from(2)
                         [] e.op = "claim" -> Save(e.session, Marked(e.rec, "stale")) \o rest
                         [] e.op = "settle" -> from(2)
                         [] e.op \in {"sidecar", "row"} ->
                                from(Cardinality(Attempt(rest, e.session)) + 1)
                         [] OTHER -> rest
    <2>1. AfterFailure(r) = [job[r] EXCEPT !.todo = todo]
      BY <1>3, Zenon DEF AfterFailure
    <2>2. AfterFailure(r).todo = todo /\ AfterFailure(r).undo = job[r].undo
      <3> HIDE DEF todo
      <3> QED BY <1>1, <2>1 DEF IsJob
    <2>3. GentleList(rest) /\ IsList(rest)
      BY <1>3, SkippingIsGentle DEF GentleList
    <2> HIDE DEF rest
    <2>4. GentleList(from(2)) /\ GentleList(from(3))
      <3>1. GentleList(SubSeq(rest, 1 + 1, Len(rest))) /\ GentleList(SubSeq(rest, 2 + 1, Len(rest)))
        <4>1. 1 \in Nat /\ 2 \in Nat
          OBVIOUS
        <4> QED BY <2>3, <4>1, EndIsGentle
      <3>2. 1 + 1 = 2 /\ 2 + 1 = 3
        OBVIOUS
      <3> QED BY <3>1, <3>2
    <2>5. GentleList(from(Cardinality(Attempt(rest, e.session)) + 1))
      BY <2>3, AttemptCounted, EndIsGentle
    <2>6. GentleList(back) /\ GentleList(Save(e.session, Marked(e.rec, "stale")))
      BY MeekEffects, MeekOne, Written, MeekListIsGentle
    <2> HIDE DEF from, back
    <2>7. GentleList(back \o from(2))
      BY <2>4, <2>6, GentleJoin
    <2>8. GentleList(Save(e.session, Marked(e.rec, "stale")) \o rest)
      BY <2>3, <2>6, GentleJoin
    <2>9. GentleList(todo)
      BY <2>3, <2>4, <2>5, <2>7, <2>8
    <2> QED BY <1>1, <2>2, <2>9
  <1> QED BY <1>2, <1>3

LEMMA FailureStep ==
    ASSUME Undisturbed, WorkInv, NEW r \in Runtimes, EffectFails(r)
    PROVE  WorkInv' /\ UNCHANGED <<tree, archive>>
  <1>1. /\ job[r].todo # <<>> /\ UNCHANGED <<tree, archive>>
        /\ Continue(r, AfterFailure(r), mem[r])
    BY DEF EffectFails, work
  <1> QED BY <1>1, AfterFailureGentle, SameWork, GentleJob

-----------------------------------------------------------------------------
(* The specification implements the abstract one.                           *)

LEMMA InitialWork == ASSUME Init PROVE WorkInv /\ Work!Init
  <1>1. tree = [w \in Trees |-> None] /\ archive = {} /\ job = [r \in Runtimes |-> Free]
    BY DEF Init
  <1>2. TreesFit /\ ArchivesFit
    BY <1>1 DEF TreesFit, ArchivesFit
  <1>3. JobsFit
    BY <1>1, FreeFits DEF JobsFit
  <1>4. Work!Init
    BY <1>1 DEF Work!Init
  <1> QED BY <1>2, <1>3, <1>4 DEF WorkInv

LEMMA HandlerStep ==
    ASSUME Undisturbed, WorkInv, NEW r \in Runtimes, Handler(r)
    PROVE  WorkInv' /\ Keeps
  <1>1. CASE Edit(r)
    BY <1>1, EditStep
  <1>2. CASE ReconcileInactive(r) \/ Create(r) \/ Start(r) \/ PlanTask(r) \/ Dispatch(r)
    <2>1. WorkInv' /\ UNCHANGED <<tree, archive>>
      BY <1>2, ReconcileStep, CreateStep, EnqueueStep, DispatchStep
    <2> QED BY <2>1, SameKeeps
  <1>3. CASE Reclaim(r) \/ Synchronize(r) \/ Integrate(r) \/ Close(r) \/ Abandon(r)
    <2>1. WorkInv' /\ UNCHANGED <<tree, archive>>
      BY <1>3, ReclaimStep, SynchronizeStep, IntegrateStep, CloseStep, AbandonStep
    <2> QED BY <2>1, SameKeeps
  <1>4. CASE RequestAttach(r) \/ AttachAgain(r) \/ AttachBeside(r) \/ Restore(r) \/ Resume(r)
    <2>1. WorkInv' /\ UNCHANGED <<tree, archive>>
      BY <1>4, RequestStep, AttachAgainStep, RestoreStep, ResumeStep
    <2> QED BY <2>1, SameKeeps
  <1>5. CASE Boot(r) \/ CloseRuntime(r)
    <2>1. WorkInv' /\ UNCHANGED <<tree, archive>>
      BY <1>5, BootStep, CloseRuntimeStep
    <2> QED BY <2>1, SameKeeps
  <1> QED BY <1>1, <1>2, <1>3, <1>4, <1>5 DEF Handler

LEMMA ProgressStep ==
    ASSUME Undisturbed, WorkInv, NEW r \in Runtimes, Progress(r)
    PROVE  WorkInv' /\ Keeps
  <1>1. CASE ChangeWorktree(r) \/ FillWorktree(r) \/ PublishArchive(r) \/ MarkArchivePruned(r)
    BY <1>1, WorktreeStep, FillStep, PublishStep, MarkStep
  <1>2. CASE \/ ChangeSidecar(r) \/ SaveRow(r) \/ SetRowState(r) \/ AcquireLease(r)
             \/ EndLeases(r) \/ ChangeTask(r) \/ ApplyToCanonical(r)
             \/ RevalidateArchive(r) \/ EffectFails(r)
    <2>1. WorkInv' /\ UNCHANGED <<tree, archive>>
      BY <1>2, OtherSteps, CheckStep, FailureStep
    <2> QED BY <2>1, SameKeeps
  <1>3. CASE ProvisionSteps(r) \/ LimitSteps(r) \/ SalvageSteps(r) \/ CollectNext(r) \/ ShutDown(r)
    <2>1. WorkInv' /\ UNCHANGED <<tree, archive>>
      BY <1>3, ProvisionStep, LimitStep, SalvageStep, CollectStep, ShutDownStep
    <2> QED BY <2>1, SameKeeps
  <1> QED BY <1>1, <1>2, <1>3 DEF Progress, EffectStep

LEMMA WorkStep ==
    ASSUME Undisturbed, WorkInv, Next
    PROVE  WorkInv' /\ Keeps
  <1>1. CASE \E r \in Runtimes : Handler(r) \/ Progress(r)
    BY <1>1, HandlerStep, ProgressStep
  <1>2. CASE Crash \/ Lapse \/ LeaseLapses
    <2>1. WorkInv' /\ UNCHANGED <<tree, archive>>
      BY <1>2, CrashStep, LapseStep
    <2> QED BY <2>1, SameKeeps
  <1> QED BY <1>1, <1>2 DEF Next

\* Work in a worktree goes away only when it is clean or its exact content is in an
\* archive, and what an archive holds stays in it, whatever fails, whenever the process
\* dies and however many runtimes take part in it, in every behaviour in which no
\* runtime writes into a worktree while another one removes it: that the removal holds
\* no lock between its last comparison and the removal is the only way to lose work
\* (_gc_expired_clean_sessions).
THEOREM KeptWorkTheorem == Spec /\ [][Undisturbed]_vars => WorkIsKept
  <1>1. Init => WorkInv /\ Work!Init
    BY InitialWork
  <1>2. WorkInv /\ [Next]_vars /\ [Undisturbed]_vars
            => WorkInv' /\ [Work!Next]_<<tree, Archives>>
    <2>1. CASE UNCHANGED vars
      <3>1. UNCHANGED <<tree, archive, job>>
        BY <2>1 DEF vars, work
      <3> QED BY <3>1, SameInv DEF Archives
    <2>2. CASE Next /\ Undisturbed
      BY <2>2, WorkStep DEF Keeps
    <2> QED BY <2>1, <2>2
  <1>3. <<tree, Archives>> = <<tree, {<<a.tree, a.content>> : a \in archive}>>
    BY DEF Archives
  <1> QED BY <1>1, <1>2, PTL DEF Spec, WorkIsKept, Work!Spec, Archives
=============================================================================
