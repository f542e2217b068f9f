--------------------------- MODULE Requests_proofs ---------------------------
(* Proofs about the two parts that requests pass through, RequestRegistry   *)
(* and HttpSessions.                                                         *)
(*                                                                           *)
(* The registry: but for accept, every operation is tame: it adds no key, it *)
(* makes no record live that was not, and a record that stays live stays the *)
(* record of its call. accept is tame too, up to the one record it adds      *)
(* under its key.                                                            *)
(*                                                                           *)
(* The sessions of the transport, for any number of handler threads, sessions *)
(* and retired ids: the table and the claims fit together after every step,  *)
(* only sessions nobody has claimed expire or are evicted, and requests of   *)
(* one session run one at a time, never on a runtime that is being closed.   *)
EXTENDS RequestRegistry, HttpSessions, FiniteSetTheorems, SequenceTheorems,
        NaturalsInduction, WellFoundedInduction, TLAPS

-----------------------------------------------------------------------------
(* THE REGISTRY                                                              *)

Tables == [Keys -> Records \cup {None}]

Tame(old, new) ==
    /\ new \in Tables
    /\ \A k \in Keys : new[k] # None => old[k] # None
    /\ \A k \in Keys : Live(new, k) => Live(old, k) /\ new[k].call = old[k].call

NoneAhead == \A k \in Keys : recs[k] # None => k[1] <= gen

Typed ==
    /\ gen \in 1..MaxGeneration
    /\ recs \in Tables
    /\ stage \in [Calls -> Stages]
    /\ born \in [Calls -> 1..MaxGeneration]

Inv == Typed /\ NoneAhead /\ OneLivePerOperation

-----------------------------------------------------------------------------
\* Being tame is transitive.
LEMMA TameTwice ==
    ASSUME NEW a, NEW b, NEW c, Tame(a, b), Tame(b, c)
    PROVE  Tame(a, c)
  BY DEF Tame

\* A record under a key of the table is a record.
LEMMA RecordAt ==
    ASSUME NEW rs \in Tables, NEW k \in Keys, rs[k] # None
    PROVE  rs[k] \in Records
  BY DEF Tables

\* Settling a record, or cutting it off, keeps its call and makes it terminal.
LEMMA SettledIsTerminal ==
    ASSUME NEW entry \in Records, NEW s \in TerminalStates
    PROVE  /\ Settled(entry, s) \in Records
           /\ Terminal(Settled(entry, s))
           /\ Settled(entry, s).call = entry.call
  <1>1. 0 \in 0..MaxAge
    BY RegistryAssumption
  <1>2. CASE Terminal(entry)
    BY <1>2 DEF Settled
  <1>3. CASE ~Terminal(entry)
    <2>1. Settled(entry, s) = [entry EXCEPT !.state = s, !.age = 0]
      BY <1>3 DEF Settled
    <2> QED BY <1>1, <2>1 DEF Records, Terminal
  <1> QED BY <1>2, <1>3

\* A request cut off by a disconnection or by reconcile is settled too.
LEMMA CutOffIsTerminal ==
    ASSUME NEW entry \in Records, NEW s \in TerminalStates
    PROVE  /\ CutOff(entry, s) \in Records
           /\ Terminal(CutOff(entry, s))
           /\ CutOff(entry, s).call = entry.call
  BY SettledIsTerminal DEF CutOff, TerminalStates

\* Taking records away, by age or by capacity, is tame.
LEMMA WithoutIsTame ==
    ASSUME NEW rs \in Tables, NEW S
    PROVE  Tame(rs, Without(rs, S))
  BY DEF Tame, Without, Tables, Live

\* _prune_locked, by age and then by capacity, is tame.
LEMMA PrunedIsTame ==
    ASSUME NEW rs \in Tables, NEW new \in Pruned(rs)
    PROVE  Tame(rs, new)
  <1>1. Tame(rs, Aged(rs))
    BY DEF Tame, Aged, Tables, Live
  <1>2. PICK S \in Evictions(Aged(rs)) : new = Without(Aged(rs), S)
    BY DEF Pruned, Evicted
  <1>3. Tame(Aged(rs), new)
    BY <1>1, <1>2, WithoutIsTame DEF Tame
  <1> QED BY <1>1, <1>3, TameTwice

\* Reaping is tame, and what has been reaped is not live.
LEMMA ReapedIsTame ==
    ASSUME NEW rs \in Tables, NEW ks, \A k \in ks : k \in Keys /\ rs[k] # None
    PROVE  /\ Tame(rs, Reaped(rs, ks))
           /\ \A k \in ks : ~Live(Reaped(rs, ks), k)
           /\ \A k \in Keys : rs[k] # None =>
                 Reaped(rs, ks)[k] # None /\ Reaped(rs, ks)[k].call = rs[k].call
  <1>1. \A k \in ks : /\ Settled(rs[k], "DISCONNECTED") \in Records
                      /\ Terminal(Settled(rs[k], "DISCONNECTED"))
                      /\ Settled(rs[k], "DISCONNECTED").call = rs[k].call
    BY RecordAt, SettledIsTerminal DEF TerminalStates
  <1>2. \A k \in Keys : Reaped(rs, ks)[k] = IF k \in ks THEN Settled(rs[k], "DISCONNECTED") ELSE rs[k]
    BY DEF Reaped
  <1>3. Reaped(rs, ks) \in Tables
    BY <1>1 DEF Reaped, Tables
  <1>4. \A k \in ks : ~Live(Reaped(rs, ks), k)
    BY <1>1, <1>2 DEF Live
  <1>5. \A k \in Keys : rs[k] # None =>
           Reaped(rs, ks)[k] # None /\ Reaped(rs, ks)[k].call = rs[k].call
    BY <1>1, <1>2, RegistryAssumption
  <1> QED BY <1>2, <1>3, <1>4, <1>5 DEF Tame, Live

\* A tame step keeps the invariant, whatever becomes of generation-free data.
LEMMA TameStep ==
    ASSUME Inv, Tame(recs, recs'), gen' = gen,
           stage' \in [Calls -> Stages], born' \in [Calls -> 1..MaxGeneration]
    PROVE  Inv'
  <1>1. Typed'
    BY DEF Inv, Typed, Tame
  <1>2. NoneAhead'
    BY DEF Inv, NoneAhead, Tame
  <1>3. OneLivePerOperation'
    BY DEF Inv, OneLivePerOperation, Tame, Live
  <1> QED BY <1>1, <1>2, <1>3 DEF Inv

\* The step of a caller that finds a record and puts its successor.
LEMMA ChangeIsTame ==
    ASSUME Typed, NEW c \in Calls, Found(c), NEW entry \in Records,
           entry.call = recs[KeyOf(c)].call,
           Terminal(recs[KeyOf(c)]) => Terminal(entry), Change(c, entry)
    PROVE  Tame(recs, recs') /\ \A k \in Keys : recs[k] # None =>
                                   recs'[k] # None /\ recs'[k].call = recs[k].call
  <1>1. KeyOf(c) \in Keys
    BY RegistryAssumption DEF KeyOf, Keys, Typed
  <1>2. recs' = [recs EXCEPT ![KeyOf(c)] = entry]
    BY DEF Change, Put
  <1>3. entry # None
    BY RegistryAssumption
  <1>4. recs' \in Tables
    BY <1>2 DEF Typed, Tables
  <1>5. \A k \in Keys : recs'[k] = IF k = KeyOf(c) THEN entry ELSE recs[k]
    BY <1>2 DEF Typed, Tables
  <1> QED BY <1>1, <1>3, <1>4, <1>5 DEF Tame, Found, Live

\* Nothing that is live is pruned.
LEMMA PrunedKeepsLive ==
    ASSUME NEW rs \in Tables, NEW new \in Pruned(rs), NEW k \in Keys, Live(rs, k)
    PROVE  new[k] = rs[k]
  <1>1. Aged(rs) \in Tables /\ Aged(rs)[k] = rs[k]
    BY DEF Aged, Tables, Live
  <1>2. PICK S \in Evictions(Aged(rs)) : new = Without(Aged(rs), S)
    BY DEF Pruned, Evicted
  <1>3. k \notin S
    BY <1>1, <1>2 DEF Evictions, Live
  <1> QED BY <1>1, <1>2, <1>3 DEF Without

\* The eviction by capacity at the end of accept keeps the live records.
LEMMA EvictedKeepsLive ==
    ASSUME NEW rs \in Tables, NEW new \in Evicted(rs), NEW k \in Keys, Live(rs, k)
    PROVE  new[k] = rs[k]
  <1>1. PICK S \in Evictions(rs) : new = Without(rs, S)
    BY DEF Evicted
  <1>2. k \notin S
    BY <1>1 DEF Evictions, Live
  <1> QED BY <1>1, <1>2 DEF Without

\* The steps of a caller other than accept are changes of one record, or none.
LEMMA CallerIsTame ==
    ASSUME Typed, NEW c \in Calls,
           \/ Start(c) \/ Retry(c) \/ Lost(c) \/ MarkSideEffectStarted(c)
           \/ AttachProcess(c) \/ MarkCompleting(c)
           \/ \E state \in Outcomes : Finish(c, state)
           \/ Disconnect(c) \/ CompleteKey(c)
    PROVE  /\ Tame(recs, recs') /\ gen' = gen
           /\ stage' \in [Calls -> Stages] /\ born' = born
           /\ \A k \in Keys : recs[k] # None =>
                 recs'[k] # None /\ recs'[k].call = recs[k].call
  <1> DEFINE old == recs[KeyOf(c)]
             Kept == \A k \in Keys : recs[k] # None =>
                        recs'[k] # None /\ recs'[k].call = recs[k].call
  <1>1. KeyOf(c) \in Keys /\ 0 \in 0..MaxAge
    BY RegistryAssumption DEF KeyOf, Keys, Typed
  <1>2. Found(c) => old \in Records
    BY <1>1, RecordAt DEF Found, Typed
  <1>3. UNCHANGED recs => Tame(recs, recs') /\ Kept
    BY DEF Tame, Typed
  <1>5. CASE Start(c)
    <2>1. gen' = gen /\ born' = born /\ stage' \in [Calls -> Stages]
      BY <1>5 DEF Start, Step, Typed, Stages
    <2>2. CASE old.state = "ACCEPTED"
      <3> DEFINE entry == [Fresh(old) EXCEPT !.state = "RUNNING"]
      <3>1. Change(c, entry) /\ Found(c)
        BY <1>5, <2>2 DEF Start
      <3>2. entry \in Records /\ entry.call = old.call /\ ~Terminal(old)
        BY <1>1, <1>2, <2>2, <3>1 DEF Records, Fresh, Terminal, LiveStates, TerminalStates, Outcomes
      <3> QED BY <2>1, <3>1, <3>2, ChangeIsTame
    <2>3. CASE old.state # "ACCEPTED"
      <3>1. Change(c, Fresh(old)) /\ Found(c)
        BY <1>5, <2>3 DEF Start
      <3>2. /\ Fresh(old) \in Records /\ Fresh(old).call = old.call
            /\ Terminal(old) => Terminal(Fresh(old))
        BY <1>1, <1>2, <3>1 DEF Records, Fresh, Terminal
      <3> QED BY <2>1, <3>1, <3>2, ChangeIsTame
    <2> QED BY <2>2, <2>3
  <1>6. CASE Retry(c)
    <2>1. gen' = gen /\ born' = born /\ stage' \in [Calls -> Stages]
      BY <1>6 DEF Retry, Step, Typed, Stages
    <2> DEFINE entry == IF Terminal(old) THEN old ELSE Fresh(old)
    <2>2. Change(c, entry) /\ Found(c)
      BY <1>6 DEF Retry
    <2>3. entry \in Records /\ entry.call = old.call /\ (Terminal(old) => Terminal(entry))
      BY <1>1, <1>2, <2>2 DEF Records, Fresh, Terminal
    <2> HIDE DEF entry
    <2> QED BY <2>1, <2>2, <2>3, ChangeIsTame
  <1>7. CASE Lost(c)
    BY <1>3, <1>7 DEF Lost, Step, Typed, Stages
  <1>8. CASE MarkSideEffectStarted(c)
    <2>1. gen' = gen /\ born' = born /\ stage' \in [Calls -> Stages]
      BY <1>8 DEF MarkSideEffectStarted, Step, Typed, Stages
    <2> DEFINE entry == [Fresh(old) EXCEPT !.effect = TRUE]
    <2>2. Change(c, entry) /\ Found(c)
      BY <1>8 DEF MarkSideEffectStarted
    <2>3. entry \in Records /\ entry.call = old.call /\ (Terminal(old) => Terminal(entry))
      BY <1>1, <1>2, <2>2 DEF Records, Fresh, Terminal
    <2> QED BY <2>1, <2>2, <2>3, ChangeIsTame
  <1>9. CASE AttachProcess(c)
    <2>1. gen' = gen /\ born' = born /\ stage' \in [Calls -> Stages]
      BY <1>9 DEF AttachProcess, Step, Typed, Stages
    <2> DEFINE entry == [Fresh(old) EXCEPT !.process = TRUE]
    <2>2. Change(c, entry) /\ Found(c)
      BY <1>9 DEF AttachProcess
    <2>3. entry \in Records /\ entry.call = old.call /\ (Terminal(old) => Terminal(entry))
      BY <1>1, <1>2, <2>2 DEF Records, Fresh, Terminal
    <2> QED BY <2>1, <2>2, <2>3, ChangeIsTame
  <1>10. CASE MarkCompleting(c)
    <2>1. gen' = gen /\ born' = born /\ stage' \in [Calls -> Stages]
      BY <1>10 DEF MarkCompleting, Step, Typed, Stages
    <2> DEFINE entry == [Fresh(old) EXCEPT !.state = "COMPLETING"]
    <2>2. Change(c, entry) /\ Found(c) /\ old.state = "RUNNING"
      BY <1>10 DEF MarkCompleting
    <2>3. entry \in Records /\ entry.call = old.call /\ ~Terminal(old)
      BY <1>1, <1>2, <2>2 DEF Records, Fresh, Terminal, LiveStates, TerminalStates, Outcomes
    <2> QED BY <2>1, <2>2, <2>3, ChangeIsTame
  <1>11. CASE \E state \in Outcomes : Finish(c, state)
    <2>1. PICK state \in Outcomes : Finish(c, state)
      BY <1>11
    <2>2. gen' = gen /\ born' = born /\ stage' \in [Calls -> Stages]
      BY <2>1 DEF Finish, Step, Typed, Stages
    <2>3. Change(c, Settled(old, state)) /\ Found(c)
      BY <2>1 DEF Finish
    <2>4. state \in TerminalStates
      BY DEF TerminalStates
    <2> QED BY <1>2, <2>2, <2>3, <2>4, SettledIsTerminal, ChangeIsTame
  <1>12. CASE Disconnect(c)
    <2>1. gen' = gen /\ born' = born /\ stage' \in [Calls -> Stages]
      BY <1>12 DEF Disconnect, Step, Typed, Stages
    <2>2. Change(c, CutOff(old, "DISCONNECTED")) /\ Found(c)
      BY <1>12 DEF Disconnect
    <2>3. "DISCONNECTED" \in TerminalStates
      BY DEF TerminalStates
    <2> QED BY <1>2, <2>1, <2>2, <2>3, CutOffIsTerminal, ChangeIsTame
  <1>13. CASE CompleteKey(c)
    <2>1. gen' = gen /\ born' = born /\ stage' \in [Calls -> Stages]
      BY <1>13 DEF CompleteKey, Step, Typed, Stages
    <2>2. CASE born[c] = gen
      <3>1. Change(c, Settled(old, "COMPLETED")) /\ Found(c)
        BY <1>13, <2>2 DEF CompleteKey
      <3>2. "COMPLETED" \in TerminalStates
        BY DEF TerminalStates, Outcomes
      <3> QED BY <1>2, <2>1, <3>1, <3>2, SettledIsTerminal, ChangeIsTame
    <2>3. CASE born[c] # gen
      BY <1>3, <1>13, <2>1, <2>3 DEF CompleteKey
    <2> QED BY <2>2, <2>3
  <1> QED BY <1>5, <1>6, <1>7, <1>8, <1>9, <1>10, <1>11, <1>12, <1>13

-----------------------------------------------------------------------------
\* accept leaves every live record, its own key's too, that is not reapable,
\* and besides the new record it is tame.
LEMMA AcceptAdds ==
    ASSUME Typed, NEW c \in Calls, Accept(c)
    PROVE  /\ recs' \in Tables
           /\ \A k \in Keys : k # <<gen, IdOf[c]>> =>
                 /\ recs'[k] # None => recs[k] # None
                 /\ Live(recs', k) => /\ Live(recs, k) /\ recs'[k].call = recs[k].call
                                      /\ k[1] = gen /\ OpOf[c] # None => OpOf[recs[k].call] # OpOf[c]
           /\ recs'[<<gen, IdOf[c]>>] = NewRecord(c)
           /\ \A k \in Keys : Live(recs, k) /\ ~Reapable(recs[k])
                 => recs'[k] # None /\ recs'[k].call = recs[k].call
  <1> DEFINE key == <<gen, IdOf[c]>>
  <1>1. key \in Keys
    BY RegistryAssumption DEF Keys, Typed
  <1>2. PICK rs \in Pruned(recs) :
           /\ rs[key] # None => Reusable(rs[key], c)
           /\ Blockers(KeyReaped(rs, key), c) = {}
           /\ \E left \in Evicted([Reaped(KeyReaped(rs, key), SameOperation(KeyReaped(rs, key), c))
                                      EXCEPT ![key] = NewRecord(c)]) :
                 \E ks : Put(left, ks)
    BY DEF Accept
  <1> DEFINE freed == KeyReaped(rs, key)
             reaped == Reaped(freed, SameOperation(freed, c))
             added == [reaped EXCEPT ![key] = NewRecord(c)]
  <1>3. PICK left \in Evicted(added) : recs' = left
    BY <1>2 DEF Put
  <1>4. Tame(recs, rs)
    BY PrunedIsTame DEF Typed
  <1>5. Tame(rs, freed)
    <2>1. \A k \in {j \in {key} : rs[j] # None /\ Reapable(rs[j])} : k \in Keys /\ rs[k] # None
      BY <1>1
    <2> QED BY <1>4, <2>1, ReapedIsTame DEF Tame, KeyReaped
  <1>6. Tame(freed, reaped) /\ \A k \in SameOperation(freed, c) : ~Live(reaped, k)
    <2>1. \A k \in SameOperation(freed, c) : k \in Keys /\ freed[k] # None
      BY DEF SameOperation, Live
    <2> QED BY <1>5, <2>1, ReapedIsTame DEF Tame
  <1>7. NewRecord(c) \in Records /\ ~Terminal(NewRecord(c)) /\ NewRecord(c) # None
    <2>1. NewRecord(c) \in Records
      BY RegistryAssumption DEF NewRecord, Records, LiveStates
    <2>2. ~Terminal(NewRecord(c))
      BY DEF NewRecord, Terminal, TerminalStates, Outcomes
    <2> QED BY <2>1, <2>2, RegistryAssumption
  <1>8. /\ added \in Tables /\ added[key] = NewRecord(c)
        /\ \A k \in Keys : k # key => added[k] = reaped[k]
    BY <1>1, <1>6, <1>7 DEF Tame, Tables
  <1>9. Tame(added, left)
    <2>1. PICK S : left = Without(added, S)
      BY DEF Evicted
    <2> QED BY <1>8, <2>1, WithoutIsTame
  <1>10. recs'[key] = NewRecord(c)
    BY <1>1, <1>3, <1>7, <1>8, EvictedKeepsLive DEF Live
  <1>11. Tame(recs, reaped)
    BY <1>4, <1>5, <1>6, TameTwice
  <1>12. ASSUME NEW k \in Keys, k # key
         PROVE  /\ recs'[k] # None => recs[k] # None
                /\ Live(recs', k) => /\ Live(recs, k) /\ recs'[k].call = recs[k].call
                                     /\ k[1] = gen /\ OpOf[c] # None => OpOf[recs[k].call] # OpOf[c]
    <2>1. recs'[k] # None => recs[k] # None
      BY <1>3, <1>8, <1>9, <1>11, <1>12 DEF Tame
    <2>2. ASSUME Live(recs', k) PROVE Live(reaped, k) /\ recs'[k].call = reaped[k].call
      BY <1>3, <1>8, <1>9, <1>12, <2>2 DEF Tame, Live
    <2>3. ASSUME Live(reaped, k), k[1] = gen, OpOf[c] # None
          PROVE  OpOf[reaped[k].call] # OpOf[c]
      <3>1. Live(freed, k) /\ freed[k].call = reaped[k].call
        BY <1>6, <2>3 DEF Tame
      <3>2. k \notin SameOperation(freed, c)
        BY <1>6, <2>3
      <3>3. OpOf[freed[k].call] # OpOf[c]
        BY <2>3, <3>1, <3>2 DEF SameOperation
      <3> QED BY <3>1, <3>3
    <2> QED BY <1>11, <2>1, <2>2, <2>3 DEF Tame
  <1>13. ASSUME NEW k \in Keys, Live(recs, k), ~Reapable(recs[k])
         PROVE  recs'[k] # None /\ recs'[k].call = recs[k].call
    <2>1. rs[k] = recs[k]
      BY <1>13, PrunedKeepsLive DEF Typed
    <2>2. k # key
      BY <1>2, <1>13, <2>1 DEF Reusable, Live
    <2>3. freed[k] = recs[k]
      BY <2>1, <2>2, <1>13 DEF KeyReaped, Reaped
    <2>4. k \notin SameOperation(freed, c)
      BY <1>2, <1>13, <2>3 DEF Blockers
    <2>5. added[k] = recs[k]
      BY <1>8, <2>2, <2>3, <2>4 DEF Reaped
    <2> QED BY <1>3, <1>8, <1>13, <2>5, EvictedKeepsLive DEF Live
  <1> QED BY <1>3, <1>9, <1>10, <1>12, <1>13 DEF Tame

\* accept keeps the invariant: the one record it makes live has no live
\* companion of its operation.
LEMMA AcceptKeeps ==
    ASSUME Inv, NEW c \in Calls, Accept(c)
    PROVE  Inv'
  <1> DEFINE key == <<gen, IdOf[c]>>
  <1>0. Typed /\ gen' = gen /\ key \in Keys
    BY RegistryAssumption DEF Inv, Typed, Accept, Keys
  <1>1. Typed'
    BY <1>0, AcceptAdds DEF Typed, Accept, Stages
  <1>2. NoneAhead'
    <2>1. ASSUME NEW k \in Keys, recs'[k] # None PROVE k[1] <= gen
      <3>1. CASE k = key
        BY <1>0, <3>1 DEF Typed
      <3>2. CASE k # key
        BY <1>0, <2>1, <3>2, AcceptAdds DEF Inv, NoneAhead
      <3> QED BY <3>1, <3>2
    <2> QED BY <1>0, <2>1 DEF NoneAhead
  <1>3. OneLivePerOperation'
    <2> SUFFICES ASSUME NEW j \in Keys, NEW k \in Keys, j # k,
                        Live(recs', j), Live(recs', k), j[1] = gen, k[1] = gen,
                        OpOf[recs'[j].call] # None
                 PROVE  OpOf[recs'[j].call] # OpOf[recs'[k].call]
      BY <1>0 DEF OneLivePerOperation, Live
    <2>1. recs'[key].call = c
      <3>1. recs'[key] = NewRecord(c)
        BY <1>0, AcceptAdds
      <3>2. NewRecord(c).call = c
        BY DEF NewRecord
      <3> QED BY <3>1, <3>2
    <2>2. CASE j = key
      BY <1>0, <2>1, <2>2, AcceptAdds
    <2>3. CASE k = key
      <3>1. CASE OpOf[c] = None
        BY <2>1, <2>3, <3>1
      <3>2. CASE OpOf[c] # None
        BY <1>0, <2>1, <2>3, <3>2, AcceptAdds
      <3> QED BY <3>1, <3>2
    <2>4. CASE j # key /\ k # key
      BY <1>0, <2>4, AcceptAdds DEF Inv, OneLivePerOperation
    <2> QED BY <2>2, <2>3, <2>4
  <1> QED BY <1>1, <1>2, <1>3 DEF Inv

-----------------------------------------------------------------------------
\* A refused accept is tame and leaves every live record under its key.
LEMMA AcceptRefusedIsTame ==
    ASSUME Typed, NEW c \in Calls, AcceptRefused(c)
    PROVE  /\ Tame(recs, recs')
           /\ \A k \in Keys : Live(recs, k) => recs'[k] # None /\ recs'[k].call = recs[k].call
  <1> DEFINE key == <<gen, IdOf[c]>>
  <1>1. key \in Keys
    BY RegistryAssumption DEF Keys, Typed
  <1>2. PICK rs \in Pruned(recs) :
           \/ recs' = rs
           \/ recs' = Reaped(KeyReaped(rs, key),
                             {k \in SameOperation(KeyReaped(rs, key), c) :
                                \A j \in Blockers(KeyReaped(rs, key), c) : Before(k, j)})
    BY DEF AcceptRefused, Put
  <1> DEFINE freed == KeyReaped(rs, key)
             passed == {k \in SameOperation(freed, c) :
                          \A j \in Blockers(freed, c) : Before(k, j)}
  <1>3. Tame(recs, rs) /\ \A k \in Keys : Live(recs, k) => rs[k] = recs[k]
    BY PrunedIsTame, PrunedKeepsLive DEF Typed
  <1>4. /\ Tame(rs, freed)
        /\ \A k \in Keys : rs[k] # None => freed[k] # None /\ freed[k].call = rs[k].call
    <2>1. \A k \in {j \in {key} : rs[j] # None /\ Reapable(rs[j])} : k \in Keys /\ rs[k] # None
      BY <1>1
    <2> QED BY <1>3, <2>1, ReapedIsTame DEF Tame, KeyReaped
  <1>5. /\ Tame(freed, Reaped(freed, passed))
        /\ \A k \in Keys : freed[k] # None =>
              Reaped(freed, passed)[k] # None /\ Reaped(freed, passed)[k].call = freed[k].call
    <2>1. \A k \in passed : k \in Keys /\ freed[k] # None
      BY DEF SameOperation, Live
    <2>2. freed \in Tables
      BY <1>4 DEF Tame
    <2> QED BY <2>1, <2>2, ReapedIsTame
  <1>6. CASE recs' = rs
    BY <1>3, <1>6 DEF Live
  <1>7. CASE recs' = Reaped(freed, passed)
    <2>1. Tame(recs, recs')
      BY <1>3, <1>4, <1>5, <1>7, TameTwice
    <2> QED BY <1>3, <1>4, <1>5, <1>7, <2>1 DEF Live
  <1> QED BY <1>2, <1>6, <1>7

\* The end of a generation leaves nothing of it live.
LEMMA RetireKeeps ==
    ASSUME Inv, RetireGeneration
    PROVE  Inv'
  <1> DEFINE cut == [k \in Keys |-> IF Live(recs, k) /\ k[1] = gen
                                    THEN CutOff(recs[k], "DISCONNECTED") ELSE recs[k]]
  <1>1. PICK rs \in Pruned(cut) : recs' = rs
    BY DEF RetireGeneration, Put
  <1>2. \A k \in Keys : Live(recs, k) =>
           CutOff(recs[k], "DISCONNECTED") \in Records /\ Terminal(CutOff(recs[k], "DISCONNECTED"))
    BY RecordAt, CutOffIsTerminal DEF Inv, Typed, Live, TerminalStates
  <1>3. Tame(recs, cut) /\ \A k \in Keys : Live(cut, k) => k[1] # gen
    BY <1>2 DEF Inv, Typed, Tables, Tame, Live
  <1>4. Tame(cut, recs')
    BY <1>1, <1>3, PrunedIsTame DEF Tame
  <1>5. gen' = gen + 1 /\ gen \in Nat /\ gen' \in 1..MaxGeneration
    BY RegistryAssumption DEF RetireGeneration, Inv, Typed
  <1>6. \A k \in Keys : recs'[k] # None => recs[k] # None
    BY <1>3, <1>4 DEF Tame
  <1>7. Typed'
    BY <1>4, <1>5 DEF RetireGeneration, Inv, Typed, Tame
  <1>8. NoneAhead' /\ \A k \in Keys : recs'[k] # None => k[1] # gen'
    BY <1>5, <1>6 DEF Inv, NoneAhead, Keys
  <1>9. OneLivePerOperation'
    BY <1>8 DEF OneLivePerOperation, Live
  <1> QED BY <1>7, <1>8, <1>9 DEF Inv

\* reconcile prunes, settles and prunes again: tame throughout.
LEMMA ReconcileIsTame ==
    ASSUME Typed, Reconcile
    PROVE  Tame(recs, recs')
  <1>1. PICK alive \in SUBSET {k \in Keys : Live(recs, k) /\ recs[k].process}, rs \in Pruned(recs) :
           \E left \in Pruned([k \in Keys |-> IF Live(rs, k) THEN Reconciled(rs[k], k \in alive)
                                              ELSE rs[k]]) : recs' = left
    BY DEF Reconcile, Put
  <1> DEFINE settled == [k \in Keys |-> IF Live(rs, k) THEN Reconciled(rs[k], k \in alive)
                                        ELSE rs[k]]
  <1>2. Tame(recs, rs)
    BY PrunedIsTame DEF Typed
  <1>4. \A k \in Keys : Live(rs, k) =>
           /\ Reconciled(rs[k], k \in alive) \in Records
           /\ Reconciled(rs[k], k \in alive).call = rs[k].call
    <2> SUFFICES ASSUME NEW k \in Keys, Live(rs, k)
                 PROVE  /\ Reconciled(rs[k], k \in alive) \in Records
                        /\ Reconciled(rs[k], k \in alive).call = rs[k].call
      OBVIOUS
    <2>1. rs[k] \in Records
      BY <1>2, RecordAt DEF Tame, Live
    <2>2. \A s \in {"TIMED_OUT", "DISCONNECTED"} :
             CutOff(rs[k], s) \in Records /\ CutOff(rs[k], s).call = rs[k].call
      BY <2>1, CutOffIsTerminal DEF TerminalStates, Outcomes
    <2> QED BY <2>1, <2>2 DEF Reconciled
  <1>5. Tame(rs, settled)
    BY <1>2, <1>4 DEF Tame, Tables, Live
  <1>6. Tame(settled, recs')
    BY <1>1, <1>5, PrunedIsTame DEF Tame
  <1> QED BY <1>2, <1>5, <1>6, TameTwice

\* The passing of time is tame: records grow older and stay what they are.
LEMMA TickIsTame ==
    ASSUME Typed, Tick
    PROVE  Tame(recs, recs')
  <1> DEFINE older(k) == [recs[k] EXCEPT !.age = @ + 1]
  <1>1. recs' = [k \in Keys |-> IF recs[k] # None /\ recs[k].age < MaxAge
                                THEN older(k) ELSE recs[k]]
    BY DEF Tick, Put
  <1>2. \A k \in Keys : recs[k] # None /\ recs[k].age < MaxAge =>
           /\ older(k) \in Records /\ older(k).call = recs[k].call
           /\ older(k).state = recs[k].state
    <2> SUFFICES ASSUME NEW k \in Keys, recs[k] # None, recs[k].age < MaxAge
                 PROVE  /\ older(k) \in Records /\ older(k).call = recs[k].call
                        /\ older(k).state = recs[k].state
      OBVIOUS
    <2>1. recs[k] \in Records
      BY RecordAt DEF Typed
    <2>2. recs[k].age + 1 \in 0..MaxAge
      BY <2>1, RegistryAssumption DEF Records
    <2> QED BY <2>1, <2>2 DEF Records
  <1>3. recs' \in Tables
    BY <1>1, <1>2 DEF Typed, Tables
  <1> QED BY <1>1, <1>2, <1>3 DEF Tame, Live, Terminal

-----------------------------------------------------------------------------
\* Every step of a caller, of the transport and of reconcile keeps the invariant.
LEMMA InvInductive == Inv /\ [Next]_vars => Inv'
  <1> SUFFICES ASSUME Inv, [Next]_vars PROVE Inv'
    OBVIOUS
  <1>0. Typed
    BY DEF Inv
  <1>1. ASSUME NEW c \in Calls, CallStep(c) PROVE Inv'
    <2>1. CASE Accept(c)
      BY <2>1, AcceptKeeps
    <2>2. CASE AcceptRefused(c)
      <3>1. gen' = gen /\ stage' \in [Calls -> Stages] /\ born' \in [Calls -> 1..MaxGeneration]
        BY <1>0, <2>2 DEF AcceptRefused, Typed, Stages
      <3> QED BY <1>0, <2>2, <3>1, AcceptRefusedIsTame, TameStep
    <2>3. CASE \/ Start(c) \/ Retry(c) \/ Lost(c) \/ MarkSideEffectStarted(c)
               \/ AttachProcess(c) \/ MarkCompleting(c)
               \/ \E state \in Outcomes : Finish(c, state)
               \/ Disconnect(c) \/ CompleteKey(c)
      <3>1. /\ Tame(recs, recs') /\ gen' = gen
            /\ stage' \in [Calls -> Stages] /\ born' = born
        BY <1>0, <2>3, CallerIsTame
      <3>2. born' \in [Calls -> 1..MaxGeneration]
        BY <1>0, <3>1 DEF Typed
      <3> QED BY <3>1, <3>2, TameStep
    <2> QED BY <1>1, <2>1, <2>2, <2>3 DEF CallStep
  <1>2. CASE RetireGeneration
    BY <1>2, RetireKeeps
  <1>3. CASE Reconcile
    <2>1. UNCHANGED <<gen, stage, born>>
      BY <1>3 DEF Reconcile
    <2> QED BY <1>0, <1>3, <2>1, ReconcileIsTame, TameStep DEF Typed
  <1>4. CASE Tick
    <2>1. UNCHANGED <<gen, stage, born>>
      BY <1>4 DEF Tick
    <2> QED BY <1>0, <1>4, <2>1, TickIsTame, TameStep DEF Typed
  <1>5. CASE UNCHANGED vars
    BY <1>5 DEF vars, Inv, Typed, NoneAhead, OneLivePerOperation, Live
  <1> QED BY <1>1, <1>2, <1>3, <1>4, <1>5 DEF Next

\* The empty registry satisfies the invariant.
LEMMA InvInitially == Init => Inv
  <1> SUFFICES ASSUME Init PROVE Inv
    OBVIOUS
  <1>1. Typed
    BY RegistryAssumption DEF Init, Typed, Tables, Stages
  <1>2. NoneAhead /\ OneLivePerOperation
    BY DEF Init, NoneAhead, OneLivePerOperation, Live
  <1> QED BY <1>1, <1>2 DEF Inv

\* For every set of calls, ids, generations and capacity: two live requests of
\* the current generation never have the same operation key.
THEOREM OperationsAreExclusive == Spec => []OneLivePerOperation
  <1>1. Inv => OneLivePerOperation
    BY DEF Inv
  <1> QED BY <1>1, InvInitially, InvInductive, PTL DEF Spec

\* For every capacity: no step of a call takes the record of a live request
\* away, but that of a read whose heartbeat has run out.
THEOREM LiveRequestsKeepTheirRecords == Spec => LiveRecordsAreKept
  <1> DEFINE Keeps == \A k \in Keys :
                 stage' # stage /\ Live(recs, k) /\ ~Reapable(recs[k])
                    => recs'[k] # None /\ recs'[k].call = recs[k].call
  <1>1. Inv /\ [Next]_vars => [Keeps]_vars
    <2> SUFFICES ASSUME Inv, Next PROVE Keeps
      OBVIOUS
    <2>0. Typed
      BY DEF Inv
    <2>1. ASSUME NEW c \in Calls, CallStep(c) PROVE Keeps
      <3>1. CASE Accept(c)
        BY <2>0, <3>1, AcceptAdds
      <3>2. CASE AcceptRefused(c)
        BY <2>0, <3>2, AcceptRefusedIsTame
      <3>3. CASE ~Accept(c) /\ ~AcceptRefused(c)
        BY <2>0, <2>1, <3>3, CallerIsTame DEF CallStep, Live
      <3> QED BY <3>1, <3>2, <3>3
    <2>2. CASE RetireGeneration \/ Reconcile \/ Tick
      BY <2>2 DEF RetireGeneration, Reconcile, Tick
    <2> QED BY <2>1, <2>2 DEF Next
  <1>2. Spec => [][Keeps]_vars
    BY <1>1, InvInitially, InvInductive, PTL DEF Spec
  <1> QED BY <1>2 DEF LiveRecordsAreKept

-----------------------------------------------------------------------------
(* What a record says of its call's effect.                                   *)

\* What a record and the stage of its caller say of each other, as long as no
\* other caller has taken the record for its own: the effect is marked before the
\* tool runs, no process is attached without one, and a call that has not begun
\* its effect is not over while its generation lasts.
TrueRecord(k, entry) ==
    /\ entry.process => entry.effect
    /\ entry.effect => stage[entry.call] \in {"effect", "bound", "completed", "ended"}
    /\ stage[entry.call] \in {"effect", "bound"} => entry.effect
    /\ k[1] = gen /\ Terminal(entry) /\ entry.call \in EffectCalls =>
          /\ stage[entry.call] \notin {"accepted", "running"}
          /\ stage[entry.call] \in {"effect", "bound"} => entry.state = "OUTCOME_UNKNOWN"

\* A record is under the key its call was accepted with.
HonestRecord(k, entry) ==
    /\ k = KeyOf(entry.call)
    /\ stage[entry.call] \notin {"new", "refused"}
    /\ entry.call \notin strayed => TrueRecord(k, entry)

Honest ==
    /\ strayed \in SUBSET Calls
    /\ \A k \in Keys : recs[k] # None => HonestRecord(k, recs[k])
    /\ \A c \in Calls \ EffectCalls : stage[c] \notin {"effect", "bound"}

\* The order of insertion puts no key before itself.
Ordered == order \in SUBSET (Keys \X Keys) /\ \A k \in Keys : ~Before(k, k)

SoundInv == Typed /\ NoneAhead /\ Honest /\ Ordered

\* What time, pruning, reaping and reconciliation make of a record: the effect
\* of a call and its process stay what they are, and it is over only as a read
\* without effect or with an unknown outcome.
Wane(old, new) ==
    /\ new.call = old.call /\ new.effect = old.effect /\ new.process = old.process
    /\ \/ new.state = old.state
       \/ old.effect /\ new.state = "OUTCOME_UNKNOWN"
       \/ ~old.effect /\ (old.process \/ old.call \notin WriteCalls)

Waned(old, new) ==
    \A k \in Keys : new[k] # None => old[k] # None /\ Wane(old[k], new[k])

LEMMA WanedTwice ==
    ASSUME NEW a, NEW b, NEW c, Waned(a, b), Waned(b, c)
    PROVE  Waned(a, c)
  BY DEF Waned, Wane

\* Pruning leaves what it does not take away as it is.
LEMMA PrunedWanes ==
    ASSUME NEW rs \in Tables, NEW new \in Pruned(rs)
    PROVE  new \in Tables /\ Waned(rs, new)
  <1>1. PICK S \in Evictions(Aged(rs)) : new = Without(Aged(rs), S)
    BY DEF Pruned, Evicted
  <1>2. \A k \in Keys : new[k] # None => new[k] = rs[k]
    BY <1>1 DEF Without, Aged
  <1>3. new \in Tables
    BY PrunedIsTame DEF Tame
  <1> QED BY <1>2, <1>3 DEF Waned, Wane

LEMMA EvictedWanes ==
    ASSUME NEW rs \in Tables, NEW new \in Evicted(rs)
    PROVE  \A k \in Keys : new[k] # None => new[k] = rs[k]
  BY DEF Evicted, Without

\* Settling and cutting off leave a record its effect and its process.
LEMMA SettledFields ==
    ASSUME NEW entry \in Records, NEW s
    PROVE  /\ Settled(entry, s).call = entry.call /\ Settled(entry, s).effect = entry.effect
           /\ Settled(entry, s).process = entry.process
           /\ Settled(entry, s).state \in {entry.state, s}
  <1>1. CASE Terminal(entry)
    BY <1>1 DEF Settled
  <1>2. CASE ~Terminal(entry)
    BY <1>2 DEF Settled, Records
  <1> QED BY <1>1, <1>2

\* Reaping stale reads.
LEMMA ReapedWanes ==
    ASSUME NEW rs \in Tables, NEW ks,
           \A k \in ks : k \in Keys /\ rs[k] # None /\ Reapable(rs[k])
    PROVE  Waned(rs, Reaped(rs, ks))
  <1>1. \A k \in Keys : Reaped(rs, ks)[k] = IF k \in ks THEN Settled(rs[k], "DISCONNECTED") ELSE rs[k]
    BY DEF Reaped
  <1>2. ASSUME NEW k \in Keys, Reaped(rs, ks)[k] # None
        PROVE  rs[k] # None /\ Wane(rs[k], Reaped(rs, ks)[k])
    <2>1. CASE k \in ks
      <3>1. rs[k] \in Records /\ ~rs[k].effect /\ rs[k].call \notin WriteCalls
        BY <2>1, RecordAt DEF Reapable
      <3> QED BY <1>1, <2>1, <3>1, SettledFields DEF Wane
    <2>2. CASE k \notin ks
      BY <1>1, <1>2, <2>2 DEF Wane
    <2> QED BY <2>1, <2>2
  <1> QED BY <1>2 DEF Waned

\* What a record says of its caller outlasts its waning, and a change of generation.
LEMMA WanedRecord ==
    ASSUME NEW k, NEW old, NEW new, HonestRecord(k, old), Wane(old, new),
           stage'[old.call] = stage[old.call], born'[old.call] = born[old.call],
           gen' = gen \/ k[1] # gen', strayed' = strayed
    PROVE  HonestRecord(k, new)'
  <1>1. new.call = old.call /\ KeyOf(new.call)' = KeyOf(old.call)
    BY DEF Wane, KeyOf
  <1>2. Terminal(new) /\ ~Terminal(old) =>
            \/ old.effect /\ new.state = "OUTCOME_UNKNOWN"
            \/ old.call \notin EffectCalls
            \/ old.process /\ ~old.effect
    BY RegistryAssumption DEF Wane, Terminal
  <1>3. Terminal(new) /\ Terminal(old) =>
            \/ new.state \in {old.state, "OUTCOME_UNKNOWN"} \/ old.call \notin EffectCalls
            \/ old.process /\ ~old.effect
    BY RegistryAssumption DEF Wane
  <1>4. old.call \notin strayed => TrueRecord(k, new)'
    BY <1>1, <1>2, <1>3 DEF HonestRecord, TrueRecord, Wane, Terminal
  <1> QED BY <1>1, <1>4 DEF HonestRecord, Wane

\* A record is the one the next state has under its key.
LEMMA Reread ==
    ASSUME NEW k, NEW new, new = recs'[k], HonestRecord(k, new)'
    PROVE  HonestRecord(k, recs[k])'
  <1>1. TrueRecord(k, new)' => TrueRecord(k, recs[k])'
    BY DEF TrueRecord, Terminal
  <1>2. KeyOf(recs[k].call)' = KeyOf(new.call)'
    BY DEF KeyOf
  <1>3. (k = KeyOf(recs[k].call))'
    BY <1>2 DEF HonestRecord
  <1>4. (stage[recs[k].call] \notin {"new", "refused"})'
    BY DEF HonestRecord
  <1>5. (recs[k].call \notin strayed => TrueRecord(k, recs[k]))'
    BY <1>1 DEF HonestRecord
  <1> QED BY <1>3, <1>4, <1>5 DEF HonestRecord

\* Time, pruning, reaping and reconciliation keep what records say.
LEMMA WanedKeeps ==
    ASSUME SoundInv, Tame(recs, recs'), Waned(recs, recs'), gen' = gen, born' = born,
           strayed' = strayed,
           stage' \in [Calls -> Stages],
           \A k \in Keys : recs[k] # None => stage'[recs[k].call] = stage[recs[k].call],
           \A c \in Calls : stage'[c] = stage[c] \/ stage'[c] \notin {"effect", "bound"},
           Ordered'
    PROVE  SoundInv'
  <1>1. Typed' /\ NoneAhead'
    BY DEF SoundInv, Typed, NoneAhead, Tame
  <1>2. ASSUME NEW k \in Keys, recs'[k] # None PROVE HonestRecord(k, recs[k])'
    <2>1. PICK old : old = recs[k]
      OBVIOUS
    <2>2. PICK new : new = recs'[k]
      OBVIOUS
    <2>3. HonestRecord(k, old) /\ Wane(old, new) /\ stage'[old.call] = stage[old.call]
      BY <1>2, <2>1, <2>2 DEF SoundInv, Honest, Waned
    <2>4. HonestRecord(k, new)'
      BY <2>3, WanedRecord
    <2> QED BY <2>2, <2>4, Reread
  <1>3. Honest'
    BY <1>2 DEF SoundInv, Honest
  <1> QED BY <1>1, <1>3 DEF SoundInv

\* Records that are put in the order they had.
LEMMA PutOrdered == ASSUME Ordered, NEW rs, Put(rs, order) PROVE Ordered'
  BY DEF Ordered, Put, Before

LEMMA RefusedKeeps ==
    ASSUME SoundInv, NEW c \in Calls, AcceptRefused(c)
    PROVE  SoundInv'
  <1> DEFINE key == <<gen, IdOf[c]>>
  <1>0. Typed /\ key \in Keys
    BY RegistryAssumption DEF SoundInv, Typed, Keys
  <1>1. PICK rs \in Pruned(recs) :
           \/ Put(rs, order)
           \/ /\ Blockers(KeyReaped(rs, key), c) # {}
              /\ Put(Reaped(KeyReaped(rs, key),
                            {k \in SameOperation(KeyReaped(rs, key), c) :
                                \A j \in Blockers(KeyReaped(rs, key), c) : Before(k, j)}), order)
    BY DEF AcceptRefused
  <1> DEFINE freed == KeyReaped(rs, key)
             passed == {k \in SameOperation(freed, c) :
                          \A j \in Blockers(freed, c) : Before(k, j)}
  <1>2. rs \in Tables /\ Waned(recs, rs)
    BY <1>0, PrunedWanes DEF Typed
  <1>3. freed \in Tables /\ Waned(rs, freed)
    <2>1. \A k \in {j \in {key} : rs[j] # None /\ Reapable(rs[j])} :
              k \in Keys /\ rs[k] # None /\ Reapable(rs[k])
      BY <1>0
    <2> QED BY <1>2, <2>1, ReapedIsTame, ReapedWanes DEF KeyReaped, Tame
  <1>4. ASSUME NEW k \in passed PROVE k \in Keys /\ freed[k] # None /\ Reapable(freed[k])
    <2>1. k \in Keys /\ freed[k] # None /\ k \in SameOperation(freed, c)
      BY DEF SameOperation, Live
    <2>2. k \notin Blockers(freed, c)
      BY <2>1 DEF SoundInv, Ordered
    <2> QED BY <2>1, <2>2 DEF Blockers
  <1>5. Waned(freed, Reaped(freed, passed))
    BY <1>3, <1>4, ReapedWanes
  <1>6. Waned(recs, recs') /\ Ordered'
    <2>1. CASE Put(rs, order)
      BY <1>2, <2>1, PutOrdered DEF SoundInv, Put
    <2>2. CASE Put(Reaped(freed, passed), order)
      BY <1>2, <1>3, <1>5, <2>2, PutOrdered, WanedTwice DEF SoundInv, Put
    <2> QED BY <1>1, <2>1, <2>2
  <1>7. /\ stage[c] = "new" /\ stage' = [stage EXCEPT ![c] = "refused"]
        /\ gen' = gen /\ born' = born /\ strayed' = strayed
    BY DEF AcceptRefused
  <1>8. \A k \in Keys : recs[k] # None => recs[k].call # c
    BY <1>7 DEF SoundInv, Honest, HonestRecord
  <1>9. /\ stage' \in [Calls -> Stages]
        /\ \A k \in Keys : recs[k] # None => stage'[recs[k].call] = stage[recs[k].call]
        /\ \A d \in Calls : stage'[d] = stage[d] \/ stage'[d] \notin {"effect", "bound"}
    <2>1. \A k \in Keys : recs[k] # None => recs[k].call \in Calls
      BY <1>0, RecordAt DEF Typed, Records
    <2> QED BY <1>0, <1>7, <1>8, <2>1 DEF Typed, Stages
  <1> QED BY <1>0, <1>6, <1>7, <1>9, AcceptRefusedIsTame, WanedKeeps

\* accept adds the record of its call, which had none; a record that had its key
\* is gone.
LEMMA AcceptKeepsSound ==
    ASSUME SoundInv, NEW c \in Calls, Accept(c)
    PROVE  SoundInv'
  <1> DEFINE key == <<gen, IdOf[c]>>
  <1>0. /\ Typed /\ key \in Keys /\ gen' = gen /\ stage[c] = "new"
        /\ stage' = [stage EXCEPT ![c] = "accepted"] /\ born' = [born EXCEPT ![c] = gen]
        /\ strayed' = strayed
    BY RegistryAssumption DEF SoundInv, Typed, Accept, Keys
  <1>2. PICK rs \in Pruned(recs) :
           /\ Blockers(KeyReaped(rs, key), c) = {}
           /\ \E left \in Evicted([Reaped(KeyReaped(rs, key), SameOperation(KeyReaped(rs, key), c))
                                      EXCEPT ![key] = NewRecord(c)]) :
                 Put(left, order) \/ Put(left, Last(key))
    BY DEF Accept
  <1> DEFINE freed == KeyReaped(rs, key)
             reaped == Reaped(freed, SameOperation(freed, c))
             added == [reaped EXCEPT ![key] = NewRecord(c)]
  <1>3. PICK left \in Evicted(added) : Put(left, order) \/ Put(left, Last(key))
    BY <1>2
  <1>4. rs \in Tables /\ Waned(recs, rs)
    BY <1>0, PrunedWanes DEF Typed
  <1>5. freed \in Tables /\ Waned(rs, freed)
    <2>1. \A k \in {j \in {key} : rs[j] # None /\ Reapable(rs[j])} :
              k \in Keys /\ rs[k] # None /\ Reapable(rs[k])
      BY <1>0
    <2> QED BY <1>4, <2>1, ReapedIsTame, ReapedWanes DEF KeyReaped, Tame
  <1>6. reaped \in Tables /\ Waned(freed, reaped)
    <2>1. \A k \in SameOperation(freed, c) : k \in Keys /\ freed[k] # None /\ Reapable(freed[k])
      BY <1>2 DEF SameOperation, Blockers, Live
    <2> QED BY <1>5, <2>1, ReapedIsTame, ReapedWanes DEF Tame
  <1>7. Waned(recs, reaped)
    BY <1>4, <1>5, <1>6, WanedTwice
  <1> HIDE DEF freed, reaped
  <1>8. added \in Tables /\ \A k \in Keys : k # key => added[k] = reaped[k]
    <2>1. NewRecord(c) \in Records
      BY RegistryAssumption DEF NewRecord, Records, LiveStates
    <2> QED BY <1>6, <2>1 DEF Tables
  <1>9. \A k \in Keys : recs'[k] # None => recs'[k] = added[k]
    BY <1>3, <1>8, EvictedWanes DEF Put
  <1>10. recs' \in Tables /\ recs'[key] = NewRecord(c)
    BY <1>0, AcceptAdds
  <1>11. ASSUME NEW k \in Keys, k # key, recs'[k] # None
         PROVE  recs[k] # None /\ Wane(recs[k], recs'[k])
    <2>1. recs'[k] = reaped[k]
      BY <1>8, <1>9, <1>11
    <2> QED BY <1>7, <1>11, <2>1 DEF Waned
  <1>12. Typed' /\ NoneAhead'
    <2>1. \A k \in Keys : recs'[k] # None => recs[k] # None \/ k = key
      BY <1>11
    <2>2. gen <= gen
      BY <1>0 DEF Typed
    <2> QED BY <1>0, <1>10, <2>1, <2>2 DEF SoundInv, Typed, NoneAhead, Stages
  <1>13. Ordered'
    <2>1. CASE Put(left, order)
      BY <2>1, PutOrdered DEF SoundInv
    <2>2. CASE Put(left, Last(key))
      BY <1>0, <2>2 DEF SoundInv, Ordered, Put, Last, Before
    <2> QED BY <1>3, <2>1, <2>2
  <1>14. ASSUME NEW k \in Keys, recs'[k] # None PROVE HonestRecord(k, recs[k])'
    <2>1. PICK new : new = recs'[k]
      OBVIOUS
    <2>2. CASE k = key
      <3>1. new = NewRecord(c)
        BY <1>10, <2>1, <2>2
      <3>2. /\ new.call = c /\ new.process = FALSE /\ new.effect = FALSE /\ ~Terminal(new)
        BY <3>1 DEF NewRecord, Terminal, TerminalStates, Outcomes
      <3>3. stage'[c] = "accepted" /\ k = KeyOf(c)'
        BY <1>0, <2>2 DEF Typed, KeyOf
      <3>4. HonestRecord(k, new)'
        BY <3>2, <3>3 DEF HonestRecord, TrueRecord, Terminal, KeyOf
      <3> QED BY <2>1, <3>4, Reread
    <2>3. CASE k # key
      <3>1. PICK old : old = recs[k]
        OBVIOUS
      <3>2. recs[k] # None /\ Wane(old, new)
        BY <1>11, <1>14, <2>1, <2>3, <3>1
      <3>3. HonestRecord(k, old) /\ old.call \in Calls
        BY <1>0, <3>1, <3>2, RecordAt DEF SoundInv, Honest, Typed, Records
      <3>4. old.call # c
        BY <1>0, <3>3 DEF HonestRecord
      <3>5. stage'[old.call] = stage[old.call] /\ born'[old.call] = born[old.call]
        BY <1>0, <3>3, <3>4 DEF Typed
      <3>6. HonestRecord(k, new)'
        BY <1>0, <3>2, <3>3, <3>5, WanedRecord
      <3> QED BY <2>1, <3>6, Reread
    <2> QED BY <2>2, <2>3
  <1>15. Honest'
    BY <1>0, <1>14 DEF SoundInv, Honest, Typed
  <1> QED BY <1>12, <1>13, <1>15 DEF SoundInv

\* The end of a generation cuts its requests off; what they say of their effect
\* no longer concerns the current one.
LEMMA RetireKeepsSound ==
    ASSUME SoundInv, RetireGeneration
    PROVE  SoundInv'
  <1> DEFINE cut == [k \in Keys |-> IF Live(recs, k) /\ k[1] = gen
                                    THEN CutOff(recs[k], "DISCONNECTED") ELSE recs[k]]
             Same(old, new) == /\ new.call = old.call /\ new.effect = old.effect
                               /\ new.process = old.process
  <1>0. Typed /\ NoneAhead
    BY DEF SoundInv
  <1>1. PICK rs \in Pruned(cut) : Put(rs, order)
    BY DEF RetireGeneration
  <1>2. \A k \in Keys : Live(recs, k) =>
           /\ CutOff(recs[k], "DISCONNECTED") \in Records
           /\ Same(recs[k], CutOff(recs[k], "DISCONNECTED"))
    BY <1>0, RecordAt, CutOffIsTerminal, SettledFields DEF Typed, Live, TerminalStates, CutOff
  <1>3. cut \in Tables /\ \A k \in Keys : cut[k] # None => recs[k] # None /\ Same(recs[k], cut[k])
    BY <1>0, <1>2 DEF Typed, Tables, Live
  <1> HIDE DEF cut
  <1>4. recs' \in Tables /\ Waned(cut, recs')
    BY <1>1, <1>3, PrunedWanes DEF Put
  <1>5. \A k \in Keys : recs'[k] # None => recs[k] # None /\ Same(recs[k], recs'[k])
    BY <1>3, <1>4 DEF Waned, Wane
  <1>6. gen' = gen + 1 /\ gen \in Nat /\ gen' \in 1..MaxGeneration
        /\ UNCHANGED <<stage, born, strayed>>
    BY <1>0, RegistryAssumption DEF RetireGeneration, Typed
  <1>7. \A k \in Keys : recs[k] # None => k[1] # gen' /\ k[1] <= gen'
    BY <1>0, <1>6 DEF NoneAhead, Keys
  <1>8. Typed' /\ NoneAhead' /\ Ordered'
    BY <1>0, <1>1, <1>4, <1>5, <1>6, <1>7, PutOrdered DEF Typed, NoneAhead, SoundInv
  <1>9. ASSUME NEW k \in Keys, recs'[k] # None PROVE HonestRecord(k, recs[k])'
    <2>1. HonestRecord(k, recs[k]) /\ Same(recs[k], recs'[k]) /\ k[1] # gen'
      BY <1>5, <1>7, <1>9 DEF SoundInv, Honest
    <2> QED BY <1>6, <2>1 DEF HonestRecord, TrueRecord, KeyOf, Terminal
  <1>10. Honest'
    BY <1>6, <1>9 DEF SoundInv, Honest
  <1> QED BY <1>8, <1>10 DEF SoundInv

LEMMA ReconcileKeepsSound ==
    ASSUME SoundInv, Reconcile
    PROVE  SoundInv'
  <1>0. Typed /\ gen' = gen /\ born' = born /\ stage' = stage /\ strayed' = strayed
    BY DEF SoundInv, Reconcile
  <1>1. PICK alive \in SUBSET {k \in Keys : Live(recs, k) /\ recs[k].process}, rs \in Pruned(recs) :
           \E left \in Pruned([k \in Keys |-> IF Live(rs, k) THEN Reconciled(rs[k], k \in alive)
                                              ELSE rs[k]]) : Put(left, order)
    BY DEF Reconcile
  <1> DEFINE settled == [k \in Keys |-> IF Live(rs, k) THEN Reconciled(rs[k], k \in alive)
                                        ELSE rs[k]]
  <1>2. rs \in Tables /\ Waned(recs, rs)
    BY <1>0, PrunedWanes DEF Typed
  <1>3. ASSUME NEW k \in Keys, Live(rs, k)
        PROVE  /\ Reconciled(rs[k], k \in alive) \in Records
               /\ Wane(rs[k], Reconciled(rs[k], k \in alive))
    <2>1. PICK entry \in Records : entry = rs[k]
      BY <1>2, <1>3, RecordAt DEF Live
    <2>2. \A s \in {"TIMED_OUT", "DISCONNECTED"} :
             /\ CutOff(entry, s) \in Records /\ CutOff(entry, s).call = entry.call
             /\ CutOff(entry, s).effect = entry.effect /\ CutOff(entry, s).process = entry.process
             /\ entry.effect => CutOff(entry, s).state \in {entry.state, "OUTCOME_UNKNOWN"}
      BY CutOffIsTerminal, SettledFields DEF TerminalStates, Outcomes, CutOff
    <2>3. Reconciled(entry, k \in alive) \in {entry, CutOff(entry, "TIMED_OUT"), CutOff(entry, "DISCONNECTED")}
      BY DEF Reconciled
    <2>4. CASE Reconciled(entry, k \in alive) = entry
      BY <2>1, <2>4 DEF Wane
    <2>5. CASE Reconciled(entry, k \in alive) # entry
      <3>1. entry.effect \/ entry.process \/ Reapable(entry)
        BY <2>1, <2>5 DEF Reconciled
      <3>2. Wane(entry, Reconciled(entry, k \in alive))
        BY <2>2, <2>3, <2>5, <3>1 DEF Wane, Reapable
      <3> QED BY <2>1, <2>2, <2>3, <3>2
    <2> QED BY <2>4, <2>5, <2>1
  <1>4. settled \in Tables /\ Waned(rs, settled)
    BY <1>2, <1>3 DEF Tables, Waned, Live, Wane
  <1> HIDE DEF settled
  <1>5. Waned(settled, recs') /\ Ordered'
    BY <1>1, <1>4, PrunedWanes, PutOrdered DEF Put, SoundInv, settled
  <1>6. Waned(recs, recs') /\ Tame(recs, recs')
    BY <1>0, <1>2, <1>4, <1>5, WanedTwice, ReconcileIsTame
  <1> QED BY <1>0, <1>5, <1>6, WanedKeeps DEF Typed

LEMMA TickKeepsSound ==
    ASSUME SoundInv, Tick
    PROVE  SoundInv'
  <1>0. Typed /\ gen' = gen /\ born' = born /\ stage' = stage /\ strayed' = strayed
    BY DEF SoundInv, Tick
  <1>1. recs' = [k \in Keys |-> IF recs[k] # None /\ recs[k].age < MaxAge
                                THEN [recs[k] EXCEPT !.age = @ + 1] ELSE recs[k]]
    BY DEF Tick, Put
  <1>2. ASSUME NEW k \in Keys, recs'[k] # None PROVE recs[k] # None /\ Wane(recs[k], recs'[k])
    <2>1. PICK entry : entry = recs[k]
      OBVIOUS
    <2>2. recs[k] # None
      BY <1>1, <1>2
    <2>3. entry \in Records
      BY <1>0, <2>1, <2>2, RecordAt DEF Typed
    <2>4. recs'[k] \in {entry, [entry EXCEPT !.age = @ + 1]}
      BY <1>1, <2>1
    <2> QED BY <2>1, <2>2, <2>3, <2>4 DEF Wane, Records
  <1>3. Waned(recs, recs') /\ Tame(recs, recs')
    BY <1>0, <1>2, TickIsTame DEF Waned
  <1>4. Ordered'
    BY PutOrdered DEF Tick, SoundInv
  <1> QED BY <1>0, <1>3, <1>4, WanedKeeps DEF Typed

\* What the step of a caller has to see to: that the record it leaves fits the
\* stage it goes to.
Fits(c, entry, to) ==
    /\ to \in Stages \ {"new", "refused"}
    /\ to \in {"effect", "bound"} => c \in EffectCalls
    /\ c \notin strayed =>
          /\ entry.process => entry.effect
          /\ entry.effect => to \in {"effect", "bound", "completed", "ended"}
          /\ to \in {"effect", "bound"} => entry.effect
          /\ born[c] = gen /\ Terminal(entry) /\ c \in EffectCalls =>
                /\ to \notin {"accepted", "running"}
                /\ to \in {"effect", "bound"} => entry.state = "OUTCOME_UNKNOWN"

\* A caller that changes the record under its key, its own or that of another
\* call, which then has strayed, keeps what records say.
LEMMA CallerKeeps ==
    ASSUME SoundInv, NEW c \in Calls, Found(c), NEW to, NEW entry,
           stage' = [stage EXCEPT ![c] = to], gen' = gen, born' = born,
           entry.call = recs[KeyOf(c)].call, Fits(c, entry, to) \/ entry.call # c,
           to \in Stages \ {"new", "refused"}, to \in {"effect", "bound"} => c \in EffectCalls,
           strayed' = strayed \cup ({entry.call} \ {c}), recs' \in Tables,
           recs' = [recs EXCEPT ![KeyOf(c)] = entry], Ordered'
    PROVE  SoundInv'
  <1> DEFINE key == KeyOf(c)
  <1>0. /\ Typed /\ NoneAhead /\ key \in Keys /\ key[1] = born[c] /\ recs[key] # None
        /\ strayed \in SUBSET Calls
    BY RegistryAssumption DEF SoundInv, Honest, Typed, Keys, KeyOf, Found
  <1>1. \A k \in Keys : recs'[k] = IF k = key THEN entry ELSE recs[k]
    BY <1>0 DEF Typed, Tables
  <1>2. Typed' /\ NoneAhead'
    BY <1>0, <1>1 DEF Typed, NoneAhead
  <1>3. ASSUME NEW k \in Keys, recs'[k] # None PROVE HonestRecord(k, recs[k])'
    <2>1. CASE k = key /\ entry.call = c
      <3>1. stage'[c] = to /\ k = KeyOf(c)' /\ k[1] = born[c] /\ strayed' = strayed
        BY <1>0, <2>1 DEF Typed, KeyOf
      <3>2. HonestRecord(k, entry)'
        BY <2>1, <3>1 DEF HonestRecord, TrueRecord, Fits, Terminal, KeyOf
      <3> QED BY <1>1, <2>1, <3>2 DEF HonestRecord, TrueRecord, KeyOf, Terminal
    <2>2. CASE k = key /\ entry.call # c
      <3>1. HonestRecord(k, recs[k]) /\ entry.call \in Calls
        BY <1>0, <2>2, RecordAt DEF SoundInv, Honest, Typed, Records
      <3>2. stage'[entry.call] = stage[entry.call] /\ entry.call \in strayed'
        BY <1>0, <2>2, <3>1 DEF Typed
      <3>3. HonestRecord(k, entry)'
        BY <2>2, <3>1, <3>2 DEF HonestRecord, KeyOf
      <3> QED BY <1>1, <2>2, <3>3 DEF HonestRecord, TrueRecord, KeyOf, Terminal
    <2>3. CASE k # key
      <3>1. PICK old : old = recs[k]
        OBVIOUS
      <3>2. recs[k] # None /\ recs'[k] = old
        BY <1>1, <1>3, <2>3, <3>1
      <3>3. HonestRecord(k, old) /\ old.call \in Calls
        BY <1>0, <3>1, <3>2, RecordAt DEF SoundInv, Honest, Typed, Records
      <3>4. old.call # c
        BY <2>3, <3>3 DEF HonestRecord
      <3>5. stage'[old.call] = stage[old.call]
        BY <1>0, <3>3, <3>4 DEF Typed
      <3>6. HonestRecord(k, old)'
        BY <3>3, <3>5 DEF HonestRecord, TrueRecord, KeyOf, Terminal
      <3> QED BY <3>2, <3>6 DEF HonestRecord, TrueRecord, KeyOf, Terminal
    <2> QED BY <2>1, <2>2, <2>3
  <1>4. \A d \in Calls \ EffectCalls : stage'[d] \notin {"effect", "bound"}
    BY <1>0 DEF SoundInv, Honest, Typed
  <1>5. strayed' \in SUBSET Calls
    <2>1. entry.call \in Calls
      BY <1>0, RecordAt DEF Typed, Records
    <2> QED BY <1>0, <2>1
  <1> QED BY <1>2, <1>3, <1>4, <1>5 DEF SoundInv, Honest

\* The steps of a caller that put the successor of the record under its key.
LEMMA ChangeKeeps ==
    ASSUME SoundInv, NEW c \in Calls, Found(c), NEW from, NEW to, Step(c, from, to),
           NEW entry \in Records, Change(c, entry), entry.call = recs[KeyOf(c)].call,
           Fits(c, entry, to) \/ entry.call # c,
           to \in Stages \ {"new", "refused"}, to \in {"effect", "bound"} => c \in EffectCalls
    PROVE  SoundInv'
  <1>1. recs' = [recs EXCEPT ![KeyOf(c)] = entry] /\ recs' \in Tables
    BY DEF Change, Put, SoundInv, Typed, Tables
  <1>2. Ordered' /\ strayed' = strayed \cup ({entry.call} \ {c})
    BY PutOrdered DEF Change, SoundInv
  <1> QED BY <1>1, <1>2, CallerKeeps DEF Step

\* A caller that has no record any more goes on without one.
LEMMA GoneKeeps ==
    ASSUME SoundInv, NEW c \in Calls, Found(c) => recs[KeyOf(c)].call # c,
           NEW to \in {"completed", "ended"}, stage' = [stage EXCEPT ![c] = to],
           UNCHANGED <<gen, born, recs, order, strayed>>
    PROVE  SoundInv'
  <1>0. Typed
    BY DEF SoundInv
  <1>1. ASSUME NEW k \in Keys, recs[k] # None
        PROVE  stage'[recs[k].call] = stage[recs[k].call]
    <2>1. recs[k].call \in Calls /\ HonestRecord(k, recs[k])
      BY <1>0, <1>1, RecordAt DEF SoundInv, Honest, Typed, Records
    <2>2. recs[k].call # c
      BY <1>1, <2>1 DEF Found, HonestRecord
    <2> QED BY <1>0, <2>1, <2>2 DEF Typed
  <1>2. Tame(recs, recs') /\ Waned(recs, recs')
    BY <1>0 DEF Typed, Tame, Waned, Wane
  <1>3. /\ stage' \in [Calls -> Stages]
        /\ \A d \in Calls : stage'[d] = stage[d] \/ stage'[d] \notin {"effect", "bound"}
    BY <1>0 DEF Typed, Stages
  <1>4. Ordered'
    BY DEF SoundInv, Ordered, Before
  <1> QED BY <1>1, <1>2, <1>3, <1>4, WanedKeeps

CallerStep(c) ==
    \/ Start(c) \/ Retry(c) \/ Lost(c) \/ MarkSideEffectStarted(c)
    \/ AttachProcess(c) \/ MarkCompleting(c)
    \/ \E state \in Outcomes : Finish(c, state)
    \/ Disconnect(c) \/ CompleteKey(c)

\* A caller that finds the record of another call under its key.
LEMMA StrangerKeepsSound ==
    ASSUME SoundInv, NEW c \in Calls, CallerStep(c), Found(c), recs[KeyOf(c)].call # c
    PROVE  SoundInv'
  <1> DEFINE old == recs[KeyOf(c)]
  <1>0. Typed /\ KeyOf(c) \in Keys /\ old \in Records /\ 0 \in 0..MaxAge
    BY RegistryAssumption, RecordAt DEF SoundInv, Typed, Keys, KeyOf, Found
  <1>1. stage[c] \in Stages /\ (stage[c] \in {"effect", "bound"} => c \in EffectCalls)
    BY <1>0 DEF SoundInv, Honest, Typed
  <1>2. ASSUME NEW entry \in Records, entry.call = old.call, Change(c, entry),
               NEW from, NEW to \in Stages \ {"new", "refused"}, Step(c, from, to),
               to \in {"effect", "bound"} => c \in EffectCalls
        PROVE  SoundInv'
    BY <1>2, ChangeKeeps
  <1>3. /\ Fresh(old) \in Records /\ Fresh(old).call = old.call
        /\ \A s \in LiveStates : /\ [Fresh(old) EXCEPT !.state = s] \in Records
                                  /\ [Fresh(old) EXCEPT !.state = s].call = old.call
        /\ [Fresh(old) EXCEPT !.effect = TRUE] \in Records
        /\ [Fresh(old) EXCEPT !.effect = TRUE].call = old.call
        /\ [Fresh(old) EXCEPT !.process = TRUE] \in Records
        /\ [Fresh(old) EXCEPT !.process = TRUE].call = old.call
    <2>1. /\ Fresh(old) \in Records /\ Fresh(old).call = old.call
          /\ [Fresh(old) EXCEPT !.effect = TRUE] \in Records
          /\ [Fresh(old) EXCEPT !.effect = TRUE].call = old.call
      BY <1>0 DEF Records, Fresh
    <2>2. /\ [Fresh(old) EXCEPT !.process = TRUE] \in Records
          /\ [Fresh(old) EXCEPT !.process = TRUE].call = old.call
      BY <1>0 DEF Records, Fresh
    <2>3. ASSUME NEW s \in LiveStates
          PROVE  /\ [Fresh(old) EXCEPT !.state = s] \in Records
                 /\ [Fresh(old) EXCEPT !.state = s].call = old.call
      BY <1>0 DEF Records, Fresh
    <2> QED BY <2>1, <2>2, <2>3
  <1>4. \A s \in TerminalStates : /\ Settled(old, s) \in Records /\ Settled(old, s).call = old.call
                                  /\ CutOff(old, s) \in Records /\ CutOff(old, s).call = old.call
    BY <1>0, SettledIsTerminal, CutOffIsTerminal, SettledFields DEF CutOff, TerminalStates
  <1>5. CASE Start(c)
    BY <1>2, <1>3, <1>5 DEF Start, Stages, LiveStates
  <1>6. CASE Retry(c)
    BY <1>0, <1>2, <1>3, <1>6 DEF Retry, Stages
  <1>7. CASE MarkSideEffectStarted(c)
    BY <1>2, <1>3, <1>7 DEF MarkSideEffectStarted, Stages
  <1>8. CASE AttachProcess(c)
    BY <1>1, <1>2, <1>3, <1>8 DEF AttachProcess, Step, Stages
  <1>9. CASE MarkCompleting(c)
    <2>1. stage[c] \in Stages \ {"new", "refused"}
      BY <1>1, <1>9 DEF MarkCompleting, Step
    <2> QED BY <1>1, <1>2, <1>3, <1>9, <2>1 DEF MarkCompleting, LiveStates
  <1>10. ASSUME NEW state \in Outcomes, Finish(c, state) PROVE SoundInv'
    <2>1. Change(c, Settled(old, state)) /\ state \in TerminalStates
      BY <1>10 DEF Finish, TerminalStates
    <2>2. PICK to \in {"completed", "ended"} : \E from : Step(c, from, to)
      BY <1>10 DEF Finish
    <2> QED BY <1>2, <1>4, <2>1, <2>2 DEF Stages
  <1>11. CASE Disconnect(c)
    BY <1>2, <1>4, <1>11 DEF Disconnect, Stages, TerminalStates
  <1>12. CASE CompleteKey(c)
    <2>1. CASE born[c] = gen
      BY <1>2, <1>4, <1>12, <2>1 DEF CompleteKey, Stages, TerminalStates, Outcomes
    <2>2. CASE born[c] # gen
      BY <1>12, <2>2, GoneKeeps DEF CompleteKey, Step
    <2> QED BY <2>1, <2>2
  <1>13. CASE Lost(c)
    BY <1>13 DEF Lost
  <1> QED BY <1>5, <1>6, <1>7, <1>8, <1>9, <1>10, <1>11, <1>12, <1>13 DEF CallerStep

\* A caller that finds its own record.
LEMMA OwnKeepsSound ==
    ASSUME SoundInv, NEW c \in Calls, CallerStep(c), Found(c), recs[KeyOf(c)].call = c
    PROVE  SoundInv'
  <1> DEFINE old == recs[KeyOf(c)]
  <1>0. /\ Typed /\ KeyOf(c) \in Keys /\ KeyOf(c)[1] = born[c] /\ KeyOf(c)[2] = IdOf[c]
        /\ 0 \in 0..MaxAge
    BY RegistryAssumption DEF SoundInv, Typed, Keys, KeyOf
  <1>1. /\ old \in Records /\ old.call = c
        /\ stage[c] \in {"effect", "bound"} => c \in EffectCalls
        /\ c \notin strayed =>
              /\ old.process => old.effect
              /\ old.effect => stage[c] \in {"effect", "bound", "completed", "ended"}
              /\ stage[c] \in {"effect", "bound"} => old.effect
              /\ born[c] = gen /\ Terminal(old) /\ c \in EffectCalls =>
                    /\ stage[c] \notin {"accepted", "running"}
                    /\ stage[c] \in {"effect", "bound"} => old.state = "OUTCOME_UNKNOWN"
    <2>1. old \in Records /\ HonestRecord(KeyOf(c), old)
      BY <1>0, RecordAt DEF Found, SoundInv, Honest, Typed
    <2> QED BY <1>0, <2>1 DEF SoundInv, Honest, HonestRecord, TrueRecord
  <1> DEFINE Ends == {"completed", "ended"}
  <1>2. ASSUME NEW entry, Found(c), entry.effect = old.effect, entry.process = old.process, NEW to \in Ends
        PROVE  /\ Fits(c, entry, to) /\ to \in Stages \ {"new", "refused"}
               /\ to \notin {"effect", "bound"}
    BY <1>1, <1>2 DEF Fits, Stages
  <1>3. ASSUME NEW s \in TerminalStates, Found(c)
        PROVE  /\ Settled(old, s) \in Records /\ Settled(old, s).call = c
               /\ CutOff(old, s) \in Records /\ CutOff(old, s).call = c
               /\ \A to \in Ends : Fits(c, Settled(old, s), to) /\ Fits(c, CutOff(old, s), to)
    <2>1. /\ Settled(old, s) \in Records /\ Settled(old, s).call = c
          /\ Settled(old, s).effect = old.effect /\ Settled(old, s).process = old.process
      BY <1>1, <1>3, SettledIsTerminal, SettledFields
    <2>2. /\ CutOff(old, s) \in Records /\ CutOff(old, s).call = c
          /\ CutOff(old, s).effect = old.effect /\ CutOff(old, s).process = old.process
      BY <1>1, <1>3, CutOffIsTerminal, SettledFields DEF CutOff
    <2> QED BY <1>2, <1>3, <2>1, <2>2
  <1>4. CASE Start(c)
    <2>1. Found(c) /\ stage[c] = "accepted"
      BY <1>4 DEF Start, Step
    <2>2. CASE old.state = "ACCEPTED"
      <3> DEFINE entry == [Fresh(old) EXCEPT !.state = "RUNNING"]
      <3>1. Change(c, entry) /\ Step(c, {"accepted"}, "running")
        BY <1>4, <2>2 DEF Start
      <3>2. /\ entry \in Records /\ entry.call = c /\ entry.effect = old.effect
            /\ entry.process = old.process /\ entry.state = "RUNNING"
        BY <1>0, <1>1, <2>1 DEF Records, Fresh, LiveStates
      <3>3. Fits(c, entry, "running")
        BY <1>1, <2>1, <3>2 DEF Fits, Stages, Terminal, TerminalStates, Outcomes
      <3>4. "running" \in Stages \ {"new", "refused"} /\ "running" \notin {"effect", "bound"}
        BY DEF Stages
      <3> HIDE DEF entry
      <3> QED BY <1>1, <2>1, <3>1, <3>2, <3>3, <3>4, ChangeKeeps
    <2>3. CASE old.state # "ACCEPTED"
      <3>1. Change(c, Fresh(old)) /\ Step(c, {"accepted"}, "ended")
        BY <1>4, <2>3 DEF Start
      <3>2. /\ Fresh(old) \in Records /\ Fresh(old).call = c /\ Fresh(old).effect = old.effect
            /\ Fresh(old).process = old.process
        BY <1>0, <1>1, <2>1 DEF Records, Fresh
      <3> QED BY <1>1, <1>2, <2>1, <3>1, <3>2, ChangeKeeps
    <2> QED BY <2>2, <2>3
  <1>5. CASE Retry(c)
    <2>1. Found(c) /\ Step(c, {"running"}, "retried") /\ stage[c] = "running" /\ c \notin WriteCalls
      BY <1>5 DEF Retry, Step
    <2>2. PICK entry : entry \in {old, Fresh(old)} /\ Change(c, entry)
      BY <1>5 DEF Retry
    <2>3. /\ entry \in Records /\ entry.call = c /\ entry.effect = old.effect
          /\ entry.process = old.process
      BY <1>0, <1>1, <2>1, <2>2 DEF Records, Fresh
    <2>4. Fits(c, entry, "retried")
      BY <1>1, <2>1, <2>3, RegistryAssumption DEF Fits, Stages
    <2> QED BY <1>1, <2>1, <2>2, <2>3, <2>4, ChangeKeeps DEF Stages
  <1>6. CASE Lost(c)
    BY <1>6 DEF Lost
  <1>7. CASE MarkSideEffectStarted(c)
    <2> DEFINE entry == [Fresh(old) EXCEPT !.effect = TRUE]
    <2>1. /\ Found(c) /\ c \in EffectCalls /\ Step(c, {"running"}, "effect") /\ stage[c] = "running"
          /\ Change(c, entry)
      BY <1>7 DEF MarkSideEffectStarted, Step
    <2>2. /\ entry \in Records /\ entry.call = c /\ entry.effect /\ entry.process = old.process
          /\ entry.state = old.state
      BY <1>0, <1>1, <2>1 DEF Records, Fresh
    <2>3. Fits(c, entry, "effect")
      BY <1>1, <2>1, <2>2 DEF Fits, Stages, Terminal
    <2> QED BY <1>1, <2>1, <2>2, <2>3, ChangeKeeps DEF Fits
  <1>8. CASE AttachProcess(c)
    <2> DEFINE entry == [Fresh(old) EXCEPT !.process = TRUE]
    <2>1. /\ Found(c) /\ Step(c, {"effect"}, "bound") /\ stage[c] = "effect" /\ Change(c, entry)
      BY <1>8 DEF AttachProcess, Step
    <2>2. /\ entry \in Records /\ entry.call = c /\ entry.effect = old.effect /\ entry.state = old.state
      BY <1>0, <1>1, <2>1 DEF Records, Fresh
    <2>3. Fits(c, entry, "bound")
      BY <1>1, <2>1, <2>2 DEF Fits, Stages, Terminal
    <2> QED BY <1>1, <2>1, <2>2, <2>3, ChangeKeeps DEF Fits
  <1>9. CASE MarkCompleting(c)
    <2> DEFINE entry == [Fresh(old) EXCEPT !.state = "COMPLETING"]
    <2>1. /\ Found(c) /\ Step(c, {"running", "retried", "effect"}, stage[c])
          /\ stage[c] \in {"running", "retried", "effect"} /\ Change(c, entry)
      BY <1>9 DEF MarkCompleting, Step
    <2>2. /\ entry \in Records /\ entry.call = c /\ entry.effect = old.effect
          /\ entry.process = old.process /\ entry.state = "COMPLETING"
      BY <1>0, <1>1, <2>1 DEF Records, Fresh, LiveStates
    <2>3. Fits(c, entry, stage[c])
      BY <1>1, <2>1, <2>2 DEF Fits, Stages, Terminal, TerminalStates, Outcomes
    <2> QED BY <1>1, <2>1, <2>2, <2>3, ChangeKeeps DEF Fits
  <1>10. ASSUME NEW state \in Outcomes, Finish(c, state) PROVE SoundInv'
    <2>1. Found(c) /\ Change(c, Settled(old, state))
      BY <1>10 DEF Finish
    <2>2. PICK to \in Ends : \E from : Step(c, from, to)
      BY <1>10 DEF Finish
    <2>3. state \in TerminalStates
      BY DEF TerminalStates
    <2> QED BY <1>1, <1>3, <2>1, <2>2, <2>3, ChangeKeeps DEF Fits
  <1>11. CASE Disconnect(c)
    <2>1. Found(c) /\ Change(c, CutOff(old, "DISCONNECTED")) /\ Step(c, Over(c), "ended")
      BY <1>11 DEF Disconnect
    <2>2. "DISCONNECTED" \in TerminalStates
      BY DEF TerminalStates
    <2> QED BY <1>1, <1>3, <2>1, <2>2, ChangeKeeps DEF Fits
  <1>12. CASE CompleteKey(c)
    <2>1. Found(c) /\ Step(c, Over(c), "completed")
      BY <1>12 DEF CompleteKey
    <2>2. CASE born[c] = gen
      <3>1. Change(c, Settled(old, "COMPLETED"))
        BY <1>12, <2>2 DEF CompleteKey
      <3>2. "COMPLETED" \in TerminalStates
        BY DEF TerminalStates, Outcomes
      <3> QED BY <1>1, <1>3, <2>1, <3>1, <3>2, ChangeKeeps DEF Fits
    <2>3. CASE born[c] # gen
      <3>1. UNCHANGED <<recs, order, strayed>>
        BY <1>12, <2>3 DEF CompleteKey
      <3>2. /\ recs' = [recs EXCEPT ![KeyOf(c)] = old] /\ recs' \in Tables /\ Ordered'
            /\ strayed' = strayed \cup ({old.call} \ {c})
        BY <1>0, <1>1, <3>1 DEF SoundInv, Typed, Tables, Ordered, Before
      <3>3. Fits(c, old, "completed") /\ "completed" \in Stages \ {"new", "refused"}
        BY <1>2, <2>1
      <3> QED BY <2>1, <3>2, <3>3, CallerKeeps DEF Step
    <2> QED BY <2>2, <2>3
  <1> QED BY <1>4, <1>5, <1>6, <1>7, <1>8, <1>9, <1>10, <1>11, <1>12 DEF CallerStep

LEMMA CallerKeepsSound ==
    ASSUME SoundInv, NEW c \in Calls, CallerStep(c)
    PROVE  SoundInv'
  <1>1. CASE Lost(c)
    BY <1>1, GoneKeeps DEF Lost, Step
  <1>2. CASE Found(c)
    BY <1>2, OwnKeepsSound, StrangerKeepsSound
  <1>3. Lost(c) \/ Found(c)
    BY DEF CallerStep, Start, Retry, MarkSideEffectStarted, AttachProcess, MarkCompleting,
           Finish, Disconnect, CompleteKey
  <1> QED BY <1>1, <1>2, <1>3

\* Every step keeps what records say of their calls.
LEMMA SoundInductive == SoundInv /\ [Next]_vars => SoundInv'
  <1> SUFFICES ASSUME SoundInv, [Next]_vars PROVE SoundInv'
    OBVIOUS
  <1>1. ASSUME NEW c \in Calls, CallStep(c) PROVE SoundInv'
    BY <1>1, AcceptKeepsSound, RefusedKeeps, CallerKeepsSound DEF CallStep, CallerStep
  <1>2. CASE RetireGeneration \/ Reconcile \/ Tick
    BY <1>2, RetireKeepsSound, ReconcileKeepsSound, TickKeepsSound
  <1>3. CASE UNCHANGED vars
    BY <1>3 DEF vars, SoundInv, Typed, NoneAhead, Honest, HonestRecord, TrueRecord, KeyOf,
                Terminal, Ordered, Before
  <1> QED BY <1>1, <1>2, <1>3 DEF Next

\* Whichever ids a client uses again: every record is well formed, and while the
\* tool of a call is under way and its effect may have begun, no pruning, reaping,
\* reconciliation or acceptance ends its request as if nothing had happened, until
\* the caller of another call with its key has changed its record.
THEOREM RecordsTheorem == Spec => []RecordsAreSound
  <1>1. Init => SoundInv
    <2> SUFFICES ASSUME Init PROVE SoundInv
      OBVIOUS
    <2>1. Typed /\ NoneAhead
      BY InvInitially DEF Inv
    <2>2. Honest /\ Ordered
      BY DEF Init, Honest, Ordered, Before
    <2> QED BY <2>1, <2>2 DEF SoundInv
  <1>2. SoundInv => RecordsAreSound
    <2> SUFFICES ASSUME SoundInv PROVE RecordsAreSound
      OBVIOUS
    <2>1. TypeOK
      BY DEF SoundInv, Honest, Typed, Ordered, TypeOK, Tables
    <2>2. ASSUME NEW k \in Keys, k[1] = gen, recs[k] # None, recs[k].effect, Terminal(recs[k]),
                 recs[k].call \notin strayed, stage[recs[k].call] \in {"effect", "bound"}
          PROVE  recs[k].state = "OUTCOME_UNKNOWN"
      <3>1. recs[k].call \in Calls /\ HonestRecord(k, recs[k])
        BY <2>2, RecordAt DEF SoundInv, Honest, Typed, Records
      <3> QED BY <2>2, <3>1 DEF SoundInv, Honest, HonestRecord, TrueRecord
    <2> QED BY <2>1, <2>2 DEF RecordsAreSound, EffectIsNotUnderstated
  <1> QED BY <1>1, <1>2, SoundInductive, PTL DEF Spec

-----------------------------------------------------------------------------
(* THE SESSIONS OF THE TRANSPORT                                            *)

(* The inductive invariant.                                                 *)

\* What a thread is about at a step: a session that was created, or for a claim
\* an id that some client has been told or kept from an earlier server.
ThreadOK(h) ==
    /\ h.at \in {"initialize", "remove", "refuse", "lock", "dispatch", "answer", "release"}
           => h.id \in 1..last
    /\ h.at = "claim" => h.id \in told \cup Strangers
    /\ h.at = "remove" => h.then \in {"refuse", "idle"}
    /\ h.at = "closing" =>
           /\ h.todo # {} /\ h.then \in {"idle", "create", "claim", "initialize", "refuse"}
           /\ h.then \in {"initialize", "refuse"} => h.id \in 1..last
           /\ h.then = "claim" => h.id \in told \cup Strangers
    /\ h.at # "closing" => h.todo = {}
    /\ h.todo \subseteq (1..last) \ sessions

\* The thread is creating the session it is about, or taking it away again.
Founding(h) ==
    \/ h.at \in {"initialize", "remove", "refuse"}
    \/ h.at = "closing" /\ h.then \in {"initialize", "refuse"}

\* No client knows a session that is being created, and no other thread uses it.
Private(t) ==
    Founding(thread[t]) =>
        /\ thread[t].id \notin told
        /\ \A u \in Threads \ {t} : HasClaim(u) => thread[u].id # thread[t].id

\* Whoever dispatches a request has the lock of its session.
LocksAreHeld ==
    \A t \in Threads : thread[t].at = "dispatch" => rec[thread[t].id].lock = t

\* The inductive invariant: a claim is counted from the step that takes it to
\* the step that gives it back, and a session that is being created has no
\* other claim, so the second release after a lost refusal finds no claim.
IInv ==
    /\ TableIsSound
    /\ OnlyIdleAreReaped
    /\ \A t \in Threads : ThreadOK(thread[t])
    /\ \A t \in Threads : Private(t)
    /\ LocksAreHeld

-----------------------------------------------------------------------------
(* Types, finiteness and counting.                                          *)

ThreadType == [at : Steps, id : {0} \cup SessionIds \cup Strangers, todo : SUBSET SessionIds,
               then : Steps, clock : Times]
RecordType == [runtime : {"none", "open", "closed"}, born : Times, seen : Times,
               active : Int, lock : Threads \cup {Nobody}]
EntryType == [id : SessionIds \cup Strangers, why : Reasons, age : 0..(MaxRetired - 1)]

\* A history of retired ids that respects its limit.
HistoryOK(r) ==
    /\ r \subseteq EntryType
    /\ \A e, f \in r : e.id = f.id \/ e.age = f.age => e = f

\* The least element of a set of natural numbers.
LEMMA Least ==
    ASSUME NEW S, S \subseteq Nat, S # {}
    PROVE  \E i \in S : \A j \in S : i <= j
<1>1. PICK x \in S : \A y \in S : ~(<<y, x>> \in OpToRel(<, Nat))
  BY NatLessThanWellFounded, WFMin
<1>2. \A y \in S : ~(y < x)
  BY <1>1 DEF OpToRel
<1>3. ASSUME NEW y \in S PROVE x <= y
  <2>1. x \in Nat /\ y \in Nat /\ ~(y < x)
    BY <1>2
  <2> QED BY <2>1
<1> QED BY <1>3

\* There are finitely many threads, and session ids are natural numbers.
LEMMA Finite ==
    /\ IsFiniteSet(Threads)
    /\ \A S : S \subseteq SessionIds => IsFiniteSet(S)
    /\ SessionIds \subseteq Nat /\ 0 \notin SessionIds
    /\ \A id \in Strangers : id \notin SessionIds /\ id \in Int
<1>1. IsFiniteSet(Threads)
  BY NamesAssumption, FS_AddElement DEF Threads
<1>2. IsFiniteSet(SessionIds)
  BY LimitsAssumption, FS_Interval DEF SessionIds
<1>3. \A S : S \subseteq SessionIds => IsFiniteSet(S)
  BY <1>2, FS_Subset
<1> QED BY <1>1, <1>3, LimitsAssumption, NamesAssumption DEF SessionIds

\* A history is finite: its entries have different ages below the limit.
LEMMA HistoryIsFinite ==
    ASSUME NEW r, HistoryOK(r)
    PROVE  IsFiniteSet(r)
<1> DEFINE f == [e \in r |-> e.age]
<1>1. f \in Injection(r, 0..(MaxRetired - 1))
  BY DEF HistoryOK, EntryType, Injection, IsInjective
<1>2. IsFiniteSet(0..(MaxRetired - 1))
  BY LimitsAssumption, FS_Interval
<1> QED BY <1>1, <1>2, FS_Injection

\* Remembering keeps one entry for an id, one for an age, and the limit.
LEMMA RememberOK ==
    ASSUME HistoryOK(retired), NEW ids, ids \subseteq SessionIds \cup Strangers, IsFiniteSet(ids),
           NEW why \in Reasons
    PROVE  HistoryOK(Remember(ids, why))
<1> DEFINE kept == {e \in retired : e.id \notin ids}
           Above(i) == {j \in ids : j > i}
           Newer(e) == {g \in kept : g.age < e.age}
           new == {[id |-> i, why |-> why, age |-> Cardinality(Above(i))] : i \in ids}
           Pushed(e) == [e EXCEPT !.age = Cardinality(ids) + Cardinality(Newer(e))]
           old == {Pushed(e) : e \in kept}
           all == new \cup old
<1>1. /\ IsFiniteSet(kept) /\ kept \subseteq EntryType
      /\ \A e, f \in kept : e.id = f.id \/ e.age = f.age => e = f
  <2>1. IsFiniteSet(retired)
    BY HistoryIsFinite
  <2>2. IsFiniteSet(kept)
    BY <2>1, FS_Subset
  <2> QED BY <2>2 DEF HistoryOK
<1>2. ids \subseteq Int
  BY Finite
<1>3. /\ Cardinality(ids) \in Nat
      /\ \A i \in ids : Cardinality(Above(i)) \in Nat /\ Cardinality(Above(i)) < Cardinality(ids)
  <2>1. Cardinality(ids) \in Nat
    BY FS_CardinalityType
  <2>2. ASSUME NEW i \in ids
        PROVE  Cardinality(Above(i)) \in Nat /\ Cardinality(Above(i)) < Cardinality(ids)
    <3>1. Above(i) \in SUBSET ids /\ i \notin Above(i)
      BY <1>2
    <3>2. Above(i) # ids
      BY <3>1
    <3>3. IsFiniteSet(Above(i)) /\ Cardinality(Above(i)) <= Cardinality(ids)
          /\ Cardinality(Above(i)) # Cardinality(ids)
      BY <3>1, <3>2, FS_Subset
    <3>4. Cardinality(Above(i)) \in Nat
      BY <3>3, FS_CardinalityType
    <3> HIDE DEF Above
    <3> QED BY <3>3, <3>4, <2>1
  <2> QED BY <2>1, <2>2
<1>4. \A i, j \in ids : Cardinality(Above(i)) = Cardinality(Above(j)) => i = j
  <2>1. ASSUME NEW i \in ids, NEW j \in ids, i < j
        PROVE  Cardinality(Above(i)) # Cardinality(Above(j))
    <3>1. Above(j) \in SUBSET Above(i) /\ j \in Above(i) /\ j \notin Above(j)
      <4>1. i \in Int /\ j \in Int /\ \A k \in ids : k \in Int /\ (k > j => k > i)
        BY <1>2, <2>1
      <4>2. \A k \in Above(j) : k \in Above(i)
        BY <4>1
      <4>3. j \in Above(i) /\ j \notin Above(j)
        BY <4>1, <2>1
      <4> HIDE DEF Above
      <4> QED BY <4>2, <4>3
    <3>2. IsFiniteSet(Above(i))
      <4>1. Above(i) \in SUBSET ids
        OBVIOUS
      <4> QED BY <4>1, FS_Subset
    <3>3. Above(j) # Above(i)
      BY <3>1
    <3> QED BY <3>1, <3>2, <3>3, FS_Subset
  <2> HIDE DEF Above
  <2>2. ASSUME NEW i \in ids, NEW j \in ids, Cardinality(Above(i)) = Cardinality(Above(j))
        PROVE  i = j
    BY <2>1, <2>2, <1>2
  <2> QED BY <2>2
<1>5. \A e \in kept : Cardinality(Newer(e)) \in Nat
  <2>1. ASSUME NEW e \in kept PROVE Cardinality(Newer(e)) \in Nat
    <3>1. Newer(e) \in SUBSET kept
      OBVIOUS
    <3>2. IsFiniteSet(Newer(e))
      BY <3>1, <1>1, FS_Subset
    <3> QED BY <3>2, FS_CardinalityType
  <2> QED BY <2>1
<1>6. \A e, f \in kept : Cardinality(Newer(e)) = Cardinality(Newer(f)) => e = f
  <2>1. ASSUME NEW e \in kept, NEW f \in kept, e.age < f.age
        PROVE  Cardinality(Newer(e)) # Cardinality(Newer(f))
    <3>1. Newer(e) \in SUBSET Newer(f) /\ e \in Newer(f) /\ e \notin Newer(e)
      BY <1>1, <2>1 DEF EntryType
    <3>2. IsFiniteSet(Newer(f))
      <4>1. Newer(f) \in SUBSET kept
        OBVIOUS
      <4> QED BY <4>1, <1>1, FS_Subset
    <3>3. Newer(e) # Newer(f)
      BY <3>1
    <3> QED BY <3>1, <3>2, <3>3, FS_Subset
  <2>2. ASSUME NEW e \in kept, NEW f \in kept, Cardinality(Newer(e)) = Cardinality(Newer(f))
        PROVE  e = f
    <3>1. e.age \in Int /\ f.age \in Int
      BY <1>1 DEF EntryType
    <3>2. ~(e.age < f.age) /\ ~(f.age < e.age)
      BY <2>1, <2>2
    <3> HIDE DEF Newer
    <3>3. e.age = f.age
      BY <3>1, <3>2
    <3> QED BY <3>3, <1>1
  <2> QED BY <2>2
<1>7. \A e \in kept : /\ Pushed(e).id = e.id /\ Pushed(e).why = e.why
                      /\ Pushed(e).age = Cardinality(ids) + Cardinality(Newer(e))
                      /\ Pushed(e).age \in Nat /\ Pushed(e) \in [id : SessionIds \cup Strangers, why : Reasons, age : Nat]
  <2> HIDE DEF Newer
  <2> QED BY <1>1, <1>3, <1>5 DEF EntryType
<1>8. \A x \in new : /\ x \in [id : SessionIds \cup Strangers, why : Reasons, age : Nat]
                     /\ x.id \in ids /\ x.age < Cardinality(ids)
  <2> HIDE DEF Above
  <2> QED BY <1>3
<1>9. \A x, y \in new : x.id = y.id \/ x.age = y.age => x = y
  <2> HIDE DEF Above
  <2> QED BY <1>4
<1>10. \A x \in old : /\ x \in [id : SessionIds \cup Strangers, why : Reasons, age : Nat]
                      /\ x.id \notin ids /\ x.age >= Cardinality(ids)
  <2>1. ASSUME NEW e \in kept
        PROVE  Pushed(e).id \notin ids /\ Pushed(e).age >= Cardinality(ids)
    <3>1. Cardinality(Newer(e)) \in Nat
      BY <1>5
    <3>2. Pushed(e).id = e.id /\ Pushed(e).age = Cardinality(ids) + Cardinality(Newer(e))
      BY <1>7
    <3> HIDE DEF Pushed, Newer
    <3> QED BY <3>1, <3>2, <1>3
  <2> HIDE DEF Pushed
  <2> QED BY <2>1, <1>7
<1>11. \A x, y \in old : x.id = y.id \/ x.age = y.age => x = y
  <2>1. ASSUME NEW e \in kept, NEW f \in kept,
               Pushed(e).id = Pushed(f).id \/ Pushed(e).age = Pushed(f).age
        PROVE  e = f
    <3>1. Pushed(e).id = e.id /\ Pushed(f).id = f.id
      BY <1>7
    <3>2. CASE Pushed(e).id = Pushed(f).id
      BY <3>1, <3>2, <1>1
    <3>3. CASE Pushed(e).age = Pushed(f).age
      <4>1. Pushed(e).age = Cardinality(ids) + Cardinality(Newer(e))
        BY <1>7
      <4>2. Pushed(f).age = Cardinality(ids) + Cardinality(Newer(f))
        BY <1>7
      <4>3. Cardinality(Newer(e)) \in Nat /\ Cardinality(Newer(f)) \in Nat
        BY <1>5
      <4> HIDE DEF Pushed, Newer
      <4>4. Cardinality(Newer(e)) = Cardinality(Newer(f))
        BY <4>1, <4>2, <4>3, <3>3, <1>3
      <4> QED BY <4>4, <1>6
    <3> QED BY <2>1, <3>2, <3>3
  <2> HIDE DEF Pushed, kept
  <2> QED BY <2>1
<1>12. Remember(ids, why) = {x \in all : x.age < MaxRetired}
  BY DEF Remember, Recalled
<1> HIDE DEF new, old
<1>13. {x \in all : x.age < MaxRetired} \subseteq EntryType
  <2>1. \A x \in all : x \in [id : SessionIds \cup Strangers, why : Reasons, age : Nat]
    BY <1>8, <1>10
  <2> HIDE DEF all
  <2>2. ASSUME NEW x \in all, x.age < MaxRetired PROVE x \in EntryType
    BY <2>1, <2>2, LimitsAssumption DEF EntryType
  <2> QED BY <2>2
<1>14. \A x, y \in all : x.id = y.id \/ x.age = y.age => x = y
  BY <1>3, <1>8, <1>9, <1>10, <1>11
<1> QED BY <1>12, <1>13, <1>14 DEF HistoryOK

-----------------------------------------------------------------------------
(* A step of one thread. The lemmas say for each part of the invariant what *)
(* the step has to respect; h is what the thread is doing after it.         *)

Moved(t, h) == thread' = [thread EXCEPT ![t] = h]

\* HasClaim, of what a thread is doing.
Claiming(h) ==
    \/ h.at \in {"initialize", "lock", "dispatch", "answer", "release"}
    \/ h.at = "closing" /\ h.then = "initialize"

LEMMA Others ==
    ASSUME HttpTypes, NEW t \in Threads, NEW h \in ThreadType, Moved(t, h)
    PROVE  /\ thread \in [Threads -> ThreadType] /\ thread' \in [Threads -> ThreadType]
           /\ thread'[t] = h /\ \A u \in Threads \ {t} : thread'[u] = thread[u]
<1>1. thread \in [Threads -> ThreadType]
  BY DEF HttpTypes, ThreadType
<1> QED BY <1>1 DEF Moved

\* What the other threads are about stays what it should be about when sessions
\* are only added as new ones and clients are only told more.
LEMMA ThreadsKept ==
    ASSUME HttpTypes, NEW t \in Threads, NEW h \in ThreadType, Moved(t, h),
           \A u \in Threads : ThreadOK(thread[u]), last' \in Nat, last <= last',
           told \subseteq told', sessions' \subseteq sessions \cup ((last + 1)..last'),
           ThreadOK(h)'
    PROVE  \A u \in Threads : ThreadOK(thread[u])'
<1> SUFFICES ASSUME NEW u \in Threads PROVE ThreadOK(thread[u])'
  OBVIOUS
<1>1. CASE u = t
  <2>1. thread'[u] = h
    BY <1>1, Others
  <2> QED BY <2>1 DEF ThreadOK
<1>2. CASE u # t
  <2>1. thread'[u] = thread[u]
    BY <1>2, Others
  <2>2. last \in Nat /\ 1..last \subseteq 1..last'
    BY DEF HttpTypes
  <2>3. (1..last) \ sessions \subseteq (1..last') \ sessions'
    BY <2>2
  <2> QED BY <2>1, <2>2, <2>3 DEF ThreadOK
<1> QED BY <1>1, <1>2

\* The thread that is about a session id with a claim on it.
On(h, id) == Claiming(h) /\ h.id = id

LEMMA ClaimantsAre ==
    \A id : Claimants(id) = {u \in Threads : On(thread[u], id)}
BY DEF Claimants, HasClaim, On, Claiming

LEMMA ClaimantsMove ==
    ASSUME HttpTypes, NEW t \in Threads, NEW h \in ThreadType, Moved(t, h), NEW id
    PROVE  /\ IsFiniteSet(Claimants(id)) /\ Cardinality(Claimants(id)) \in Nat
           /\ (t \in Claimants(id)) <=> On(thread[t], id)
           /\ On(h, id) => Claimants(id)' = Claimants(id) \cup {t}
           /\ ~On(h, id) => Claimants(id)' = Claimants(id) \ {t}
<1>1. Claimants(id) \subseteq Threads
  BY ClaimantsAre
<1>2. IsFiniteSet(Claimants(id)) /\ Cardinality(Claimants(id)) \in Nat
  BY <1>1, Finite, FS_Subset, FS_CardinalityType
<1>3. Claimants(id)' = {u \in Threads : On(thread'[u], id)}
  BY DEF Claimants, HasClaim, On, Claiming
<1>4. Claimants(id) = {u \in Threads : On(thread[u], id)}
  BY ClaimantsAre
<1>5. thread'[t] = h /\ \A u \in Threads \ {t} : thread'[u] = thread[u]
  BY Others
<1> QED BY <1>2, <1>3, <1>4, <1>5

\* The count of a session follows its claimants: it is unchanged when the thread
\* keeps its claim or has none, one more when it takes one, one less when it
\* gives it back.
LEMMA CountsKept ==
    ASSUME HttpTypes, ClaimsAreCounted, NEW t \in Threads, NEW h \in ThreadType, Moved(t, h),
           \A id \in SessionIds :
               rec'[id].active = rec[id].active + (IF On(h, id) THEN 1 ELSE 0)
                                                - (IF On(thread[t], id) THEN 1 ELSE 0)
    PROVE  ClaimsAreCounted'
<1> SUFFICES ASSUME NEW id \in SessionIds
             PROVE  rec'[id].active = Cardinality(Claimants(id)')
  BY DEF ClaimsAreCounted
<1> DEFINE C == Claimants(id)
           D == Claimants(id)'
<1>1. /\ IsFiniteSet(C) /\ Cardinality(C) \in Nat
      /\ (t \in C) <=> On(thread[t], id)
      /\ On(h, id) => D = C \cup {t}
      /\ ~On(h, id) => D = C \ {t}
  BY ClaimantsMove
<1>2. rec[id].active = Cardinality(C)
  BY DEF ClaimsAreCounted
<1>3. rec'[id].active = rec[id].active + (IF On(h, id) THEN 1 ELSE 0)
                                        - (IF On(thread[t], id) THEN 1 ELSE 0)
  OBVIOUS
<1>4. /\ Cardinality(C \cup {t}) = (IF t \in C THEN Cardinality(C) ELSE Cardinality(C) + 1)
      /\ Cardinality(C \ {t}) = (IF t \in C THEN Cardinality(C) - 1 ELSE Cardinality(C))
  BY <1>1, FS_AddElement, FS_RemoveElement
<1> HIDE DEF C, D
<1>5. ASSUME On(h, id) PROVE rec'[id].active = Cardinality(D)
  <2>1. D = C \cup {t} /\ Cardinality(C) \in Nat
    BY <1>1, <1>5
  <2>2. CASE On(thread[t], id)
    BY <1>1, <1>2, <1>3, <1>4, <1>5, <2>1, <2>2
  <2>3. CASE ~On(thread[t], id)
    BY <1>1, <1>2, <1>3, <1>4, <1>5, <2>1, <2>3
  <2> QED BY <2>2, <2>3
<1>6. ASSUME ~On(h, id) PROVE rec'[id].active = Cardinality(D)
  <2>1. D = C \ {t} /\ Cardinality(C) \in Nat
    BY <1>1, <1>6
  <2>2. CASE On(thread[t], id)
    BY <1>1, <1>2, <1>3, <1>4, <1>6, <2>1, <2>2
  <2>3. CASE ~On(thread[t], id)
    BY <1>1, <1>2, <1>3, <1>4, <1>6, <2>1, <2>3
  <2> QED BY <2>2, <2>3
<1>7. rec'[id].active = Cardinality(D)
  BY <1>5, <1>6
<1> QED BY <1>7 DEF D

\* A session that is being reaped stays unclaimed: claims are taken on sessions
\* of the table and on new ones.
LEMMA ReapedKept ==
    ASSUME HttpTypes, OnlyIdleAreReaped, \A u \in Threads : ThreadOK(thread[u]),
           NEW t \in Threads, NEW h \in ThreadType, Moved(t, h),
           Claiming(h) => \/ On(thread[t], h.id)
                          \/ h.id \in sessions \/ h.id > last,
           h.at = "closing" /\ h.then \in {"create", "claim", "initialize"} =>
               \A id \in h.todo : Claimants(id) = {} /\ ~On(h, id)
    PROVE  OnlyIdleAreReaped'
<1> SUFFICES ASSUME NEW u \in Threads, thread'[u].at = "closing",
                    thread'[u].then \in {"create", "claim", "initialize"},
                    NEW id \in thread'[u].todo
             PROVE  Claimants(id)' = {}
  BY DEF OnlyIdleAreReaped
<1>1. CASE u = t
  <2>1. thread'[u] = h
    BY <1>1, Others
  <2>2. Claimants(id) = {} /\ ~On(h, id)
    BY <2>1
  <2> QED BY <2>2, ClaimantsMove
<1>2. CASE u # t
  <2>1. thread'[u] = thread[u]
    BY <1>2, Others
  <2>2. Claimants(id) = {} /\ id \in (1..last) \ sessions
    BY <2>1 DEF OnlyIdleAreReaped, ThreadOK
  <2>3. ~On(thread[t], id)
    BY <2>2, ClaimantsMove
  <2>4. ~On(h, id)
    BY <2>2, <2>3 DEF On, HttpTypes
  <2> QED BY <2>2, <2>4, ClaimantsMove
<1> QED BY <1>1, <1>2

\* A session that is being created stays private: a client is told of it, and
\* claims are taken, by threads that have a claim or on ids clients know.
LEMMA PrivateKept ==
    ASSUME HttpTypes, \A u \in Threads : ThreadOK(thread[u]), \A u \in Threads : Private(u),
           NEW t \in Threads, NEW h \in ThreadType, Moved(t, h),
           \A id \in told' : id \in told \/ On(thread[t], id),
           Claiming(h) => \/ On(thread[t], h.id)
                          \/ h.id \in told \/ h.id > last,
           Founding(h) => \/ Founding(thread[t]) /\ h.id = thread[t].id /\ told' = told
                          \/ h.id > last /\ told' = told
    PROVE  \A u \in Threads : Private(u)'
<1>1. /\ \A u \in Threads : thread[u] \in ThreadType
      /\ thread'[t] = h /\ \A u \in Threads \ {t} : thread'[u] = thread[u]
  BY Others
<1>2. \A u \in Threads : HasClaim(u) <=> Claiming(thread[u])
  BY DEF HasClaim, Claiming
<1>3. \A u \in Threads : HasClaim(u)' <=> Claiming(thread'[u])
  BY DEF HasClaim, Claiming
<1>4. \A u \in Threads : HasClaim(u) \/ Founding(thread[u]) => thread[u].id \in 1..last
  BY DEF HasClaim, Founding, ThreadOK
<1>5. told \subseteq 1..last /\ last \in Nat
  BY DEF HttpTypes
<1> SUFFICES ASSUME NEW u \in Threads, Founding(thread'[u])
             PROVE  /\ thread'[u].id \notin told'
                    /\ \A v \in Threads \ {u} : Claiming(thread'[v]) => thread'[v].id # thread'[u].id
  BY <1>3 DEF Private
<1>6. CASE u = t
  <2>1. \/ Founding(thread[t]) /\ h.id = thread[t].id /\ told' = told
        \/ h.id > last /\ told' = told
    BY <1>1, <1>6
  <2>2. CASE Founding(thread[t]) /\ h.id = thread[t].id /\ told' = told
    BY <1>1, <1>2, <1>6, <2>2 DEF Private
  <2>3. CASE h.id > last /\ told' = told
    <3>1. h.id \notin told' /\ thread'[u].id = h.id
      <4>1. h.id \notin 1..last
        BY <1>5, <2>3
      <4> QED BY <1>1, <1>5, <1>6, <2>3, <4>1
    <3>2. ASSUME NEW v \in Threads \ {u}, Claiming(thread'[v])
          PROVE  thread'[v].id # h.id
      <4>1. thread'[v] = thread[v] /\ HasClaim(v)
        BY <1>1, <1>2, <1>6, <3>2
      <4>2. thread[v].id \in 1..last
        BY <4>1, <1>4
      <4> QED BY <4>1, <4>2, <2>3, <1>5
    <3> QED BY <3>1, <3>2
  <2> QED BY <2>1, <2>2, <2>3
<1>7. CASE u # t
  <2>1. /\ Founding(thread[u]) /\ thread'[u] = thread[u] /\ thread[u].id \in 1..last
        /\ thread[u].id \notin told
        /\ \A v \in Threads \ {u} : Claiming(thread[v]) => thread[v].id # thread[u].id
    BY <1>1, <1>2, <1>4, <1>7 DEF Private
  <2>2. ~On(thread[t], thread[u].id)
    BY <2>1, <1>7 DEF On
  <2>3. thread[u].id \notin told'
    BY <2>1, <2>2
  <2>4. Claiming(h) => h.id # thread[u].id
    BY <2>1, <2>2, <1>5
  <2>5. ASSUME NEW v \in Threads \ {u}, Claiming(thread'[v])
        PROVE  thread'[v].id # thread[u].id
    <3>1. CASE v = t
      BY <1>1, <2>4, <2>5, <3>1
    <3>2. CASE v # t
      BY <1>1, <2>1, <2>5, <3>2
    <3> QED BY <3>1, <3>2
  <2> QED BY <2>1, <2>3, <2>5
<1> QED BY <1>6, <1>7

\* A lock is taken when it is free and given back by the thread that has it.
LEMMA LocksKept ==
    ASSUME HttpTypes, LocksAreHeld, \A u \in Threads : ThreadOK(thread[u]),
           NEW t \in Threads, NEW h \in ThreadType, Moved(t, h),
           \A id \in 1..last : rec'[id].lock = rec[id].lock \/ rec[id].lock \in {Nobody, t},
           h.at = "dispatch" => rec'[h.id].lock = t
    PROVE  LocksAreHeld'
<1> SUFFICES ASSUME NEW u \in Threads, thread'[u].at = "dispatch"
             PROVE  rec'[thread'[u].id].lock = u
  BY DEF LocksAreHeld
<1>1. CASE u = t
  BY <1>1, Others
<1>2. CASE u # t
  <2>1. thread'[u] = thread[u]
    BY <1>2, Others
  <2>2. rec[thread[u].id].lock = u /\ thread[u].id \in 1..last
    BY <2>1 DEF LocksAreHeld, ThreadOK
  <2>3. Nobody \notin Threads
    BY NamesAssumption DEF Threads
  <2> QED BY <1>2, <2>1, <2>2, <2>3
<1> QED BY <1>1, <1>2

\* What a step of thread t to h does to the table, the claims and the locks.
TableStep ==
    /\ now' = now /\ closed' \in BOOLEAN /\ last' \in last..MaxIds
    /\ told \subseteq told' /\ told' \subseteq 1..last'
    /\ sessions' \subseteq sessions \cup ((last + 1)..last')
    /\ rec' \in [SessionIds -> RecordType] /\ HistoryOK(retired')
    /\ created' \in Seq(Times) /\ Len(created') <= MaxCreations

ClaimStep(t, h) ==
    /\ \A id \in SessionIds :
           rec'[id].active = rec[id].active + (IF On(h, id) THEN 1 ELSE 0)
                                            - (IF On(thread[t], id) THEN 1 ELSE 0)
    /\ Claiming(h) => \/ On(thread[t], h.id)
                      \/ h.id \in sessions \cap told
                      \/ h.id > last
    /\ h.at = "closing" /\ h.then \in {"create", "claim", "initialize"} =>
           \A id \in h.todo : Claimants(id) = {} /\ ~On(h, id)

PrivateStep(t, h) ==
    /\ \A id \in told' : id \in told \/ On(thread[t], id)
    /\ Founding(h) => \/ Founding(thread[t]) /\ h.id = thread[t].id /\ told' = told
                      \/ h.id > last /\ told' = told

LockStep(t, h) ==
    /\ \A id \in 1..last : rec'[id].lock = rec[id].lock \/ rec[id].lock \in {Nobody, t}
    /\ h.at = "dispatch" => rec'[h.id].lock = t

\* A step of a thread that respects them preserves the invariant.
LEMMA StepKeeps ==
    ASSUME IInv, NEW t \in Threads, NEW h \in ThreadType, Moved(t, h),
           TableStep, TableIsBounded', ThreadOK(h)',
           ClaimStep(t, h), PrivateStep(t, h), LockStep(t, h)
    PROVE  IInv'
<1>1. /\ HttpTypes /\ ClaimsAreCounted /\ OnlyIdleAreReaped /\ LocksAreHeld
      /\ \A u \in Threads : ThreadOK(thread[u])
      /\ \A u \in Threads : Private(u)
  BY DEF IInv, TableIsSound
<1>2. last \in Nat /\ last' \in Nat /\ last <= last'
  BY <1>1 DEF HttpTypes, TableStep
<1>3. HttpTypes'
  <2>1. now' \in Times /\ closed' \in BOOLEAN /\ last' \in 0..MaxIds
    BY <1>1, LimitsAssumption DEF HttpTypes, TableStep
  <2>2. sessions' \subseteq 1..last' /\ told' \subseteq 1..last'
    BY <1>1 DEF HttpTypes, TableStep
  <2>3. thread' \in [Threads -> ThreadType]
    BY <1>1, Others
  <2> QED BY <2>1, <2>2, <2>3 DEF HttpTypes, TableStep, HistoryOK, RecordType, EntryType, ThreadType
<1>4. ClaimsAreCounted'
  BY <1>1, CountsKept DEF ClaimStep
<1>5. OnlyIdleAreReaped'
  BY <1>1, ReapedKept DEF ClaimStep
<1>6. \A u \in Threads : ThreadOK(thread[u])'
  BY <1>1, <1>2, ThreadsKept DEF TableStep
<1>7. \A u \in Threads : Private(u)'
  BY <1>1, PrivateKept DEF PrivateStep, ClaimStep
<1>8. LocksAreHeld'
  BY <1>1, LocksKept DEF LockStep
<1> QED BY <1>3, <1>4, <1>5, <1>6, <1>7, <1>8 DEF IInv, TableIsSound

-----------------------------------------------------------------------------
(* What the operations return.                                              *)

LEMMA TypesOf ==
    ASSUME HttpTypes
    PROVE  /\ last \in Nat /\ last \in 0..MaxIds /\ 1..last \subseteq SessionIds
           /\ sessions \subseteq SessionIds /\ told \subseteq SessionIds /\ Nobody \notin Threads
           /\ rec \in [SessionIds -> RecordType] /\ HistoryOK(retired)
           /\ \A t \in Threads : thread[t] \in ThreadType
BY NamesAssumption, LimitsAssumption
   DEF HttpTypes, RecordType, HistoryOK, EntryType, ThreadType, SessionIds, Threads

\* Where a thread goes that closes todo and goes on at then.
LEMMA ClosingThenIs ==
    ASSUME NEW id, NEW todo, NEW then
    PROVE  /\ todo # {} =>
                  ClosingThen(id, todo, then) =
                      [at |-> "closing", id |-> id, todo |-> todo, then |-> then, clock |-> 0]
           /\ todo = {} /\ then = "idle" => ClosingThen(id, todo, then) = Idle
           /\ todo = {} /\ then # "idle" =>
                  ClosingThen(id, todo, then) =
                      [at |-> then, id |-> id, todo |-> {}, then |-> "idle",
                       clock |-> IF then = "create" THEN now ELSE 0]
BY DEF ClosingThen

LEMMA ClosingThenTyped ==
    ASSUME HttpTypes, NEW id \in {0} \cup SessionIds \cup Strangers, NEW todo \in SUBSET SessionIds,
           NEW then \in Steps
    PROVE  ClosingThen(id, todo, then) \in ThreadType
<1>1. now \in Times /\ 0 \in Times
  BY LimitsAssumption DEF HttpTypes, Times
<1>2. CASE todo # {}
  BY <1>1, <1>2, ClosingThenIs DEF ThreadType, Steps
<1>3. CASE todo = {} /\ then = "idle"
  BY <1>1, <1>3, ClosingThenIs DEF ThreadType, Steps, Idle
<1>4. CASE todo = {} /\ then # "idle"
  <2>1. (IF then = "create" THEN now ELSE 0) \in Times
    BY <1>1
  <2> QED BY <2>1, <1>4, ClosingThenIs DEF ThreadType, Steps
<1> QED BY <1>2, <1>3, <1>4

LEMMA ReleasedIs ==
    ASSUME HttpTypes, NEW id \in SessionIds
    PROVE  /\ Released(id) \in [SessionIds -> RecordType]
           /\ \A i \in SessionIds :
                  /\ Released(id)[i].lock = rec[i].lock
                  /\ Released(id)[i].active =
                         rec[i].active - (IF i = id /\ rec[id].active > 0 THEN 1 ELSE 0)
<1>1. rec \in [SessionIds -> RecordType] /\ now \in Times
  BY TypesOf DEF HttpTypes
<1>2. \A i \in SessionIds : rec[i].active \in Int
  BY <1>1 DEF RecordType
<1>3. CASE rec[id].active <= 0
  <2>1. Released(id) = rec
    BY <1>3 DEF Released
  <2>2. ~(rec[id].active > 0)
    BY <1>2, <1>3
  <2> QED BY <2>1, <2>2, <1>1, <1>2
<1>4. CASE ~(rec[id].active <= 0)
  <2> DEFINE seen == IF id \in sessions THEN now ELSE rec[id].seen
             r == [rec[id] EXCEPT !.active = rec[id].active - 1, !.seen = seen]
  <2>1. Released(id) = [rec EXCEPT ![id] = r]
    BY <1>4, <1>1 DEF Released
  <2>2. seen \in Times
    BY <1>1 DEF RecordType
  <2>3. r \in RecordType /\ r.lock = rec[id].lock /\ r.active = rec[id].active - 1
    <3>1. rec[id] \in RecordType /\ rec[id].active - 1 \in Int
      BY <1>1, <1>2
    <3> HIDE DEF seen
    <3> QED BY <3>1, <2>2 DEF RecordType
  <2>4. rec[id].active > 0
    BY <1>2, <1>4
  <2> HIDE DEF r
  <2> QED BY <2>1, <2>3, <2>4, <1>1, <1>2
<1> QED BY <1>3, <1>4

\* Only the records and the threads change.
LEMMA TableStill ==
    ASSUME HttpTypes, TableIsBounded, rec' \in [SessionIds -> RecordType], told' = told,
           UNCHANGED <<now, closed, sessions, retired, created, last>>
    PROVE  TableStep /\ TableIsBounded'
<1>1. last \in Nat /\ last \in last..MaxIds
  BY LimitsAssumption DEF HttpTypes
<1>2. HistoryOK(retired)
  BY TypesOf
<1> QED BY <1>1, <1>2 DEF HttpTypes, TableStep, TableIsBounded

\* The parts of the invariant that the steps below use.
LEMMA Parts ==
    ASSUME IInv
    PROVE  /\ HttpTypes /\ ClaimsAreCounted /\ TableIsBounded /\ OnlyIdleAreReaped /\ LocksAreHeld
           /\ \A t \in Threads : /\ ThreadOK(thread[t]) /\ Private(t)
                                 /\ thread[t] \in ThreadType
BY TypesOf DEF IInv, TableIsSound

\* A session without a claim has no claimants; one with a claimant has a claim.
LEMMA CountIs ==
    ASSUME HttpTypes, ClaimsAreCounted, NEW id \in SessionIds
    PROVE  /\ rec[id].active = 0 <=> Claimants(id) = {}
           /\ rec[id].active \in Nat
           /\ \A t \in Threads : On(thread[t], id) => rec[id].active > 0
<1>1. IsFiniteSet(Claimants(id))
  <2>1. Claimants(id) \in SUBSET Threads
    BY ClaimantsAre
  <2> QED BY <2>1, Finite, FS_Subset
<1>2. rec[id].active = Cardinality(Claimants(id)) /\ Cardinality(Claimants(id)) \in Nat
  BY <1>1, FS_CardinalityType DEF ClaimsAreCounted
<1>3. Cardinality(Claimants(id)) = 0 <=> Claimants(id) = {}
  BY <1>1, FS_EmptySet
<1>4. \A t \in Threads : On(thread[t], id) => Claimants(id) # {}
  BY ClaimantsAre
<1>5. \A t \in Threads : On(thread[t], id) => rec[id].active > 0
  BY <1>2, <1>3, <1>4
<1> QED BY <1>2, <1>3, <1>5

-----------------------------------------------------------------------------
(* The steps of a request that has a session.                               *)

LEMMA InitializeKeeps ==
    ASSUME IInv, NEW t \in Threads, Initialize(t)
    PROVE  IInv'
<1> PICK h : h = [thread[t] EXCEPT !.at = "answer"]
  OBVIOUS
<1>1. /\ HttpTypes /\ TableIsBounded /\ ThreadOK(thread[t]) /\ Private(t)
      /\ thread[t] \in ThreadType /\ thread[t].at = "initialize"
      /\ Moved(t, h) /\ rec' = rec /\ told' = told
      /\ UNCHANGED <<now, closed, sessions, retired, created, last>>
  BY Parts DEF Initialize, Goto, Moved
<1>2. h \in ThreadType /\ h.at = "answer" /\ h.id = thread[t].id /\ h.todo = thread[t].todo
  BY <1>1 DEF ThreadType, Steps
<1>3. TableStep /\ TableIsBounded'
  BY <1>1, TypesOf, TableStill
<1>4. ThreadOK(h)'
  BY <1>1, <1>2 DEF ThreadOK
<1>5. ClaimStep(t, h)
  BY <1>1, <1>2, TypesOf DEF ClaimStep, On, Claiming, RecordType
<1>6. PrivateStep(t, h)
  BY <1>1, <1>2 DEF PrivateStep, Founding
<1>7. LockStep(t, h)
  BY <1>1, <1>2 DEF LockStep
<1> QED BY <1>1, <1>2, <1>3, <1>4, <1>5, <1>6, <1>7, StepKeeps

LEMMA InitializeFailsKeeps ==
    ASSUME IInv, NEW t \in Threads, InitializeFails(t)
    PROVE  IInv'
<1>1. PICK then \in {"refuse", "idle"} :
          thread' = [thread EXCEPT ![t].at = "remove", ![t].then = then]
  BY DEF InitializeFails
<1> PICK h : h = [thread[t] EXCEPT !.at = "remove", !.then = then]
  OBVIOUS
<1>2. /\ HttpTypes /\ ClaimsAreCounted /\ TableIsBounded /\ ThreadOK(thread[t]) /\ Private(t)
      /\ thread[t] \in ThreadType /\ thread[t].at = "initialize"
      /\ Moved(t, h) /\ rec' = Released(thread[t].id) /\ told' = told
      /\ UNCHANGED <<now, closed, sessions, retired, created, last>>
  BY <1>1, Parts DEF InitializeFails, Moved, HttpTypes
<1>3. /\ h \in ThreadType /\ h.at = "remove" /\ h.id = thread[t].id
      /\ h.todo = thread[t].todo /\ h.then = then
  BY <1>2 DEF ThreadType, Steps
<1>4. thread[t].id \in SessionIds /\ thread[t].id \in 1..last /\ thread[t].todo = {}
  BY <1>2, TypesOf DEF ThreadOK
<1>5. TableStep /\ TableIsBounded'
  BY <1>2, <1>4, ReleasedIs, TableStill
<1>6. ThreadOK(h)'
  BY <1>2, <1>3, <1>4 DEF ThreadOK
<1>7. ClaimStep(t, h)
  <2>1. rec[thread[t].id].active > 0
    BY <1>2, <1>4, CountIs DEF On, Claiming
  <2>2. ~Claiming(h) /\ h.at # "closing"
    BY <1>3 DEF Claiming
  <2>3. \A id \in SessionIds : On(thread[t], id) <=> id = thread[t].id
    BY <1>2 DEF On, Claiming
  <2> QED BY <1>2, <1>4, <2>1, <2>2, <2>3, ReleasedIs, TypesOf DEF ClaimStep, On, RecordType
<1>8. PrivateStep(t, h)
  BY <1>2, <1>3 DEF PrivateStep, Founding
<1>9. LockStep(t, h)
  BY <1>2, <1>3, <1>4, ReleasedIs, TypesOf DEF LockStep
<1> QED BY <1>2, <1>3, <1>5, <1>6, <1>7, <1>8, <1>9, StepKeeps

\* The thread has nothing left to do, and did not have a claim.
LEMMA DoneKeeps ==
    ASSUME IInv, NEW t \in Threads, ~Claiming(thread[t]), Done(t),
           TableStep, TableIsBounded', rec' = rec, told' = told
    PROVE  IInv'
<1> PICK h : h = Idle
  OBVIOUS
<1>1. HttpTypes /\ thread[t] \in ThreadType /\ Moved(t, h)
  BY Parts DEF Done, Moved
<1>2. /\ h \in ThreadType /\ ~Claiming(h) /\ ~Founding(h) /\ h.at # "closing" /\ h.at # "dispatch"
      /\ h.todo = {} /\ h.at = "idle"
  BY LimitsAssumption DEF Idle, ThreadType, Steps, Times, Claiming, Founding
<1>3. ThreadOK(h)'
  BY <1>2 DEF ThreadOK
<1>4. ClaimStep(t, h)
  BY <1>1, <1>2, TypesOf DEF ClaimStep, On, RecordType
<1>5. PrivateStep(t, h) /\ LockStep(t, h)
  BY <1>2 DEF PrivateStep, LockStep
<1> QED BY <1>1, <1>2, <1>3, <1>4, <1>5, StepKeeps

LEMMA ClaimRefusedKeeps ==
    ASSUME IInv, NEW t \in Threads, ClaimRefused(t)
    PROVE  IInv'
<1>1. HttpTypes /\ TableIsBounded /\ ~Claiming(thread[t])
  BY Parts DEF ClaimRefused, Claiming
<1>2. TableStep /\ TableIsBounded'
  BY <1>1, TypesOf, TableStill DEF ClaimRefused
<1> QED BY <1>1, <1>2, DoneKeeps DEF ClaimRefused

LEMMA ClaimKeeps ==
    ASSUME IInv, NEW t \in Threads, Claim(t)
    PROVE  IInv'
<1> PICK h : h = [thread[t] EXCEPT !.at = "lock"]
  OBVIOUS
<1> DEFINE id == thread[t].id
           r == [rec[id] EXCEPT !.active = rec[id].active + 1, !.seen = now]
<1>1. /\ HttpTypes /\ ClaimsAreCounted /\ TableIsBounded /\ ThreadOK(thread[t])
      /\ thread[t] \in ThreadType /\ thread[t].at = "claim"
      /\ Moved(t, h) /\ told' = told /\ id \in sessions
      /\ UNCHANGED <<now, closed, sessions, retired, created, last>>
  BY Parts DEF Claim, Goto, Moved
<1>2. h \in ThreadType /\ h.at = "lock" /\ h.id = id /\ h.todo = thread[t].todo
  BY <1>1 DEF ThreadType, Steps
<1>3. id \in SessionIds /\ id \in 1..last /\ id \in told /\ thread[t].todo = {}
  BY <1>1, TypesOf, Finite DEF ThreadOK, HttpTypes
<1>4. rec \in [SessionIds -> RecordType] /\ rec' = [rec EXCEPT ![id] = r]
  BY TypesOf, <1>1, <1>3 DEF Claim
<1>5. r \in RecordType /\ r.active = rec[id].active + 1 /\ r.lock = rec[id].lock
  <2>1. rec[id] \in RecordType /\ now \in Times
    BY <1>1, <1>3, <1>4 DEF HttpTypes
  <2>2. rec[id].active + 1 \in Int
    BY <2>1 DEF RecordType
  <2> HIDE DEF id
  <2> QED BY <2>1, <2>2 DEF RecordType
<1> HIDE DEF r
<1>6. rec' \in [SessionIds -> RecordType]
  BY <1>4, <1>5
<1>7. TableStep /\ TableIsBounded'
  BY <1>1, <1>6, TableStill
<1>8. ThreadOK(h)'
  BY <1>1, <1>2, <1>3 DEF ThreadOK
<1>9. ClaimStep(t, h)
  <2>1. \A i \in SessionIds : ~On(thread[t], i) /\ (On(h, i) <=> i = id)
    BY <1>1, <1>2 DEF On, Claiming
  <2>2. \A i \in SessionIds : rec[i].active \in Int
    BY <1>4 DEF RecordType
  <2> HIDE DEF id
  <2>3. \A i \in SessionIds : rec'[i].active = rec[i].active + (IF i = id THEN 1 ELSE 0)
    BY <1>3, <1>4, <1>5, <2>2
  <2> QED BY <1>1, <1>2, <1>3, <2>1, <2>2, <2>3 DEF ClaimStep
<1>10. PrivateStep(t, h)
  BY <1>1, <1>2 DEF PrivateStep, Founding
<1>11. LockStep(t, h)
  <2> HIDE DEF id
  <2> QED BY <1>1, <1>2, <1>3, <1>4, <1>5, TypesOf DEF LockStep
<1> QED BY <1>1, <1>2, <1>7, <1>8, <1>9, <1>10, <1>11, StepKeeps

LEMMA LockKeeps ==
    ASSUME IInv, NEW t \in Threads, Lock(t)
    PROVE  IInv'
<1> PICK h : h = [thread[t] EXCEPT !.at = "dispatch"]
  OBVIOUS
<1> DEFINE id == thread[t].id
           r == [rec[id] EXCEPT !.lock = t]
<1>1. /\ HttpTypes /\ ClaimsAreCounted /\ TableIsBounded /\ ThreadOK(thread[t])
      /\ thread[t] \in ThreadType /\ thread[t].at = "lock"
      /\ Moved(t, h) /\ told' = told /\ rec[id].lock = Nobody
      /\ UNCHANGED <<now, closed, sessions, retired, created, last>>
  BY Parts DEF Lock, Goto, Moved
<1>2. h \in ThreadType /\ h.at = "dispatch" /\ h.id = id /\ h.todo = thread[t].todo
  BY <1>1 DEF ThreadType, Steps
<1>3. id \in SessionIds /\ id \in 1..last /\ thread[t].todo = {}
  BY <1>1, TypesOf DEF ThreadOK
<1>4. rec \in [SessionIds -> RecordType] /\ rec' = [rec EXCEPT ![id] = r]
  BY TypesOf, <1>1, <1>3 DEF Lock
<1>5. r \in RecordType /\ r.active = rec[id].active /\ r.lock = t
  BY <1>1, <1>3, <1>4 DEF RecordType
<1> HIDE DEF r
<1>6. rec' \in [SessionIds -> RecordType]
  BY <1>4, <1>5
<1>7. TableStep /\ TableIsBounded'
  BY <1>1, <1>6, TableStill
<1>8. ThreadOK(h)'
  BY <1>1, <1>2, <1>3 DEF ThreadOK
<1>9. ClaimStep(t, h)
  <2>1. \A i \in SessionIds : On(thread[t], i) <=> On(h, i)
    BY <1>1, <1>2 DEF On, Claiming
  <2>2. \A i \in SessionIds : rec[i].active \in Int
    BY <1>4 DEF RecordType
  <2>3. On(thread[t], h.id)
    BY <1>1, <1>2 DEF On, Claiming
  <2> HIDE DEF id
  <2>4. \A i \in SessionIds : rec'[i].active = rec[i].active
    BY <1>3, <1>4, <1>5
  <2> QED BY <1>2, <2>1, <2>2, <2>3, <2>4 DEF ClaimStep
<1>10. PrivateStep(t, h)
  BY <1>1, <1>2 DEF PrivateStep, Founding
<1>11. LockStep(t, h)
  <2> HIDE DEF id
  <2> QED BY <1>1, <1>2, <1>3, <1>4, <1>5, TypesOf DEF LockStep
<1> QED BY <1>1, <1>2, <1>7, <1>8, <1>9, <1>10, <1>11, StepKeeps

LEMMA DispatchedKeeps ==
    ASSUME IInv, NEW t \in Threads, Dispatched(t)
    PROVE  IInv'
<1> DEFINE id == thread[t].id
           r == [rec[id] EXCEPT !.lock = Nobody]
<1>0. PICK step \in {"answer", "release"} : thread' = [thread EXCEPT ![t].at = step]
  BY DEF Dispatched, Goto
<1> PICK h : h = [thread[t] EXCEPT !.at = step]
  OBVIOUS
<1>1. /\ HttpTypes /\ ClaimsAreCounted /\ TableIsBounded /\ ThreadOK(thread[t])
      /\ thread[t] \in ThreadType /\ thread[t].at = "dispatch" /\ LocksAreHeld
      /\ Moved(t, h) /\ told' = told
      /\ UNCHANGED <<now, closed, sessions, retired, created, last>>
  BY <1>0, Parts DEF Dispatched, Moved
<1>2. h \in ThreadType /\ h.at = step /\ h.id = id /\ h.todo = thread[t].todo
  BY <1>1 DEF ThreadType, Steps
<1>3. id \in SessionIds /\ id \in 1..last /\ thread[t].todo = {} /\ rec[id].lock = t
  BY <1>1, TypesOf DEF ThreadOK, LocksAreHeld
<1>4. rec \in [SessionIds -> RecordType] /\ rec' = [rec EXCEPT ![id] = r]
  BY TypesOf, <1>1, <1>3 DEF Dispatched
<1>5. r \in RecordType /\ r.active = rec[id].active
  BY <1>1, <1>3, <1>4 DEF RecordType
<1> HIDE DEF r
<1>6. rec' \in [SessionIds -> RecordType]
  BY <1>4, <1>5
<1>7. TableStep /\ TableIsBounded'
  BY <1>1, <1>6, TableStill
<1>8. ThreadOK(h)'
  BY <1>1, <1>2, <1>3 DEF ThreadOK
<1>9. ClaimStep(t, h)
  <2>1. \A i \in SessionIds : On(thread[t], i) <=> On(h, i)
    BY <1>1, <1>2 DEF On, Claiming
  <2>2. \A i \in SessionIds : rec[i].active \in Int
    BY <1>4 DEF RecordType
  <2>3. On(thread[t], h.id)
    BY <1>1, <1>2 DEF On, Claiming
  <2> HIDE DEF id
  <2>4. \A i \in SessionIds : rec'[i].active = rec[i].active
    BY <1>3, <1>4, <1>5
  <2> QED BY <1>2, <2>1, <2>2, <2>3, <2>4 DEF ClaimStep
<1>10. PrivateStep(t, h)
  BY <1>1, <1>2 DEF PrivateStep, Founding
<1>11. LockStep(t, h)
  <2> HIDE DEF id
  <2> QED BY <1>1, <1>2, <1>3, <1>4, TypesOf DEF LockStep
<1> QED BY <1>1, <1>2, <1>7, <1>8, <1>9, <1>10, <1>11, StepKeeps

LEMMA AnswerKeeps ==
    ASSUME IInv, NEW t \in Threads, Answer(t)
    PROVE  IInv'
<1> PICK h : h = [thread[t] EXCEPT !.at = "release"]
  OBVIOUS
<1>1. /\ HttpTypes /\ TableIsBounded /\ ThreadOK(thread[t])
      /\ thread[t] \in ThreadType /\ thread[t].at = "answer"
      /\ Moved(t, h) /\ told' \in {told, told \cup {thread[t].id}}
      /\ UNCHANGED <<now, closed, sessions, rec, retired, created, last>>
  BY Parts DEF Answer, Goto, Moved
<1>2. h \in ThreadType /\ h.at = "release" /\ h.id = thread[t].id /\ h.todo = thread[t].todo
  BY <1>1 DEF ThreadType, Steps
<1>3. thread[t].id \in 1..last
  BY <1>1 DEF ThreadOK
<1>4. TableStep /\ TableIsBounded'
  <2>1. last \in last..MaxIds /\ told' \subseteq 1..last
    BY <1>1, <1>3, LimitsAssumption DEF HttpTypes
  <2> QED BY <1>1, <2>1, TypesOf DEF HttpTypes, TableStep, TableIsBounded
<1>5. ThreadOK(h)'
  BY <1>1, <1>2 DEF ThreadOK
<1>6. ClaimStep(t, h)
  BY <1>1, <1>2, TypesOf DEF ClaimStep, On, Claiming, RecordType
<1>7. PrivateStep(t, h)
  BY <1>1, <1>2 DEF PrivateStep, Founding, On, Claiming
<1>8. LockStep(t, h)
  BY <1>1, <1>2 DEF LockStep
<1> QED BY <1>1, <1>2, <1>4, <1>5, <1>6, <1>7, <1>8, StepKeeps

LEMMA ReleaseKeeps ==
    ASSUME IInv, NEW t \in Threads, Release(t)
    PROVE  IInv'
<1> PICK h : h = Idle
  OBVIOUS
<1> DEFINE id == thread[t].id
<1>1. /\ HttpTypes /\ ClaimsAreCounted /\ TableIsBounded /\ ThreadOK(thread[t])
      /\ thread[t] \in ThreadType /\ thread[t].at = "release"
      /\ Moved(t, h) /\ rec' = Released(id) /\ told' = told
      /\ UNCHANGED <<now, closed, sessions, retired, created, last>>
  BY Parts DEF Release, Done, Moved
<1>2. /\ h \in ThreadType /\ ~Claiming(h) /\ ~Founding(h) /\ h.at # "closing" /\ h.at # "dispatch"
      /\ h.todo = {} /\ h.at = "idle"
  BY LimitsAssumption DEF Idle, ThreadType, Steps, Times, Claiming, Founding
<1>3. id \in SessionIds /\ id \in 1..last
  BY <1>1, TypesOf DEF ThreadOK
<1>4. TableStep /\ TableIsBounded'
  BY <1>1, <1>3, ReleasedIs, TableStill
<1>5. ThreadOK(h)'
  BY <1>2 DEF ThreadOK
<1>6. ClaimStep(t, h)
  <2>1. rec[id].active > 0
    BY <1>1, <1>3, CountIs DEF On, Claiming
  <2>2. \A i \in SessionIds : ~On(h, i) /\ (On(thread[t], i) <=> i = id)
    BY <1>1, <1>2 DEF On, Claiming
  <2> QED BY <1>1, <1>2, <1>3, <2>1, <2>2, ReleasedIs, TypesOf DEF ClaimStep, RecordType
<1>7. PrivateStep(t, h)
  BY <1>1, <1>2 DEF PrivateStep
<1>8. LockStep(t, h)
  BY <1>1, <1>2, <1>3, ReleasedIs, TypesOf DEF LockStep
<1> QED BY <1>1, <1>2, <1>4, <1>5, <1>6, <1>7, <1>8, StepKeeps

\* The second release after a lost refusal finds no claim.
LEMMA RefuseKeeps ==
    ASSUME IInv, NEW t \in Threads, Refuse(t)
    PROVE  IInv'
<1> DEFINE id == thread[t].id
<1>1. /\ HttpTypes /\ ClaimsAreCounted /\ TableIsBounded /\ ThreadOK(thread[t]) /\ Private(t)
      /\ thread[t].at = "refuse" /\ rec' \in {rec, Released(id)}
      /\ UNCHANGED <<now, closed, sessions, retired, created, last, told>>
  BY Parts DEF Refuse
<1>2. id \in SessionIds /\ ~Claiming(thread[t])
  BY <1>1, TypesOf DEF ThreadOK, Claiming
<1>3. Claimants(id) = {}
  <2>1. \A u \in Threads \ {t} : Claiming(thread[u]) => thread[u].id # id
    BY <1>1 DEF Private, Founding, HasClaim, Claiming
  <2> QED BY <1>2, <2>1, ClaimantsAre DEF On
<1>4. rec[id].active = 0
  BY <1>1, <1>2, <1>3, CountIs
<1>5. rec' = rec
  BY <1>1, <1>4 DEF Released
<1>6. Done(t)
  BY <1>5 DEF Refuse
<1>7. TableStep /\ TableIsBounded'
  BY <1>1, <1>5, TypesOf, TableStill
<1> QED BY <1>1, <1>2, <1>5, <1>6, <1>7, DoneKeeps

-----------------------------------------------------------------------------
(* The steps that take sessions out of the table.                           *)

\* No count changes in a step that takes no claim and gives none back.
LEMMA SameClaims ==
    ASSUME NEW t, NEW h,
           \A k \in SessionIds : rec'[k].active = rec[k].active /\ rec[k].active \in Int,
           \A k : On(h, k) <=> On(thread[t], k)
    PROVE  \A k \in SessionIds : rec'[k].active = rec[k].active + (IF On(h, k) THEN 1 ELSE 0)
                                                - (IF On(thread[t], k) THEN 1 ELSE 0)
<1> SUFFICES ASSUME NEW k \in SessionIds
             PROVE  rec'[k].active = rec[k].active + (IF On(h, k) THEN 1 ELSE 0)
                                                   - (IF On(thread[t], k) THEN 1 ELSE 0)
  OBVIOUS
<1>1. rec'[k].active = rec[k].active /\ rec[k].active \in Int
  OBVIOUS
<1>2. CASE On(h, k)
  <2>1. On(thread[t], k)
    BY <1>2
  <2> QED BY <1>1, <1>2, <2>1
<1>3. CASE ~On(h, k)
  <2>1. ~On(thread[t], k)
    BY <1>3
  <2> QED BY <1>1, <1>3, <2>1
<1> QED BY <1>2, <1>3

LEMMA CloseRecordKeeps ==
    ASSUME IInv, NEW t \in Threads, CloseRecord(t)
    PROVE  IInv'
<1> DEFINE todo == thread[t].todo
           id == thread[t].id
           then == thread[t].then
           i == CHOOSE k \in todo : \A j \in todo : k <= j
           r == [rec[i] EXCEPT !.runtime = "closed"]
<1> PICK h : h = ClosingThen(id, todo \ {i}, then)
  OBVIOUS
<1>1. /\ HttpTypes /\ ClaimsAreCounted /\ TableIsBounded /\ OnlyIdleAreReaped /\ ThreadOK(thread[t])
      /\ thread[t] \in ThreadType /\ thread[t].at = "closing"
      /\ Moved(t, h) /\ told' = told /\ rec' = [rec EXCEPT ![i].runtime = "closed"]
      /\ UNCHANGED <<now, closed, sessions, retired, created, last>>
  BY Parts DEF CloseRecord, Moved
<1>2. todo \subseteq SessionIds /\ todo # {} /\ id \in {0} \cup SessionIds \cup Strangers /\ then \in Steps
  BY <1>1 DEF ThreadType, ThreadOK
<1>3. i \in todo /\ i \in SessionIds
  <2>1. todo \subseteq Nat
    BY <1>2, Finite
  <2> HIDE DEF todo
  <2>2. \E k \in todo : \A j \in todo : k <= j
    BY <1>2, <2>1, Least
  <2> QED BY <1>2, <2>2
<1>4. /\ then \in {"idle", "create", "claim", "initialize", "refuse"}
      /\ then \in {"initialize", "refuse"} => id \in 1..last
      /\ then = "claim" => id \in told \cup Strangers
      /\ todo \subseteq (1..last) \ sessions
  BY <1>1 DEF ThreadOK
<1>5. /\ On(thread[t], id) <=> then = "initialize"
      /\ Founding(thread[t]) <=> then \in {"initialize", "refuse"}
      /\ \A k \in SessionIds : On(thread[t], k) => k = id
      /\ then \in {"create", "claim", "initialize"} => \A k \in todo : Claimants(k) = {}
  BY <1>1 DEF On, Founding, Claiming, OnlyIdleAreReaped
<1> HIDE DEF i
<1>6. rec \in [SessionIds -> RecordType] /\ rec' = [rec EXCEPT ![i] = r]
  BY <1>1, <1>3, TypesOf
<1>7. r \in RecordType /\ r.active = rec[i].active /\ r.lock = rec[i].lock
  BY <1>3, <1>6 DEF RecordType
<1> HIDE DEF r
<1>8. rec' \in [SessionIds -> RecordType]
  BY <1>6, <1>7
<1>9. TableStep /\ TableIsBounded'
  BY <1>1, <1>8, TableStill
<1>10. \A k \in SessionIds : rec'[k].active = rec[k].active /\ rec'[k].lock = rec[k].lock
                      /\ rec[k].active \in Int
  BY <1>3, <1>6, <1>7 DEF RecordType
<1>11. h \in ThreadType
  <2> HIDE DEF todo, id, then
  <2> QED BY <1>1, <1>2, ClosingThenTyped
<1>12. LockStep(t, h)
  <2>1. h.at # "dispatch"
    <3> HIDE DEF todo, id, then
    <3> QED BY <1>4, ClosingThenIs DEF Idle
  <2> QED BY <2>1, <1>10, <1>1, TypesOf DEF LockStep
<1>13. CASE todo \ {i} # {}
  <2>1. /\ h.at = "closing" /\ h.id = id /\ h.todo = todo \ {i} /\ h.then = then
    <3> HIDE DEF todo, id, then
    <3> QED BY <1>13, ClosingThenIs
  <2>2. ThreadOK(h)'
    <3> HIDE DEF todo, id, then
    <3> QED BY <1>1, <1>4, <1>13, <2>1 DEF ThreadOK
  <2>3. \A k : (On(h, k) <=> On(thread[t], k))
    BY <1>1, <2>1 DEF On, Claiming
  <2>4. \A k \in h.todo : then \in {"create", "claim", "initialize"} =>
            Claimants(k) = {} /\ ~On(thread[t], k)
    <3> HIDE DEF todo, id, then
    <3> QED BY <1>5, <2>1, ClaimantsAre
  <2>5. ClaimStep(t, h)
    <3>1. Claiming(h) => On(thread[t], h.id)
      BY <2>3 DEF On
    <3>2. \A k \in SessionIds : rec'[k].active = rec[k].active + (IF On(h, k) THEN 1 ELSE 0)
                                                - (IF On(thread[t], k) THEN 1 ELSE 0)
      BY <1>10, <2>3, SameClaims
    <3>3. h.at = "closing" /\ h.then \in {"create", "claim", "initialize"} =>
              \A k \in h.todo : Claimants(k) = {} /\ ~On(h, k)
      BY <2>1, <2>3, <2>4
    <3> QED BY <3>1, <3>2, <3>3 DEF ClaimStep
  <2>6. PrivateStep(t, h)
    BY <1>1, <1>5, <2>1 DEF PrivateStep, Founding
  <2> QED BY <1>1, <1>11, <1>9, <2>2, <2>5, <2>6, <1>12, StepKeeps
<1>14. CASE todo \ {i} = {} /\ then = "idle"
  <2>1. h = Idle
    <3> HIDE DEF todo, id, then
    <3> QED BY <1>14, ClosingThenIs
  <2>2. ThreadOK(h)'
    BY <2>1 DEF ThreadOK, Idle
  <2>3. ClaimStep(t, h)
    <3>1. ~Claiming(h) /\ ~Claiming(thread[t])
      BY <1>1, <1>14, <2>1 DEF Claiming, Idle
    <3> QED BY <1>10, <2>1, <3>1 DEF ClaimStep, On, Idle
  <2>4. PrivateStep(t, h)
    BY <1>1, <2>1 DEF PrivateStep, Founding, Idle
  <2> QED BY <1>1, <1>11, <1>9, <2>2, <2>3, <2>4, <1>12, StepKeeps
<1>15. CASE todo \ {i} = {} /\ then # "idle"
  <2>1. /\ h.at = then /\ h.id = id /\ h.todo = {} /\ h.then = "idle"
    <3> HIDE DEF todo, id, then
    <3> QED BY <1>15, ClosingThenIs
  <2>2. ThreadOK(h)'
    <3> HIDE DEF todo, id, then
    <3> QED BY <1>1, <1>4, <1>15, <2>1 DEF ThreadOK
  <2>3. \A k : (On(h, k) <=> On(thread[t], k))
    <3>1. h.at \in {"create", "claim", "initialize", "refuse"}
      BY <1>4, <1>15, <2>1
    <3> QED BY <1>1, <2>1, <3>1 DEF On, Claiming
  <2>4. ClaimStep(t, h)
    <3>1. h.at # "closing"
      BY <1>4, <2>1
    <3>2. Claiming(h) => On(thread[t], h.id)
      BY <2>3 DEF On
    <3>3. \A k \in SessionIds : rec'[k].active = rec[k].active + (IF On(h, k) THEN 1 ELSE 0)
                                                - (IF On(thread[t], k) THEN 1 ELSE 0)
      BY <1>10, <2>3, SameClaims
    <3> QED BY <3>1, <3>2, <3>3 DEF ClaimStep
  <2>5. PrivateStep(t, h)
    BY <1>1, <1>4, <1>5, <1>15, <2>1 DEF PrivateStep, Founding
  <2> QED BY <1>1, <1>11, <1>9, <2>2, <2>4, <2>5, <1>12, StepKeeps
<1> QED BY <1>13, <1>14, <1>15

\* A step of a thread without a claim that takes out of the table, goes on to
\* close what it has taken out, and from there to then.
LEMMA TakesOutKeeps ==
    ASSUME IInv, NEW t \in Threads, ~Claiming(thread[t]),
           NEW id \in {0} \cup SessionIds \cup Strangers, NEW out, out \subseteq sessions,
           NEW then \in {"idle", "create", "claim", "refuse"},
           UNCHANGED <<now, rec, created, last, told>>,
           sessions' = sessions \ out, closed' = closed \/ (closed' = TRUE /\ out = sessions),
           HistoryOK(retired'),
           thread' = [thread EXCEPT ![t] = ClosingThen(id, out, then)],
           then \in {"create", "claim"} => \A k \in out : rec[k].active = 0,
           then = "claim" => id \in told \cup Strangers,
           then = "refuse" => Founding(thread[t]) /\ id = thread[t].id
    PROVE  IInv'
<1> PICK h : h = ClosingThen(id, out, then)
  OBVIOUS
<1>1. /\ HttpTypes /\ ClaimsAreCounted /\ TableIsBounded /\ OnlyIdleAreReaped /\ ThreadOK(thread[t])
      /\ thread[t] \in ThreadType /\ Moved(t, h)
  BY Parts DEF Moved
<1>2. out \subseteq SessionIds /\ then \in Steps
  BY <1>1, TypesOf DEF Steps
<1>3. h \in ThreadType
  BY <1>1, <1>2, ClosingThenTyped
<1>4. TableStep
  <2>1. last \in last..MaxIds /\ closed' \in BOOLEAN
    <3>1. closed \in BOOLEAN /\ last \in last..MaxIds
      BY <1>1, LimitsAssumption DEF HttpTypes
    <3>2. closed' = closed \/ closed' = TRUE
      OBVIOUS
    <3>3. closed' \in BOOLEAN
      BY <3>1, <3>2, Zenon
    <3> QED BY <3>1, <3>3
  <2>2. sessions' \subseteq sessions \cup ((last + 1)..last')
    OBVIOUS
  <2> QED BY <1>1, <2>1, <2>2, TypesOf DEF HttpTypes, TableStep
<1>5. TableIsBounded'
  <2>1. IsFiniteSet(sessions) /\ Cardinality(sessions) \in Nat
    BY <1>1, TypesOf, Finite, FS_CardinalityType
  <2>2. sessions' \in SUBSET sessions
    OBVIOUS
  <2>3. Cardinality(sessions') <= Cardinality(sessions) /\ Cardinality(sessions') \in Nat
    BY <2>1, <2>2, FS_Subset, FS_CardinalityType
  <2>4. CASE closed' = closed
    BY <1>1, <2>1, <2>3, <2>4, LimitsAssumption DEF TableIsBounded
  <2>5. CASE closed' = TRUE /\ out = sessions
    <3>1. sessions' = {}
      BY <2>5
    <3> QED BY <2>5, <3>1, FS_EmptySet DEF TableIsBounded
  <2> QED BY <2>4, <2>5
<1>6. /\ out # {} => h.at = "closing" /\ h.id = id /\ h.todo = out /\ h.then = then
      /\ out = {} /\ then = "idle" => h.at = "idle" /\ h.todo = {}
      /\ out = {} /\ then # "idle" => h.at = then /\ h.id = id /\ h.todo = {}
  BY ClosingThenIs DEF Idle
<1>7. ~Claiming(h) /\ (Founding(h) => then = "refuse" /\ h.id = id) /\ h.at # "dispatch"
  BY <1>6 DEF Claiming, Founding
<1>8. then = "refuse" => id \in 1..last
  BY <1>1 DEF ThreadOK, Founding
<1>9. ThreadOK(h)'
  <2>1. h.todo \subseteq (1..last) \ sessions'
    BY <1>1, <1>6 DEF HttpTypes
  <2> QED BY <1>6, <1>8, <2>1 DEF ThreadOK
<1>10. ClaimStep(t, h)
  <2>1. ASSUME h.at = "closing", h.then \in {"create", "claim", "initialize"}, NEW k \in h.todo
        PROVE  Claimants(k) = {} /\ ~On(h, k)
    <3>1. k \in out /\ k \in SessionIds /\ then \in {"create", "claim"}
      BY <2>1, <1>2, <1>6
    <3>2. rec[k].active = 0
      BY <3>1
    <3> QED BY <1>1, <1>7, <3>1, <3>2, CountIs DEF On
  <2>2. \A k \in SessionIds : rec'[k].active = rec[k].active /\ rec[k].active \in Int
    BY <1>1, TypesOf DEF RecordType
  <2>3. \A k : On(h, k) <=> On(thread[t], k)
    BY <1>7 DEF On
  <2> QED BY <1>7, <2>1, <2>2, <2>3, SameClaims DEF ClaimStep
<1>11. PrivateStep(t, h)
  BY <1>7 DEF PrivateStep
<1>12. LockStep(t, h)
  BY <1>7 DEF LockStep
<1> QED BY <1>1, <1>3, <1>4, <1>5, <1>9, <1>10, <1>11, <1>12, StepKeeps

\* Expiry takes out only sessions without a claim.
LEMMA PruneKeeps ==
    ASSUME IInv, NEW t \in Handlers, NEW id, NEW then, Prune(t, id, then),
           \/ id = 0 /\ then = "create"
           \/ id \in told \cup Strangers /\ then = "claim"
    PROVE  IInv'
<1>1. t \in Threads /\ HttpTypes /\ ~Claiming(thread[t])
  BY Parts DEF Prune, Threads, Claiming
<1>2. /\ Expired \subseteq sessions /\ \A k \in Expired : rec[k].active = 0
      /\ id \in {0} \cup SessionIds \cup Strangers
  BY <1>1, TypesOf DEF Expired
<1>3. HistoryOK(Remember(Expired, "expired"))
  <2>1. Expired \subseteq SessionIds
    BY <1>1, <1>2, TypesOf
  <2>2. IsFiniteSet(Expired) /\ Expired \subseteq SessionIds \cup Strangers
    BY <2>1, Finite
  <2> QED BY <1>1, <2>2, TypesOf, RememberOK DEF Reasons
<1>4. /\ sessions' = sessions \ Expired /\ retired' = Remember(Expired, "expired")
      /\ thread' = [thread EXCEPT ![t] = ClosingThen(id, Expired, then)]
      /\ UNCHANGED <<now, closed, rec, created, last, told>>
  BY DEF Prune
<1> HIDE DEF Expired
<1> QED BY <1>1, <1>2, <1>3, <1>4, TakesOutKeeps

LEMMA RemoveSessionKeeps ==
    ASSUME IInv, NEW t \in Threads, ~Claiming(thread[t]), NEW id \in SessionIds \cup Strangers,
           NEW why \in Reasons, NEW then \in {"idle", "refuse"}, RemoveSession(t, id, why, then),
           then = "refuse" => Founding(thread[t]) /\ id = thread[t].id
    PROVE  IInv'
<1> DEFINE out == sessions \cap {id}
<1>1. HistoryOK(retired')
  <2>1. HistoryOK(retired)
    BY Parts, TypesOf
  <2>2. IsFiniteSet({id}) /\ {id} \subseteq SessionIds \cup Strangers
    BY FS_Singleton
  <2>3. HistoryOK(Remember({id}, why))
    BY <2>1, <2>2, RememberOK
  <2> QED BY <2>1, <2>3 DEF RemoveSession
<1>2. sessions' = sessions \ out /\ out \subseteq sessions
  BY DEF RemoveSession
<1>3. /\ thread' = [thread EXCEPT ![t] = ClosingThen(id, out, then)]
      /\ UNCHANGED <<now, closed, rec, created, last, told>>
  BY DEF RemoveSession
<1> HIDE DEF out
<1> QED BY <1>1, <1>2, <1>3, TakesOutKeeps

LEMMA DeleteKeeps ==
    ASSUME IInv, NEW t \in Handlers, Delete(t)
    PROVE  IInv'
<1>1. t \in Threads /\ HttpTypes /\ ~Claiming(thread[t])
  BY Parts DEF Delete, Threads, Claiming
<1>2. PICK id \in told \cup Strangers : RemoveSession(t, id, "deleted", "idle")
  BY DEF Delete
<1>3. id \in SessionIds \cup Strangers /\ "deleted" \in Reasons
  BY <1>1, TypesOf DEF Reasons
<1> QED BY <1>1, <1>2, <1>3, RemoveSessionKeeps

LEMMA RemoveFailedKeeps ==
    ASSUME IInv, NEW t \in Threads, RemoveFailed(t)
    PROVE  IInv'
<1>1. HttpTypes /\ ~Claiming(thread[t]) /\ Founding(thread[t]) /\ ThreadOK(thread[t])
  BY Parts DEF RemoveFailed, Claiming, Founding
<1>2. /\ RemoveSession(t, thread[t].id, "initialization failed", thread[t].then)
      /\ thread[t].at = "remove"
  BY DEF RemoveFailed
<1>3. /\ thread[t].id \in SessionIds \cup Strangers /\ "initialization failed" \in Reasons
      /\ thread[t].then \in {"idle", "refuse"}
  BY <1>1, <1>2, TypesOf DEF Reasons, ThreadOK
<1> QED BY <1>1, <1>2, <1>3, RemoveSessionKeeps

\* The main thread has no claim when it shuts the server down.
LEMMA CloseKeeps ==
    ASSUME IInv, Close
    PROVE  IInv'
<1>1. Main \in Threads /\ HttpTypes /\ ~Claiming(thread[Main])
  BY Parts DEF Close, Threads, Claiming
<1>2. HistoryOK(Remember(sessions, "transport closed"))
  <2>1. IsFiniteSet(sessions) /\ sessions \subseteq SessionIds \cup Strangers
    BY <1>1, TypesOf, Finite
  <2> QED BY <1>1, <2>1, TypesOf, RememberOK DEF Reasons
<1>3. /\ sessions' = sessions \ sessions /\ retired' = Remember(sessions, "transport closed")
      /\ thread' = [thread EXCEPT ![Main] = ClosingThen(0, sessions, "idle")]
      /\ UNCHANGED <<now, rec, created, last, told>> /\ closed' = TRUE
  BY DEF Close
<1> QED BY <1>1, <1>2, <1>3, TakesOutKeeps

-----------------------------------------------------------------------------
(* The creation of a session.                                               *)

LEMMA RecentOK ==
    ASSUME HttpTypes, NEW clock
    PROVE  /\ Recent(clock) \in Seq(Times)
           /\ Len(Recent(clock)) <= Len(created)
           /\ Len(Recent(clock)) \in Nat
<1> DEFINE live == {i \in DOMAIN created : created[i] > clock - Window}
           first == IF live = {} THEN Len(created) + 1
                    ELSE CHOOSE i \in live : \A j \in live : i <= j
<1>1. created \in Seq(Times) /\ Len(created) \in Nat /\ DOMAIN created = 1..Len(created)
  BY DEF HttpTypes
<1>2. first \in 1..(Len(created) + 1)
  <2>1. live \subseteq 1..Len(created)
    BY <1>1
  <2> HIDE DEF live
  <2>2. CASE live = {}
    BY <1>1, <2>2
  <2>3. CASE live # {}
    <3>1. live \subseteq Nat
      BY <1>1, <2>1
    <3>2. \E i \in live : \A j \in live : i <= j
      BY <2>3, <3>1, Least
    <3>3. first \in live
      BY <2>3, <3>2
    <3> HIDE DEF first
    <3>4. first \in 1..Len(created)
      BY <2>1, <3>3
    <3> QED BY <1>1, <3>4
  <2> QED BY <2>2, <2>3
<1>3. Recent(clock) = SubSeq(created, first, Len(created))
  BY DEF Recent
<1> HIDE DEF first
<1>4. \A i \in first..Len(created) : i \in 1..Len(created)
  BY <1>1, <1>2
<1> QED BY <1>1, <1>2, <1>3, <1>4, SubSeqProperties

LEMMA CreateRefusedKeeps ==
    ASSUME IInv, NEW t \in Threads, CreateRefused(t)
    PROVE  IInv'
<1>1. HttpTypes /\ TableIsBounded /\ ~Claiming(thread[t])
  BY Parts DEF CreateRefused, Claiming
<1>2. last' \in last..MaxIds
  BY <1>1, LimitsAssumption DEF CreateRefused, HttpTypes
<1>3. created' \in Seq(Times) /\ Len(created') <= MaxCreations
  <2>1. Recent(thread[t].clock) \in Seq(Times) /\ Len(Recent(thread[t].clock)) <= Len(created)
        /\ Len(Recent(thread[t].clock)) \in Nat
    BY <1>1, RecentOK
  <2>2. created' = created \/ created' = Recent(thread[t].clock)
    BY DEF CreateRefused
  <2>3. created \in Seq(Times) /\ Len(created) <= MaxCreations /\ Len(created) \in Nat
    BY <1>1 DEF HttpTypes
  <2> QED BY <2>1, <2>2, <2>3, LimitsAssumption
<1>4. UNCHANGED <<now, closed, sessions, rec, retired, told>> /\ Done(t)
  BY DEF CreateRefused
<1>5. 1..last \subseteq 1..last'
  BY <1>1, <1>2 DEF HttpTypes
<1>6. TableStep
  <2>1. sessions' \subseteq sessions \cup ((last + 1)..last')
    BY <1>4
  <2> QED BY <1>1, <1>2, <1>3, <1>4, <1>5, <2>1, TypesOf DEF HttpTypes, TableStep
<1>7. TableIsBounded'
  BY <1>1, <1>4 DEF TableIsBounded
<1> QED BY <1>1, <1>4, <1>6, <1>7, DoneKeeps

\* A session is evicted only from a full table, and only without a claim.
LEMMA EvictedIsIdle ==
    ASSUME HttpTypes
    PROVE  /\ OldestIdle(sessions) \subseteq sessions
           /\ \A id \in OldestIdle(sessions) : rec[id].active = 0
BY DEF OldestIdle

\* A new record is open and has the claim of the request that creates it.
LEMMA NewSession ==
    ASSUME NEW c \in Times
    PROVE  LET r == [Unborn EXCEPT !.runtime = "open", !.born = c, !.seen = c, !.active = 1]
           IN  r \in RecordType /\ r.active = 1
<1> DEFINE a == [Unborn EXCEPT !.runtime = "open"]
           b == [a EXCEPT !.born = c]
           d == [b EXCEPT !.seen = c]
           r == [d EXCEPT !.active = 1]
<1>1. a \in RecordType
  <2>1. a = [runtime |-> "open", born |-> 0, seen |-> 0, active |-> 0, lock |-> Nobody]
    BY DEF Unborn
  <2>2. 0 \in Times
    BY LimitsAssumption DEF Times
  <2> QED BY <2>1, <2>2 DEF RecordType
<1> HIDE DEF a
<1>2. b \in RecordType
  BY <1>1 DEF RecordType
<1> HIDE DEF b
<1>3. d \in RecordType
  BY <1>2 DEF RecordType
<1> HIDE DEF d
<1>4. r \in RecordType /\ r.active = 1
  BY <1>3 DEF RecordType
<1> QED BY <1>4 DEF a, b, d

LEMMA CreateKeeps ==
    ASSUME IInv, NEW t \in Threads, Create(t)
    PROVE  IInv'
<1> DEFINE clock == thread[t].clock
           evicted == IF Cardinality(sessions) >= MaxSessions THEN OldestIdle(sessions) ELSE {}
           id == last + 1
           r == [Unborn EXCEPT !.runtime = "open", !.born = clock, !.seen = clock, !.active = 1]
<1> PICK h : h = ClosingThen(id, evicted, "initialize")
  OBVIOUS
<1>1. /\ HttpTypes /\ ClaimsAreCounted /\ TableIsBounded /\ OnlyIdleAreReaped
      /\ thread[t] \in ThreadType /\ thread[t].at = "create"
      /\ \A u \in Threads : ThreadOK(thread[u])
  BY Parts DEF Create
<1>2. /\ MayCreate(clock) /\ last < MaxIds /\ last' = id
      /\ sessions' = (sessions \ evicted) \cup {id}
      /\ retired' = Remember(evicted, "evicted") /\ rec' = [rec EXCEPT ![id] = r]
      /\ created' = Append(Recent(clock), clock) /\ Moved(t, h)
      /\ UNCHANGED <<now, closed, told>>
  BY DEF Create, Moved
<1>3. /\ evicted \subseteq sessions /\ \A k \in evicted : rec[k].active = 0
      /\ Cardinality(sessions) >= MaxSessions => evicted # {}
  BY <1>1, <1>2, EvictedIsIdle DEF MayCreate
<1> HIDE DEF evicted
<1>4. /\ last \in Nat /\ id \in Nat /\ id \in SessionIds /\ id \in 1..last' /\ id > last
      /\ 1..last \subseteq SessionIds /\ sessions \subseteq 1..last /\ id \notin 1..last
      /\ 1..last \subseteq 1..last' /\ last' \in last..MaxIds
  BY <1>1, <1>2, LimitsAssumption DEF HttpTypes, SessionIds
<1>5. clock \in Times /\ ~Claiming(thread[t])
  BY <1>1 DEF ThreadType, Claiming
<1>6. HistoryOK(retired')
  <2>1. evicted \subseteq SessionIds
    BY <1>3, <1>4
  <2>2. IsFiniteSet(evicted) /\ evicted \subseteq SessionIds \cup Strangers
    BY <2>1, Finite
  <2> QED BY <1>1, <1>2, <2>2, TypesOf, RememberOK DEF Reasons
<1>7. rec \in [SessionIds -> RecordType] /\ r \in RecordType /\ r.active = 1
  <2> HIDE DEF clock
  <2> QED BY <1>1, <1>5, NewSession, TypesOf
<1> HIDE DEF r
<1>8. created' \in Seq(Times) /\ Len(created') <= MaxCreations
  <2>1. /\ Recent(clock) \in Seq(Times) /\ Len(Recent(clock)) < MaxCreations
        /\ Len(Recent(clock)) \in Nat
    BY <1>1, <1>2, RecentOK DEF MayCreate
  <2>2. Append(Recent(clock), clock) \in Seq(Times)
        /\ Len(Append(Recent(clock), clock)) = Len(Recent(clock)) + 1
    BY <2>1, <1>5, AppendProperties
  <2> QED BY <1>2, <2>1, <2>2, LimitsAssumption
<1>9. TableStep
  <2>1. rec' \in [SessionIds -> RecordType]
    BY <1>2, <1>4, <1>7
  <2>2. told \subseteq told' /\ told' \subseteq 1..last' /\ now' = now /\ closed' \in BOOLEAN
    BY <1>1, <1>2, <1>4 DEF HttpTypes
  <2>3. sessions' \subseteq sessions \cup ((last + 1)..last')
    BY <1>2, <1>4
  <2> HIDE DEF id
  <2> QED BY <1>4, <1>6, <1>8, <2>1, <2>2, <2>3 DEF TableStep
<1>10. TableIsBounded'
  <2>1. IsFiniteSet(sessions) /\ Cardinality(sessions) \in Nat
    BY <1>1, TypesOf, Finite, FS_CardinalityType
  <2>2. ~closed /\ Cardinality(sessions) <= MaxSessions
    BY <1>1, <1>2 DEF MayCreate, TableIsBounded
  <2> DEFINE rest == sessions \ evicted
  <2>3. rest \in SUBSET sessions /\ (Cardinality(sessions) >= MaxSessions => rest # sessions)
    BY <1>3
  <2>4. /\ IsFiniteSet(rest) /\ Cardinality(rest) <= Cardinality(sessions)
        /\ Cardinality(rest) \in Nat
        /\ Cardinality(sessions) >= MaxSessions => Cardinality(rest) # Cardinality(sessions)
    BY <2>1, <2>3, FS_Subset, FS_CardinalityType
  <2>5. Cardinality(rest) < MaxSessions
    <3> HIDE DEF rest
    <3> QED BY <2>1, <2>2, <2>4, LimitsAssumption
  <2>6. id \notin rest
    BY <1>4
  <2>7. Cardinality(rest \cup {id}) = Cardinality(rest) + 1
    <3> HIDE DEF rest, id
    <3> QED BY <2>4, <2>6, FS_AddElement
  <2>8. Cardinality(sessions') <= MaxSessions
    <3>1. sessions' = rest \cup {id}
      BY <1>2
    <3> HIDE DEF rest, id
    <3> QED BY <2>4, <2>5, <2>7, <3>1, LimitsAssumption
  <2> QED BY <1>2, <2>2, <2>8 DEF TableIsBounded
<1>11. /\ evicted # {} => h.at = "closing" /\ h.then = "initialize" /\ h.todo = evicted
       /\ evicted = {} => h.at = "initialize" /\ h.todo = {}
       /\ h.id = id
  BY ClosingThenIs
<1>12. h \in ThreadType
  <2>1. evicted \in SUBSET SessionIds
    BY <1>3, <1>4
  <2> HIDE DEF id
  <2> QED BY <1>1, <1>4, <2>1, ClosingThenTyped DEF Steps
<1>13. Claiming(h) /\ h.at # "dispatch"
  BY <1>11 DEF Claiming
<1>14. ThreadOK(h)'
  <2>1. h.todo \subseteq (1..last') \ sessions'
    BY <1>2, <1>3, <1>4, <1>11
  <2>2. h.id \in 1..last'
    BY <1>4, <1>11
  <2> HIDE DEF id
  <2> QED BY <1>11, <2>1, <2>2 DEF ThreadOK
<1>15. ClaimStep(t, h)
  <2>1. Claimants(id) = {}
    <3>1. \A u \in Threads : Claiming(thread[u]) => thread[u].id \in 1..last
      BY <1>1 DEF Claiming, ThreadOK
    <3> QED BY <1>4, <3>1, ClaimantsAre DEF On
  <2>2. rec[id].active = 0
    BY <1>1, <1>4, <2>1, CountIs
  <2>3. \A k \in SessionIds : ~On(thread[t], k) /\ (On(h, k) <=> k = id)
    BY <1>5, <1>11, <1>13 DEF On
  <2>4. \A k \in SessionIds : rec[k].active \in Int
    BY <1>7 DEF RecordType
  <2>5. \A k \in SessionIds : rec'[k].active = rec[k].active + (IF k = id THEN 1 ELSE 0)
    <3> HIDE DEF id
    <3> QED BY <1>2, <1>4, <1>7, <2>2, <2>4
  <2>6. \A k \in SessionIds : rec'[k].active = rec[k].active + (IF On(h, k) THEN 1 ELSE 0)
                                                - (IF On(thread[t], k) THEN 1 ELSE 0)
    <3> HIDE DEF id
    <3> QED BY <2>3, <2>4, <2>5
  <2>7. h.id > last
    BY <1>4, <1>11
  <2>8. ASSUME h.at = "closing", NEW k \in h.todo PROVE Claimants(k) = {} /\ ~On(h, k)
    <3>1. k \in evicted /\ k \in SessionIds /\ k # id
      BY <2>8, <1>3, <1>4, <1>11
    <3> QED BY <1>1, <1>3, <3>1, <2>3, CountIs
  <2> QED BY <2>6, <2>7, <2>8 DEF ClaimStep
<1>16. PrivateStep(t, h)
  BY <1>2, <1>4, <1>11 DEF PrivateStep
<1>17. LockStep(t, h)
  <2> HIDE DEF id
  <2> QED BY <1>2, <1>4, <1>7, <1>13 DEF LockStep
<1> HIDE DEF id
<1> QED BY <1>1, <1>2, <1>9, <1>10, <1>12, <1>14, <1>15, <1>16, <1>17, StepKeeps

-----------------------------------------------------------------------------
(* The theorems.                                                            *)

\* Nothing has been created, and no thread is about anything.
LEMMA InitHolds == HttpInit => IInv
<1> SUFFICES ASSUME HttpInit PROVE IInv
  OBVIOUS
<1>1. HttpTypes
  <2>1. thread \in [Threads -> ThreadType]
    BY LimitsAssumption DEF HttpInit, Idle, ThreadType, Steps, Times
  <2>2. rec \in [SessionIds -> RecordType]
    BY LimitsAssumption DEF HttpInit, Unborn, RecordType, Times
  <2>3. created \in Seq(Times) /\ Len(created) = 0
    BY DEF HttpInit
  <2>4. /\ now \in Times /\ closed \in BOOLEAN /\ last \in 0..MaxIds
        /\ sessions \subseteq 1..last /\ told \subseteq 1..last
    <3>1. 0 \in 0..MaxTime /\ 0 \in 0..MaxIds
      BY LimitsAssumption
    <3> QED BY <3>1 DEF HttpInit, Times
  <2>5. retired = {} /\ Len(created) <= MaxCreations
    BY <2>3, LimitsAssumption DEF HttpInit
  <2> QED BY <2>1, <2>2, <2>3, <2>4, <2>5 DEF HttpTypes, ThreadType, RecordType
<1>2. \A t \in Threads : thread[t] = Idle /\ ~HasClaim(t) /\ ~Founding(thread[t])
  BY DEF HttpInit, Idle, HasClaim, Founding
<1>3. ClaimsAreCounted
  <2>1. \A id \in SessionIds : Claimants(id) = {} /\ rec[id].active = 0
    BY <1>2 DEF HttpInit, Claimants, Unborn
  <2> QED BY <2>1, FS_EmptySet DEF ClaimsAreCounted
<1>4. TableIsBounded
  BY FS_EmptySet, LimitsAssumption DEF HttpInit, TableIsBounded
<1>5. \A t \in Threads : ThreadOK(thread[t]) /\ Private(t)
  BY <1>2 DEF ThreadOK, Idle, Private
<1>6. OnlyIdleAreReaped /\ LocksAreHeld
  BY <1>2 DEF OnlyIdleAreReaped, LocksAreHeld, Idle
<1> QED BY <1>1, <1>3, <1>4, <1>5, <1>6 DEF IInv, TableIsSound

\* The clock and the steps that change nothing.
LEMMA StillKeeps ==
    ASSUME IInv, now' \in Times,
           UNCHANGED <<closed, sessions, rec, retired, created, last, told, thread>>
    PROVE  IInv'
<1>1. HttpTypes'
  BY DEF IInv, TableIsSound, HttpTypes
<1>2. ClaimsAreCounted' /\ OnlyIdleAreReaped'
  BY DEF IInv, TableIsSound, ClaimsAreCounted, OnlyIdleAreReaped, Claimants, HasClaim
<1>3. TableIsBounded' /\ LocksAreHeld'
  BY DEF IInv, TableIsSound, TableIsBounded, LocksAreHeld
<1>4. (\A t \in Threads : ThreadOK(thread[t]))' /\ (\A t \in Threads : Private(t))'
  BY DEF IInv, ThreadOK, Private, HasClaim
<1> QED BY <1>1, <1>2, <1>3, <1>4 DEF IInv, TableIsSound

LEMMA StepHolds == IInv /\ [HttpNext]_httpVars => IInv'
<1> SUFFICES ASSUME IInv, [HttpNext]_httpVars PROVE IInv'
  OBVIOUS
<1>1. ASSUME NEW t \in Handlers, Arrive(t) PROVE IInv'
  <2>1. CASE BeginInitialize(t)
    BY <2>1, PruneKeeps DEF BeginInitialize
  <2>2. CASE BeginRequest(t)
    BY <2>2, PruneKeeps DEF BeginRequest
  <2>3. CASE Delete(t)
    BY <2>3, DeleteKeeps
  <2> QED BY <1>1, <2>1, <2>2, <2>3 DEF Arrive
<1>2. ASSUME NEW t \in Threads, Proceed(t) PROVE IInv'
  BY <1>2, CloseRecordKeeps, CreateRefusedKeeps, CreateKeeps, InitializeKeeps,
     InitializeFailsKeeps, RemoveFailedKeeps, RefuseKeeps, ClaimRefusedKeeps, ClaimKeeps,
     LockKeeps, DispatchedKeeps, AnswerKeeps, ReleaseKeeps DEF Proceed
<1>3. CASE Close
  BY <1>3, CloseKeeps
<1>4. CASE ClockTick
  <2>1. now' \in Times
    BY <1>4, LimitsAssumption DEF ClockTick, IInv, TableIsSound, HttpTypes, Times
  <2> QED BY <1>4, <2>1, StillKeeps DEF ClockTick
<1>5. CASE UNCHANGED httpVars
  <2>1. now' \in Times
    BY <1>5 DEF httpVars, IInv, TableIsSound, HttpTypes
  <2> QED BY <1>5, <2>1, StillKeeps DEF httpVars
<1> QED BY <1>1, <1>2, <1>3, <1>4, <1>5 DEF HttpNext

LEMMA InvariantHolds == HttpSpec => []IInv
<1>1. HttpInit => IInv
  BY InitHolds
<1>2. IInv /\ [HttpNext]_httpVars => IInv'
  BY StepHolds
<1> QED BY <1>1, <1>2, PTL DEF HttpSpec

\* After every step of every handler, of the shutdown and of the clock, the
\* table respects its limit, a closed server has no session, and the count of
\* each session is the number of requests that have claimed it and not given it
\* back, on every path through do_POST.
THEOREM TableTheorem == HttpSpec => []TableIsSound
<1>1. IInv => TableIsSound
  BY DEF IInv
<1> QED BY <1>1, InvariantHolds, PTL

\* From the step that takes a session out of the table because it expired or is
\* the oldest idle one to the close of its runtime, no request has a claim on it.
THEOREM ReapingTheorem == HttpSpec => []OnlyIdleAreReaped
<1>1. IInv => OnlyIdleAreReaped
  BY DEF IInv
<1> QED BY <1>1, InvariantHolds, PTL

-----------------------------------------------------------------------------
(* What is closed under an initialize.                                      *)

\* The thread has claimed a session it is creating.
Birthing(h) == h.at = "initialize" \/ (h.at = "closing" /\ h.then = "initialize")

\* The thread closes what a deletion or a failed initialize has taken out.
Removing(h) == h.at = "closing" /\ h.then \in {"idle", "refuse"}

\* Nobody but the shutdown has a session to close that is still being created.
Spared ==
    \A u \in Threads \ {Main}, t \in Threads :
        Removing(thread[u]) /\ Birthing(thread[t]) => thread[t].id \notin thread[u].todo

\* What a thread has to close after it has taken sessions out of the table.
LEMMA PruneGoesTo ==
    ASSUME HttpTypes, NEW t \in Threads, BeginInitialize(t) \/ BeginRequest(t)
    PROVE  \E id, todo, then : /\ then = "create" \/ then = "claim"
                              /\ thread'[t] = ClosingThen(id, todo, then)
<1>0. t \in DOMAIN thread
  BY DEF HttpTypes
<1>1. CASE BeginInitialize(t)
  <2>1. thread' = [thread EXCEPT ![t] = ClosingThen(0, Expired, "create")]
    BY <1>1 DEF BeginInitialize, Prune
  <2> QED BY <1>0, <2>1
<1>2. CASE BeginRequest(t)
  <2>1. PICK id : Prune(t, id, "claim")
    BY <1>2 DEF BeginRequest
  <2>2. thread' = [thread EXCEPT ![t] = ClosingThen(id, Expired, "claim")]
    BY <2>1 DEF Prune
  <2> QED BY <1>0, <2>2
<1> QED BY <1>1, <1>2

LEMMA RemovalGoesTo ==
    ASSUME HttpTypes, NEW t \in Threads, NEW id, NEW why, NEW then, RemoveSession(t, id, why, then)
    PROVE  thread'[t] = ClosingThen(id, sessions \cap {id}, then)
<1>0. t \in DOMAIN thread
  BY DEF HttpTypes
<1> QED BY <1>0 DEF RemoveSession

\* A thread only goes on to initialize from there, or with a new session.
LEMMA BirthStep ==
    ASSUME IInv, NEW t \in Threads, Proceed(t) \/ Arrive(t), NEW h, h = thread'[t], Birthing(h)
    PROVE  \/ Birthing(thread[t]) /\ h.id = thread[t].id
           \/ h.id = last + 1
<1>1. thread \in [Threads -> ThreadType] /\ ThreadOK(thread[t])
  BY Parts DEF HttpTypes, ThreadType
<1>2. CASE CloseRecord(t)
  <2>1. PICK todo : thread'[t] = ClosingThen(thread[t].id, todo, thread[t].then)
    BY <1>1, <1>2 DEF CloseRecord
  <2>2. h.id = thread[t].id /\ thread[t].then = "initialize"
    BY <2>1, ClosingThenIs DEF Birthing, Idle
  <2> QED BY <1>2, <2>2 DEF CloseRecord, Birthing
<1>3. CASE Create(t)
  <2>1. PICK todo : thread'[t] = ClosingThen(last + 1, todo, "initialize")
    BY <1>1, <1>3 DEF Create
  <2> QED BY <2>1, ClosingThenIs
<1>4. CASE Arrive(t) \/ RemoveFailed(t)
  <2>1. HttpTypes
    BY Parts
  <2>2. \E id, todo, then : /\ then = "create" \/ then = "claim" \/ then = "idle" \/ then = "refuse"
                           /\ thread'[t] = ClosingThen(id, todo, then)
    <3>1. CASE BeginInitialize(t) \/ BeginRequest(t)
      BY <2>1, <3>1, PruneGoesTo
    <3>2. CASE Delete(t)
      <4>1. PICK id, why : RemoveSession(t, id, why, "idle")
        BY <3>2, Zenon DEF Delete
      <4>2. thread'[t] = ClosingThen(id, sessions \cap {id}, "idle")
        BY <2>1, <4>1, RemovalGoesTo
      <4> QED BY <4>2, Zenon
    <3>3. CASE RemoveFailed(t)
      <4>1. thread[t].then = "idle" \/ thread[t].then = "refuse"
        BY <1>1, <3>3 DEF RemoveFailed, ThreadOK
      <4>2. PICK why : RemoveSession(t, thread[t].id, why, thread[t].then)
        BY <3>3, Zenon DEF RemoveFailed
      <4>3. thread'[t] = ClosingThen(thread[t].id, sessions \cap {thread[t].id}, thread[t].then)
        BY <2>1, <4>2, RemovalGoesTo
      <4> QED BY <4>1, <4>3, Zenon
    <3> QED BY <1>4, <3>1, <3>2, <3>3 DEF Arrive
  <2> QED BY <2>2, ClosingThenIs DEF Birthing, Idle
<1>5. CASE CreateRefused(t) \/ ClaimRefused(t) \/ Release(t)
  BY <1>1, <1>5 DEF CreateRefused, ClaimRefused, Release, Done, Birthing, Idle
<1>6. CASE Initialize(t) \/ Claim(t) \/ Lock(t) \/ Dispatched(t) \/ Answer(t)
  <2>1. PICK step \in {"answer", "lock", "dispatch", "release"} :
            thread' = [thread EXCEPT ![t].at = step]
    BY <1>6 DEF Initialize, Claim, Lock, Dispatched, Answer, Goto
  <2>2. h.at = step
    BY <1>1, <2>1 DEF ThreadType
  <2> QED BY <2>2 DEF Birthing
<1>7. CASE InitializeFails(t) \/ Refuse(t)
  <2>1. h = Idle \/ h.at = "remove"
    <3>1. \/ thread' = [thread EXCEPT ![t] = Idle]
          \/ \E then : thread' = [thread EXCEPT ![t].at = "remove", ![t].then = then]
      BY <1>7 DEF InitializeFails, Refuse, Done
    <3> QED BY <1>1, <3>1 DEF ThreadType
  <2> QED BY <2>1 DEF Birthing, Idle
<1> QED BY <1>2, <1>3, <1>4, <1>5, <1>6, <1>7 DEF Proceed

\* A thread only goes on to close what it had to close, or a session that some
\* client knows, or one that it has itself failed to create.
LEMMA RemovingStep ==
    ASSUME IInv, NEW u \in Threads, Proceed(u) \/ Arrive(u), NEW h, h = thread'[u], Removing(h)
    PROVE  \/ Removing(thread[u]) /\ h.todo \subseteq thread[u].todo
           \/ h.todo \subseteq told \cup Strangers
           \/ Founding(thread[u]) /\ h.todo \subseteq {thread[u].id}
<1>1. thread \in [Threads -> ThreadType] /\ ThreadOK(thread[u])
  BY Parts DEF HttpTypes, ThreadType
<1>2. CASE CloseRecord(u)
  <2>1. PICK i : thread'[u] = ClosingThen(thread[u].id, thread[u].todo \ {i}, thread[u].then)
    BY <1>1, <1>2 DEF CloseRecord
  <2>2. h.todo \subseteq thread[u].todo
    BY <2>1, ClosingThenIs DEF Idle
  <2>3. thread[u].then \in {"idle", "refuse"}
    BY <2>1, <1>1, <1>2, ClosingThenIs DEF Idle, Removing, CloseRecord, ThreadOK
  <2> QED BY <1>2, <2>2, <2>3 DEF CloseRecord, Removing
<1>3. CASE Create(u)
  <2>1. PICK todo : thread'[u] = ClosingThen(last + 1, todo, "initialize")
    BY <1>1, <1>3 DEF Create
  <2> QED BY <2>1, ClosingThenIs DEF Removing
<1>4. CASE BeginInitialize(u) \/ BeginRequest(u)
  <2>1. \E id, todo, then : /\ then = "create" \/ then = "claim"
                           /\ thread'[u] = ClosingThen(id, todo, then)
    BY <1>4, Parts, PruneGoesTo
  <2> QED BY <2>1, ClosingThenIs DEF Removing
<1>5. CASE Delete(u)
  <2>1. PICK id \in told \cup Strangers : thread'[u] = ClosingThen(id, sessions \cap {id}, "idle")
    <3>1. PICK id \in told \cup Strangers : RemoveSession(u, id, "deleted", "idle")
      BY <1>5, Zenon DEF Delete
    <3> QED BY <3>1, Parts, RemovalGoesTo
  <2>2. h.todo \subseteq {id}
    BY <2>1, ClosingThenIs DEF Idle
  <2> QED BY <2>1, <2>2
<1>6. CASE RemoveFailed(u)
  <2>1. PICK then : thread'[u] = ClosingThen(thread[u].id, sessions \cap {thread[u].id}, then)
    <3>1. PICK why : RemoveSession(u, thread[u].id, why, thread[u].then)
      BY <1>6, Zenon DEF RemoveFailed
    <3> QED BY <3>1, Parts, RemovalGoesTo
  <2>2. h.todo \subseteq {thread[u].id}
    BY <2>1, ClosingThenIs DEF Idle
  <2> QED BY <1>6, <2>2 DEF RemoveFailed, Founding
<1>7. CASE CreateRefused(u) \/ ClaimRefused(u) \/ Release(u)
  BY <1>1, <1>7 DEF CreateRefused, ClaimRefused, Release, Done, Removing, Idle
<1>8. CASE Initialize(u) \/ Claim(u) \/ Lock(u) \/ Dispatched(u) \/ Answer(u)
  <2>1. PICK step \in {"answer", "lock", "dispatch", "release"} :
            thread' = [thread EXCEPT ![u].at = step]
    BY <1>8 DEF Initialize, Claim, Lock, Dispatched, Answer, Goto
  <2>2. h.at = step
    BY <1>1, <2>1 DEF ThreadType
  <2> QED BY <2>2 DEF Removing
<1>9. CASE InitializeFails(u) \/ Refuse(u)
  <2>1. h = Idle \/ h.at = "remove"
    <3>1. \/ thread' = [thread EXCEPT ![u] = Idle]
          \/ \E then : thread' = [thread EXCEPT ![u].at = "remove", ![u].then = then]
      BY <1>9 DEF InitializeFails, Refuse, Done
    <3> QED BY <1>1, <3>1 DEF ThreadType
  <2> QED BY <2>1 DEF Removing, Idle
<1> QED BY <1>2, <1>3, <1>4, <1>5, <1>6, <1>7, <1>8, <1>9 DEF Proceed, Arrive

LEMMA SparedHolds == IInv /\ Spared /\ [HttpNext]_httpVars => Spared'
<1> SUFFICES ASSUME IInv, Spared, [HttpNext]_httpVars, NEW u \in Threads \ {Main}, NEW t \in Threads,
                    Removing(thread'[u]), Birthing(thread'[t])
             PROVE  thread'[t].id \notin thread'[u].todo
  BY DEF Spared, Removing, Birthing
<1>1. /\ thread \in [Threads -> ThreadType] /\ HttpTypes /\ t # u /\ Main \in Threads
      /\ ThreadOK(thread[t]) /\ ThreadOK(thread[u]) /\ Private(t) /\ Private(u)
  BY Parts DEF HttpTypes, ThreadType, Removing, Birthing, Threads
<1>2. CASE thread'[u] = thread[u] /\ thread'[t] = thread[t]
  BY <1>2 DEF Spared
<1>3. ASSUME Proceed(t) \/ Arrive(t), thread'[u] = thread[u] PROVE thread'[t].id \notin thread'[u].todo
  <2>1. CASE Birthing(thread[t]) /\ thread'[t].id = thread[t].id
    BY <1>3, <2>1 DEF Spared
  <2>2. CASE thread'[t].id = last + 1
    BY <1>1, <1>3, <2>2, TypesOf DEF ThreadOK
  <2> QED BY <1>3, <2>1, <2>2, BirthStep
<1>4. ASSUME Proceed(u) \/ Arrive(u), thread'[t] = thread[t] PROVE thread'[t].id \notin thread'[u].todo
  <2>0. Birthing(thread[t]) /\ HasClaim(t) /\ Founding(thread[t])
    BY <1>4 DEF Birthing, HasClaim, Founding
  <2>1. CASE Removing(thread[u]) /\ thread'[u].todo \subseteq thread[u].todo
    BY <1>4, <2>0, <2>1 DEF Spared
  <2>2. CASE thread'[u].todo \subseteq told \cup Strangers
    <3>1. thread[t].id \in SessionIds
      BY <1>1, <2>0, TypesOf DEF ThreadOK, Founding
    <3> QED BY <1>1, <1>4, <2>0, <2>2, <3>1, Finite DEF Private
  <2>3. CASE Founding(thread[u]) /\ thread'[u].todo \subseteq {thread[u].id}
    BY <1>1, <1>4, <2>0, <2>3 DEF Private
  <2> QED BY <1>4, <2>1, <2>2, <2>3, RemovingStep
<1>5. ASSUME NEW v \in Threads, Proceed(v) \/ Arrive(v)
      PROVE  thread'[t].id \notin thread'[u].todo
  <2>1. \A w \in Threads \ {v} : thread'[w] = thread[w]
    <3>1. \E h : thread' = [thread EXCEPT ![v] = h]
      BY <1>5 DEF Proceed, Arrive, BeginInitialize, BeginRequest, Prune, Delete, RemoveSession,
         CloseRecord, CreateRefused, Create, Initialize, InitializeFails, RemoveFailed, Refuse,
         ClaimRefused, Claim, Lock, Dispatched, Answer, Release, Goto, Done
    <3> QED BY <1>1, <3>1
  <2>2. CASE v = t
    BY <1>1, <1>3, <1>5, <2>1, <2>2
  <2>3. CASE v = u
    BY <1>1, <1>4, <1>5, <2>1, <2>3
  <2>4. CASE v # t /\ v # u
    BY <1>1, <1>2, <2>1, <2>4
  <2> QED BY <2>2, <2>3, <2>4
<1>6. CASE Close
  <2>1. thread'[u] = thread[u]
    BY <1>1, <1>6 DEF Close
  <2>2. CASE t # Main
    BY <1>1, <1>2, <1>6, <2>1, <2>2 DEF Close
  <2>3. CASE t = Main
    <3>1. PICK todo : thread'[t] = ClosingThen(0, todo, "idle")
      BY <1>1, <1>6, <2>3 DEF Close
    <3> QED BY <3>1, ClosingThenIs DEF Birthing, Idle
  <2> QED BY <2>2, <2>3
<1>7. CASE ClockTick \/ UNCHANGED httpVars
  BY <1>2, <1>7 DEF ClockTick, httpVars
<1> QED BY <1>5, <1>6, <1>7 DEF HttpNext, Threads

\* A runtime is closed by a thread that has it to close, when no request has the
\* lock of its session.
LEMMA CloseWaits ==
    ASSUME IInv, [HttpNext]_httpVars, NEW id \in SessionIds,
           rec[id].runtime = "open", rec'[id].runtime = "closed"
    PROVE  rec[id].lock = Nobody /\ \E v \in Threads : CloseRecord(v) /\ id \in thread[v].todo
<1>1. HttpTypes /\ rec \in [SessionIds -> RecordType] /\ rec' # rec
  <2>1. HttpTypes
    BY Parts
  <2>2. rec' # rec
    OBVIOUS
  <2> QED BY <2>1, <2>2, TypesOf
<1>2. PICK t \in Threads : Proceed(t)
  <2>1. ~\E t \in Handlers : Arrive(t)
    BY <1>1 DEF Arrive, BeginInitialize, BeginRequest, Delete, Prune, RemoveSession
  <2> QED BY <2>1, <1>1 DEF HttpNext, Close, ClockTick, httpVars
<1>3. CASE CloseRecord(t)
  <2> DEFINE i == CHOOSE k \in thread[t].todo : \A j \in thread[t].todo : k <= j
  <2>1. rec[i].lock = Nobody /\ rec' = [rec EXCEPT ![i].runtime = "closed"]
    BY <1>3 DEF CloseRecord
  <2>2. i \in thread[t].todo
    <3> PICK todo : todo = thread[t].todo
      OBVIOUS
    <3>1. todo \subseteq Nat /\ todo # {}
      BY <1>3, Parts, Finite DEF ThreadOK, ThreadType, CloseRecord
    <3>2. \E k \in todo : \A j \in todo : k <= j
      BY <3>1, Least
    <3> QED BY <3>2
  <2> HIDE DEF i
  <2>3. i = id
    BY <1>1, <2>1
  <2> QED BY <1>3, <2>1, <2>2, <2>3
<1>4. CASE Create(t)
  <2>1. rec' = [rec EXCEPT ![last + 1] =
                    [Unborn EXCEPT !.runtime = "open", !.born = thread[t].clock,
                                   !.seen = thread[t].clock, !.active = 1]]
    BY <1>4 DEF Create
  <2>2. rec'[id].runtime # "closed"
    BY <1>1, <2>1 DEF Unborn
  <2> QED BY <2>2
<1>5. CASE InitializeFails(t) \/ Refuse(t) \/ Release(t)
  <2>1. rec' = Released(thread[t].id)
    BY <1>1, <1>5 DEF InitializeFails, Refuse, Release
  <2>2. Released(thread[t].id)[id].runtime = rec[id].runtime
    BY <1>1 DEF Released
  <2> QED BY <2>1, <2>2
<1>6. CASE Claim(t) \/ Lock(t) \/ Dispatched(t)
  <2> DEFINE k == thread[t].id
  <2>1. \/ rec' = [rec EXCEPT ![k].active = rec[k].active + 1, ![k].seen = now]
        \/ rec' = [rec EXCEPT ![k].lock = t]
        \/ rec' = [rec EXCEPT ![k].lock = Nobody]
    BY <1>6 DEF Claim, Lock, Dispatched
  <2> HIDE DEF k
  <2>2. CASE rec' = [rec EXCEPT ![k].active = rec[k].active + 1, ![k].seen = now]
    <3> DEFINE q == [rec EXCEPT ![k].active = rec[k].active + 1]
    <3>1. q[id].runtime = rec[id].runtime /\ DOMAIN q = SessionIds
      BY <1>1
    <3>2. rec' = [q EXCEPT ![k].seen = now]
      BY <2>2
    <3> HIDE DEF q
    <3> QED BY <3>1, <3>2
  <2>3. CASE rec' = [rec EXCEPT ![k].lock = t]
    BY <1>1, <2>3
  <2>4. CASE rec' = [rec EXCEPT ![k].lock = Nobody]
    BY <1>1, <2>4
  <2> QED BY <2>1, <2>2, <2>3, <2>4
<1>7. CASE CreateRefused(t) \/ Initialize(t) \/ ClaimRefused(t) \/ Answer(t) \/ RemoveFailed(t)
  BY <1>1, <1>7 DEF CreateRefused, Initialize, ClaimRefused, Answer, RemoveFailed, RemoveSession
<1> QED BY <1>2, <1>3, <1>4, <1>5, <1>6, <1>7 DEF Proceed

\* In every step at most one request is in the runtime of a session, initialize
\* included, and whatever closes the runtime of a session closes it under no
\* request; only the shutdown may close it under the initialize that creates it.
THEOREM DispatchTheorem == HttpSpec => DispatchIsAlone
<1>1. ASSUME IInv, Spared, [HttpNext]_httpVars, NEW id \in SessionIds
      PROVE  /\ Cardinality(InRuntime(id)) <= 1
             /\ rec[id].runtime = "open" /\ rec'[id].runtime = "closed" =>
                    \A t \in InRuntime(id) :
                        thread[t].at = "initialize" /\ thread'[Main] # thread[Main]
  <2>0. /\ \A t \in Threads : Private(t) /\ ThreadOK(thread[t])
        /\ OnlyIdleAreReaped /\ Nobody \notin Threads /\ thread \in [Threads -> ThreadType]
        /\ \A t \in Threads : thread[t].at = "dispatch" => rec[thread[t].id].lock = t
    BY <1>1, Parts, TypesOf DEF LocksAreHeld, HttpTypes, ThreadType
  <2>1. ASSUME NEW t \in InRuntime(id), NEW u \in InRuntime(id) PROVE t = u
    <3>1. /\ t \in Threads /\ u \in Threads /\ thread[t].id = id /\ thread[u].id = id
          /\ HasClaim(t) /\ HasClaim(u)
          /\ thread[t].at \in {"initialize", "dispatch"} /\ thread[u].at \in {"initialize", "dispatch"}
      BY <2>1 DEF InRuntime, HasClaim
    <3>2. CASE thread[t].at = "initialize" \/ thread[u].at = "initialize"
      BY <2>0, <3>1, <3>2 DEF Private, Founding
    <3>3. CASE thread[t].at = "dispatch" /\ thread[u].at = "dispatch"
      BY <2>0, <3>1, <3>3
    <3> QED BY <3>1, <3>2, <3>3
  <2>2. Cardinality(InRuntime(id)) <= 1
    <3>1. CASE InRuntime(id) = {}
      BY <3>1, FS_EmptySet
    <3>2. ASSUME NEW t \in InRuntime(id) PROVE Cardinality(InRuntime(id)) <= 1
      <4>1. InRuntime(id) = {t}
        BY <2>1, <3>2
      <4> QED BY <4>1, FS_Singleton
    <3> QED BY <3>1, <3>2
  <2>3. ASSUME rec[id].runtime = "open", rec'[id].runtime = "closed", NEW t \in InRuntime(id)
        PROVE  thread[t].at = "initialize" /\ thread'[Main] # thread[Main]
    <3>1. PICK v \in Threads : rec[id].lock = Nobody /\ CloseRecord(v) /\ id \in thread[v].todo
      BY <1>1, <2>3, CloseWaits
    <3>2. t \in Threads /\ thread[t].id = id /\ thread[t].at = "initialize"
      BY <2>0, <2>3, <3>1 DEF InRuntime
    <3>3. v = Main
      <4>1. t \in Claimants(id)
        BY <3>2 DEF Claimants, HasClaim
      <4>2. thread[v].at = "closing" /\ thread[v].then \notin {"create", "claim", "initialize"}
        BY <2>0, <3>1, <4>1 DEF OnlyIdleAreReaped, CloseRecord
      <4>3. Removing(thread[v]) /\ Birthing(thread[t])
        BY <2>0, <3>2, <4>2 DEF Removing, Birthing, ThreadOK
      <4> QED BY <1>1, <3>1, <3>2, <4>3 DEF Spared
    <3>4. thread'[Main] # thread[Main]
      <4>1. PICK i : /\ i \in thread[v].todo
                     /\ thread'[v] = ClosingThen(thread[v].id, thread[v].todo \ {i}, thread[v].then)
        <5> DEFINE k == CHOOSE k \in thread[v].todo : \A j \in thread[v].todo : k <= j
        <5>1. thread'[v] = ClosingThen(thread[v].id, thread[v].todo \ {k}, thread[v].then)
          BY <2>0, <3>1 DEF CloseRecord
        <5>2. k \in thread[v].todo
          <6> PICK todo : todo = thread[v].todo
            OBVIOUS
          <6>1. todo \subseteq Nat /\ todo # {}
            BY <2>0, <3>1, Finite DEF ThreadType
          <6>2. \E l \in todo : \A j \in todo : l <= j
            BY <6>1, Least
          <6> QED BY <6>2
        <5> HIDE DEF k
        <5> QED BY <5>1, <5>2
      <4>2. thread'[v].todo = thread[v].todo \ {i}
        BY <4>1, ClosingThenIs DEF Idle
      <4> QED BY <3>3, <4>1, <4>2
    <3> QED BY <3>2, <3>4
  <2> QED BY <2>2, <2>3
<1>2. IInv /\ Spared /\ [HttpNext]_httpVars =>
          [\A id \in SessionIds :
              /\ Cardinality(InRuntime(id)) <= 1
              /\ rec[id].runtime = "open" /\ rec'[id].runtime = "closed" =>
                     \A t \in InRuntime(id) :
                         thread[t].at = "initialize" /\ thread'[Main] # thread[Main]]_httpVars
  BY <1>1
<1>3. HttpInit => Spared
  BY DEF HttpInit, Spared, Removing, Idle
<1> QED BY <1>2, <1>3, SparedHolds, InvariantHolds, PTL DEF HttpSpec, DispatchIsAlone
=============================================================================
