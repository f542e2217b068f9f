--------------------------- MODULE RequestRegistry ---------------------------
(***************************************************************************)
(* RequestRegistry: which requests of one child are active, under which    *)
(* request id and generation, and how the ones that are over have ended.   *)
(*                                                                         *)
(* A call is one request of a client with its caller in the wrapper.  The  *)
(* caller accepts, starts, marks and ends its request in separate steps,   *)
(* each under the registry's lock, and names it by id and generation; in   *)
(* between other calls run, records go stale, generations change.          *)
(*                                                                         *)
(* A record's age is the time since its last heartbeat, up to MaxAge.  All *)
(* of FAILED, CANCELLED and TIMED_OUT are kept apart although the code     *)
(* treats them alike; NEW lasts only inside accept and RECOVERING is never *)
(* entered.  The history variable strayed only serves to state properties. *)
(***************************************************************************)
EXTENDS Naturals, FiniteSets

CONSTANTS
    Calls,
    Ids, IdOf,        \* the JSON-RPC id of a call
    ToolOf,
    OpOf,             \* the operation key of a call, or None
    WriteCalls,       \* calls whose side effect class is not READ_ONLY
    EffectCalls,      \* those of them that start a side effect
    None,
    Heartbeat,        \* heartbeat_timeout_seconds
    Ttl,              \* terminal_ttl_seconds
    MaxEntries,       \* max_entries
    MaxAge,           \* bound: ages are not told apart from here on
    MaxGeneration     \* bound: how far the transport generation goes

Keys == (1..MaxGeneration) \X Ids

LiveStates == {"ACCEPTED", "RUNNING", "COMPLETING"}

Outcomes == {"COMPLETED", "FAILED", "CANCELLED", "TIMED_OUT"}

TerminalStates == Outcomes \cup {"DISCONNECTED", "OUTCOME_UNKNOWN"}

Records == [call : Calls, state : LiveStates \cup TerminalStates, effect : BOOLEAN,
            process : BOOLEAN, age : 0..MaxAge]

ASSUME RegistryAssumption ==
    /\ IdOf \in [Calls -> Ids]
    /\ EffectCalls \subseteq WriteCalls /\ WriteCalls \subseteq Calls
    /\ None \notin Records
    /\ Heartbeat \in 1..MaxAge /\ Ttl \in 1..MaxAge
    /\ MaxAge \in Nat /\ MaxEntries \in Nat /\ MaxEntries > 0
    /\ MaxGeneration \in Nat /\ MaxGeneration > 0

VARIABLES
    gen,       \* _generation
    recs,      \* _records
    order,     \* the order of insertion of _records: pairs of an earlier key and a later one
    stage,     \* how far the caller of each call has got
    born,      \* the generation a call was accepted in
    strayed    \* history: the calls whose record a step of another call has changed

vars == <<gen, recs, order, stage, born, strayed>>

Stages == {"new", "refused", "accepted", "running", "retried", "effect", "bound",
           "completed", "ended"}

-----------------------------------------------------------------------------
KeyOf(c) == <<born[c], IdOf[c]>>

Terminal(rec) == rec.state \in TerminalStates

Live(rs, k) == rs[k] # None /\ ~Terminal(rs[k])

Stale(rec) == rec.age >= Heartbeat

Fresh(rec) == [rec EXCEPT !.age = 0]

\* _transition_locked into a terminal state: the first one stands.
Settled(rec, state) ==
    IF Terminal(rec) THEN rec ELSE [rec EXCEPT !.state = state, !.age = 0]

\* What becomes of a request that is cut off.
CutOff(rec, otherwise) ==
    Settled(rec, IF rec.effect THEN "OUTCOME_UNKNOWN" ELSE otherwise)

\* _reap_stale_read_locked: a stale read frees its slot.
Reapable(rec) ==
    Stale(rec) /\ rec.call \notin WriteCalls /\ ~rec.effect /\ ~rec.process

Reaped(rs, ks) ==
    [k \in Keys |-> IF k \in ks THEN Settled(rs[k], "DISCONNECTED") ELSE rs[k]]

Before(j, k) == <<j, k>> \in order

\* _prune_locked: terminal records go by age and then, the oldest first, until
\* no more than MaxEntries records or no terminal ones are left.
Aged(rs) ==
    [k \in Keys |-> IF rs[k] # None /\ Terminal(rs[k]) /\ rs[k].age >= Ttl
                    THEN None ELSE rs[k]]

\* Mutant: the oldest records are evicted, live or not.
EvictionsOldest(rs) ==
    LET held == {k \in Keys : rs[k] # None}
    IN  {S \in SUBSET held :
           /\ \A j \in S, k \in held \ S : ~Before(k, j)
           /\ Cardinality(held \ S) <= MaxEntries
           /\ S = {} \/ Cardinality(held \ S) >= MaxEntries}

Evictions(rs) ==
    LET held == {k \in Keys : rs[k] # None}
        over == {k \in held : Terminal(rs[k])}
    IN  {S \in SUBSET over :
           /\ \A j \in S, k \in over \ S : Before(j, k)
           /\ S = over \/ Cardinality(held \ S) <= MaxEntries
           /\ S = {} \/ Cardinality(held \ S) >= MaxEntries}

Without(rs, S) == [k \in Keys |-> IF k \in S THEN None ELSE rs[k]]

Evicted(rs) == {Without(rs, S) : S \in Evictions(rs)}

Pruned(rs) == Evicted(Aged(rs))

\* The records become rs; those that are left keep the given order.
Put(rs, given) ==
    /\ recs' = rs
    /\ order' = {p \in given : rs[p[1]] # None /\ rs[p[2]] # None}

\* A key is inserted after all others.
Last(key) == {p \in order : key \notin {p[1], p[2]}} \cup ((Keys \ {key}) \X {key})

Init ==
    /\ gen = 1
    /\ recs = [k \in Keys |-> None]
    /\ order = {}
    /\ stage = [c \in Calls |-> "new"]
    /\ born = [c \in Calls |-> 1]
    /\ strayed = {}

-----------------------------------------------------------------------------
(* accept.                                                                 *)

\* A record that does not stand in the way of a new call with its key: a stale
\* read, a completed request, a failed read when the new call is a read too,
\* or the end of a call of another tool.
Reusable(rec, c) ==
    \/ Reapable(rec)
    \/ /\ Terminal(rec)
       /\ \/ rec.state = "COMPLETED"
          \/ {rec.call, c} \cap WriteCalls = {} /\ ~rec.effect
          \/ ToolOf[rec.call] # ToolOf[c]

\* Mutant: a request that has been accepted but not started is overlooked.
RunningOperation(rs, c) ==
    {k \in Keys : /\ rs[k] # None /\ rs[k].state = "RUNNING" /\ k[1] = gen
                  /\ OpOf[c] # None /\ OpOf[rs[k].call] = OpOf[c]}

SameOperation(rs, c) ==
    {k \in Keys : /\ Live(rs, k) /\ k[1] = gen
                  /\ OpOf[c] # None /\ OpOf[rs[k].call] = OpOf[c]}

\* The stale read under the new call's own key is reaped first.
KeyReaped(rs, key) ==
    Reaped(rs, {k \in {key} : rs[k] # None /\ Reapable(rs[k])})

Blockers(rs, c) == {k \in SameOperation(rs, c) : ~Reapable(rs[k])}

\* Mutant: accept leaves the record in its first state.
UnacceptedRecord(c) ==
    [call |-> c, state |-> "NEW", effect |-> FALSE, process |-> FALSE, age |-> 0]

NewRecord(c) ==
    [call |-> c, state |-> "ACCEPTED", effect |-> FALSE, process |-> FALSE, age |-> 0]

\* A new record takes the place of an old one in the order of insertion.
Accept(c) ==
    LET key == <<gen, IdOf[c]>>
    IN  /\ stage[c] = "new"
        /\ \E rs \in Pruned(recs) :
              LET freed == KeyReaped(rs, key)
                  added == [Reaped(freed, SameOperation(freed, c)) EXCEPT ![key] = NewRecord(c)]
              IN  /\ rs[key] # None => Reusable(rs[key], c)
                  /\ Blockers(freed, c) = {}
                  /\ \E left \in Evicted(added) :
                        Put(left, IF rs[key] # None THEN order ELSE Last(key))
        /\ stage' = [stage EXCEPT ![c] = "accepted"]
        /\ born' = [born EXCEPT ![c] = gen]
        /\ UNCHANGED <<gen, strayed>>

\* RequestConflict: what has been pruned and reaped on the way stays so.  The
\* scan of the operation's records ends at the first one in the way.
AcceptRefused(c) ==
    LET key == <<gen, IdOf[c]>>
    IN  /\ stage[c] = "new"
        /\ \E rs \in Pruned(recs) :
              LET freed == KeyReaped(rs, key)
                  passed == {k \in SameOperation(freed, c) :
                               \A j \in Blockers(freed, c) : Before(k, j)}
              IN  \/ /\ rs[key] # None /\ ~Reusable(rs[key], c)
                     /\ Put(rs, order)
                  \/ /\ rs[key] # None => Reusable(rs[key], c)
                     /\ Blockers(freed, c) # {}
                     /\ Put(Reaped(freed, passed), order)
        /\ stage' = [stage EXCEPT ![c] = "refused"]
        /\ UNCHANGED <<gen, born, strayed>>

-----------------------------------------------------------------------------
(* The steps of a caller.  Each looks the record up by id and generation,  *)
(* whoever's it is by then (the id may have been used again for another    *)
(* call); a KeyError or an invalid transition ends it.                     *)

Found(c) == recs[KeyOf(c)] # None

Change(c, rec) ==
    /\ Put([recs EXCEPT ![KeyOf(c)] = rec], order)
    /\ strayed' = strayed \cup ({recs[KeyOf(c)].call} \ {c})

Step(c, from, to) ==
    /\ stage[c] \in from
    /\ stage' = [stage EXCEPT ![c] = to]
    /\ UNCHANGED <<gen, born>>

\* start: the heartbeat comes before the transition that may be refused.
Start(c) ==
    /\ Found(c)
    /\ LET rec == recs[KeyOf(c)]
       IN  \/ /\ rec.state = "ACCEPTED"
              /\ Step(c, {"accepted"}, "running")
              /\ Change(c, [Fresh(rec) EXCEPT !.state = "RUNNING"])
           \/ /\ rec.state # "ACCEPTED"
              /\ Step(c, {"accepted"}, "ended")
              /\ Change(c, Fresh(rec))

\* mark_retry: one retry of a protocol request.
Retry(c) ==
    /\ Found(c) /\ c \notin WriteCalls
    /\ Step(c, {"running"}, "retried")
    /\ Change(c, IF Terminal(recs[KeyOf(c)]) THEN recs[KeyOf(c)] ELSE Fresh(recs[KeyOf(c)]))

\* mark_side_effect_started asks nothing of the record's state.
MarkSideEffectStarted(c) ==
    /\ Found(c) /\ c \in EffectCalls
    /\ Step(c, {"running"}, "effect")
    /\ Change(c, [Fresh(recs[KeyOf(c)]) EXCEPT !.effect = TRUE])

\* A record that is gone: start and mark_side_effect_started fail the call
\* before its tool runs, the later steps are ignored.
Lost(c) ==
    /\ ~Found(c)
    /\ Step(c, {"accepted", "running", "retried", "effect", "bound"}, "ended")
    /\ UNCHANGED <<recs, order, strayed>>

\* attach_process, of a tool that leaves a process behind; complete follows.
AttachProcess(c) ==
    /\ Found(c)
    /\ Step(c, {"effect"}, "bound")
    /\ Change(c, [Fresh(recs[KeyOf(c)]) EXCEPT !.process = TRUE])

MarkCompleting(c) ==
    /\ Found(c) /\ recs[KeyOf(c)].state = "RUNNING"
    /\ Step(c, {"running", "retried", "effect"}, stage[c])
    /\ Change(c, [Fresh(recs[KeyOf(c)]) EXCEPT !.state = "COMPLETING"])

\* The stages in which the tool of a call may be over.
Over(c) == IF c \in EffectCalls THEN {"effect"} ELSE {"running", "retried"}

\* complete, fail, cancel and timeout.
Finish(c, state) ==
    /\ Found(c)
    /\ Step(c, Over(c) \cup (IF state = "COMPLETED" THEN {"bound"} ELSE {}),
            IF state = "COMPLETED" THEN "completed" ELSE "ended")
    /\ Change(c, Settled(recs[KeyOf(c)], state))

Disconnect(c) ==
    /\ Found(c)
    /\ Step(c, Over(c), "ended")
    /\ Change(c, CutOff(recs[KeyOf(c)], "DISCONNECTED"))

\* complete_key: an answer of an earlier generation is turned away.
CompleteKey(c) ==
    /\ Found(c)
    /\ Step(c, Over(c), "completed")
    /\ IF born[c] = gen THEN Change(c, Settled(recs[KeyOf(c)], "COMPLETED"))
                        ELSE UNCHANGED <<recs, order, strayed>>

-----------------------------------------------------------------------------
RetireGeneration ==
    /\ gen < MaxGeneration
    /\ LET cut == [k \in Keys |-> IF Live(recs, k) /\ k[1] = gen
                                  THEN CutOff(recs[k], "DISCONNECTED") ELSE recs[k]]
       IN  \E rs \in Pruned(cut) : Put(rs, order)
    /\ gen' = gen + 1
    /\ UNCHANGED <<stage, born, strayed>>

\* Mutant: a stale write that has not marked its effect is cut off too.
ReconciledAnyWrite(rec, alive) ==
    IF ~Stale(rec) \/ (rec.process /\ alive) THEN rec ELSE CutOff(rec, "TIMED_OUT")

\* What reconcile makes of a live record, given whether its process is alive.
Reconciled(rec, alive) ==
    IF ~Stale(rec) \/ (rec.process /\ alive) THEN rec
    ELSE IF rec.process THEN CutOff(rec, "TIMED_OUT")
    ELSE IF rec.effect \/ Reapable(rec) THEN CutOff(rec, "DISCONNECTED")
    ELSE rec

\* reconcile has no timer: it is run at the beginning of another call's request,
\* as long as there is one.
Reconcile ==
    \E alive \in SUBSET {k \in Keys : Live(recs, k) /\ recs[k].process},
       rs \in Pruned(recs) :
          LET settled == [k \in Keys |-> IF Live(rs, k) THEN Reconciled(rs[k], k \in alive)
                                         ELSE rs[k]]
          IN  /\ \E left \in Pruned(settled) : Put(left, order)
              /\ UNCHANGED <<gen, stage, born, strayed>>

Tick ==
    /\ \E k \in Keys : recs[k] # None /\ recs[k].age < MaxAge
    /\ Put([k \in Keys |-> IF recs[k] # None /\ recs[k].age < MaxAge
                           THEN [recs[k] EXCEPT !.age = @ + 1] ELSE recs[k]], order)
    /\ UNCHANGED <<gen, stage, born, strayed>>

CallStep(c) ==
    \/ Accept(c) \/ AcceptRefused(c) \/ Start(c) \/ Retry(c) \/ Lost(c)
    \/ MarkSideEffectStarted(c) \/ AttachProcess(c) \/ MarkCompleting(c)
    \/ \E state \in Outcomes : Finish(c, state)
    \/ Disconnect(c) \/ CompleteKey(c)

Next == (\E c \in Calls : CallStep(c)) \/ RetireGeneration \/ Reconcile \/ Tick

Spec == Init /\ [][Next]_vars

-----------------------------------------------------------------------------
(* Properties.                                                             *)

\* Every variable has its type: records are records of their keys' calls.
TypeOK ==
    /\ gen \in 1..MaxGeneration
    /\ recs \in [Keys -> Records \cup {None}]
    /\ order \in SUBSET (Keys \X Keys)
    /\ stage \in [Calls -> Stages]
    /\ born \in [Calls -> 1..MaxGeneration]
    /\ strayed \in SUBSET Calls

\* task_poll and task_stop of one command: whatever goes stale, is reaped or
\* retired in between, two live requests of the current generation never have
\* the same operation key.
OneLivePerOperation ==
    \A j, k \in Keys :
        /\ j # k /\ Live(recs, j) /\ Live(recs, k) /\ j[1] = gen /\ k[1] = gen
        /\ OpOf[recs[j].call] # None
        => OpOf[recs[j].call] # OpOf[recs[k].call]

\* However full the registry and whichever ids are used again, no step of a
\* call takes the record of a live request away: neither the prunings of
\* accept nor the reuse of an id touches it, unless it is a read whose
\* heartbeat has run out.
LiveRecordsAreKept ==
    [][\A k \in Keys :
          stage' # stage /\ Live(recs, k) /\ ~Reapable(recs[k])
             => recs'[k] # None /\ recs'[k].call = recs[k].call]_vars

\* While the tool of a call is under way and its side effect may have begun,
\* no pruning, reaping, reconciliation or reuse of an id ends its request as if
\* nothing had happened: a settled one says OUTCOME_UNKNOWN.  (In the current
\* generation: a change of it ends every request as DISCONNECTED.  A record is
\* exempt once the caller of an earlier request with the same id, still on its
\* way, has taken it for its own.)
EffectIsNotUnderstated ==
    \A k \in Keys :
        /\ k[1] = gen /\ recs[k] # None /\ recs[k].effect /\ Terminal(recs[k])
        /\ recs[k].call \notin strayed
        /\ stage[recs[k].call] \in {"effect", "bound"}
        => recs[k].state = "OUTCOME_UNKNOWN"

\* The records are well formed, and none of them understates an effect.
RecordsAreSound == TypeOK /\ EffectIsNotUnderstated
==============================================================================
