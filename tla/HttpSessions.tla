---------------------------- MODULE HttpSessions ----------------------------
(* The sessions of the Streamable HTTP transport (transport_http.py): one   *)
(* WrapperHTTPSessionManager, the threads that handle POST and DELETE, and  *)
(* the thread that shuts the server down. The table of sessions is guarded  *)
(* by the manager's lock, each session's runtime by a lock of its own; a    *)
(* step is what a thread does under the manager's lock, or one use of a     *)
(* runtime. Between two steps of a thread every other thread may run.       *)
EXTENDS Integers, FiniteSets, Sequences

CONSTANTS
    Nobody,          \* no thread
    Handlers,      \* handler threads; process_request admits no more of them
    Main,          \* the thread that calls server_close
    Strangers,     \* session ids of an earlier server that clients still use
    MaxSessions, SessionTtl, MaxRetired, MaxCreations, Window,  \* the manager's limits
    MaxIds, MaxTime                                      \* bounds of the model

ASSUME LimitsAssumption ==
    /\ MaxSessions \in Nat \ {0} /\ MaxRetired \in Nat \ {0}
    /\ MaxCreations \in Nat \ {0} /\ SessionTtl \in Nat \ {0} /\ Window \in Nat \ {0}
    /\ MaxIds \in Nat /\ MaxTime \in Nat

ASSUME NamesAssumption ==
    /\ Main \notin Handlers /\ Nobody \notin Handlers \cup {Main}
    /\ Strangers \subseteq Int \ (1..MaxIds)
    /\ IsFiniteSet(Handlers)

VARIABLES
    now,       \* the clock
    closed,    \* _closed
    sessions,  \* the keys of _sessions
    rec,       \* the records, also of sessions that have left the table
    retired,   \* _retired: ids with a reason and their age, the newest is 0
    created,   \* _session_creation_times
    last,      \* _next_session_sequence
    told,      \* the ids that clients have been told
    thread     \* what each thread is doing

httpVars == <<now, closed, sessions, rec, retired, created, last, told, thread>>

Threads == Handlers \cup {Main}
SessionIds == 1..MaxIds
Times == 0..MaxTime
Reasons == {"expired", "evicted", "deleted", "initialization failed", "transport closed"}

\* A record: its runtime, the two times, the claims on it and its lock.
Unborn == [runtime |-> "none", born |-> 0, seen |-> 0, active |-> 0, lock |-> Nobody]

\* A thread: the step it is at, the session it is about, the records it has
\* taken out of the table and has still to close, the step it goes on with
\* after that, and the time it has read for a new session.
Idle == [at |-> "idle", id |-> 0, todo |-> {}, then |-> "idle", clock |-> 0]

HttpInit ==
    /\ now = 0 /\ closed = FALSE /\ sessions = {} /\ retired = {}
    /\ created = <<>> /\ last = 0 /\ told = {}
    /\ rec = [id \in SessionIds |-> Unborn]
    /\ thread = [t \in Threads |-> Idle]

-----------------------------------------------------------------------------
(* Operations of the manager.                                              *)

\* The history with ids as its newest entries, and no limit; an id remembered
\* again loses its old place, and older sessions are remembered before younger.
Recalled(ids, why) ==
    LET kept == {e \in retired : e.id \notin ids}
    IN  {[id |-> id, why |-> why, age |-> Cardinality({i \in ids : i > id})] : id \in ids}
        \cup {[e EXCEPT !.age = Cardinality(ids) + Cardinality({f \in kept : f.age < e.age})] :
                   e \in kept}

\* A plausible mistake for Remember: the history is not trimmed.
RememberForever(ids, why) == Recalled(ids, why)

\* _remember_retired for each of ids: the oldest entries are forgotten.
Remember(ids, why) == {e \in Recalled(ids, why) : e.age < MaxRetired}

IsRetired(id) == \E e \in retired : e.id = id

\* A plausible mistake for Expired: a long request does not count as activity.
ExpiredAnyhow == {id \in sessions : now - rec[id].seen >= SessionTtl}

\* The sessions prune takes out: without a claim, not seen for the ttl.
Expired == {id \in sessions : rec[id].active = 0 /\ now - rec[id].seen >= SessionTtl}

\* _oldest_idle_session_locked; ids are in the order of creation.
OldestIdle(s) ==
    LET Older(a, b) ==
            \/ rec[a].seen < rec[b].seen
            \/ rec[a].seen = rec[b].seen /\ rec[a].born < rec[b].born
            \/ rec[a].seen = rec[b].seen /\ rec[a].born = rec[b].born /\ a <= b
        idle == {id \in s : rec[id].active = 0}
    IN  {id \in idle : \A other \in idle : Older(id, other)}

\* The creations that still count when the time is clock.
Recent(clock) ==
    LET live == {i \in DOMAIN created : created[i] > clock - Window}
        first == IF live = {} THEN Len(created) + 1
                 ELSE CHOOSE i \in live : \A j \in live : i <= j
    IN  SubSeq(created, first, Len(created))

\* A plausible mistake for Released: an underflow is not refused.
ReleasedTwice(id) ==
    [rec EXCEPT ![id].active = @ - 1, ![id].seen = IF id \in sessions THEN now ELSE @]

\* release: no claim is given back twice, and only a session in the table is
\* seen. The error of an underflow ends the caller, which has nothing left.
Released(id) ==
    IF rec[id].active <= 0 THEN rec
    ELSE [rec EXCEPT ![id].active = @ - 1,
                     ![id].seen = IF id \in sessions THEN now ELSE @]

\* A thread about session id closes the records of todo one by one and goes on
\* at then; create reads the clock before it waits for the manager's lock.
ClosingThen(id, todo, then) ==
    IF todo = {} /\ then = "idle" THEN Idle
    ELSE [at |-> IF todo = {} THEN then ELSE "closing", id |-> id, todo |-> todo,
          then |-> IF todo = {} THEN "idle" ELSE then,
          clock |-> IF todo = {} /\ then = "create" THEN now ELSE 0]

Goto(t, step) == thread' = [thread EXCEPT ![t].at = step]
Done(t) == thread' = [thread EXCEPT ![t] = Idle]

-----------------------------------------------------------------------------
(* A POST begins: both kinds prune first, under the lock, and close what    *)
(* they have taken out without it.                                          *)

Prune(t, id, then) ==
    /\ t \in Handlers /\ thread[t].at = "idle"
    /\ sessions' = sessions \ Expired
    /\ retired' = Remember(Expired, "expired")
    /\ thread' = [thread EXCEPT ![t] = ClosingThen(id, Expired, then)]
    /\ UNCHANGED <<now, closed, rec, created, last, told>>

BeginInitialize(t) == Prune(t, 0, "create")
BeginRequest(t) == \E id \in told \cup Strangers : Prune(t, id, "claim")

\* A plausible mistake for CloseRecord: it does not wait for the session's lock.
CloseRecordNow(t) ==
    /\ thread[t].at = "closing"
    /\ LET id == CHOOSE i \in thread[t].todo : \A j \in thread[t].todo : i <= j
       IN  /\ rec' = [rec EXCEPT ![id].runtime = "closed"]
           /\ thread' = [thread EXCEPT ![t] =
                            ClosingThen(thread[t].id, thread[t].todo \ {id}, thread[t].then)]
    /\ UNCHANGED <<now, closed, sessions, retired, created, last, told>>

\* _close_record waits for the session's lock; whatever close() raises is
\* swallowed.
CloseRecord(t) ==
    /\ thread[t].at = "closing"
    /\ LET id == CHOOSE i \in thread[t].todo : \A j \in thread[t].todo : i <= j
       IN  /\ rec[id].lock = Nobody
           /\ rec' = [rec EXCEPT ![id].runtime = "closed"]
           /\ thread' = [thread EXCEPT ![t] =
                            ClosingThen(thread[t].id, thread[t].todo \ {id}, thread[t].then)]
    /\ UNCHANGED <<now, closed, sessions, retired, created, last, told>>

-----------------------------------------------------------------------------
(* POST initialize.                                                        *)

\* A plausible mistake for MayCreate: only the beginning of a request asks
\* whether the server is closed.
MayCreateOnceClosed(clock) ==
    /\ Len(Recent(clock)) < MaxCreations
    /\ Cardinality(sessions) >= MaxSessions => OldestIdle(sessions) # {}

\* The conditions of create, under the manager's lock.
MayCreate(clock) ==
    /\ ~closed
    /\ Len(Recent(clock)) < MaxCreations
    /\ Cardinality(sessions) >= MaxSessions => OldestIdle(sessions) # {}

\* create is refused: the server is closed, the rate or the number of sessions
\* is at its limit, or the factory or the binding of the new runtime failed.
CreateRefused(t) ==
    /\ thread[t].at = "create"
    /\ created' = IF closed THEN created ELSE Recent(thread[t].clock)
    /\ \/ ~MayCreate(thread[t].clock) /\ last' = last
       \/ MayCreate(thread[t].clock) /\ last < MaxIds /\ last' = last + 1
    /\ Done(t)
    /\ UNCHANGED <<now, closed, sessions, rec, retired, told>>

\* The new session enters the table with a claim of the request that creates
\* it; an evicted one leaves in the same step and is closed after it.
Create(t) ==
    LET clock == thread[t].clock
        evicted == IF Cardinality(sessions) >= MaxSessions THEN OldestIdle(sessions) ELSE {}
        id == last + 1
    IN  /\ thread[t].at = "create"
        /\ MayCreate(clock)
        /\ last < MaxIds /\ last' = id
        /\ sessions' = (sessions \ evicted) \cup {id}
        /\ retired' = Remember(evicted, "evicted")
        /\ rec' = [rec EXCEPT ![id] = [Unborn EXCEPT !.runtime = "open", !.born = clock,
                                                     !.seen = clock, !.active = 1]]
        /\ created' = Append(Recent(clock), clock)
        /\ thread' = [thread EXCEPT ![t] = ClosingThen(id, evicted, "initialize")]
        /\ UNCHANGED <<now, closed, told>>

\* The runtime answers initialize; this dispatch does not take the session's lock.
Initialize(t) ==
    /\ thread[t].at = "initialize"
    /\ Goto(t, "answer")
    /\ UNCHANGED <<now, closed, sessions, rec, retired, created, last, told>>

\* It answers with an error, or raises: the claim is given back first.
InitializeFails(t) ==
    /\ thread[t].at = "initialize"
    /\ rec' = Released(thread[t].id)
    /\ \E then \in {"refuse", "idle"} :
           thread' = [thread EXCEPT ![t].at = "remove", ![t].then = then]
    /\ UNCHANGED <<now, closed, sessions, retired, created, last, told>>

\* Sending the refusal may fail too; the handler of that failure releases the
\* claim a second time, and removes the session again if that goes through.
Refuse(t) ==
    /\ thread[t].at = "refuse"
    /\ rec' \in {rec, Released(thread[t].id)}
    /\ IF rec' = rec THEN Done(t)
       ELSE thread' = [thread EXCEPT ![t].at = "remove", ![t].then = "idle"]
    /\ UNCHANGED <<now, closed, sessions, retired, created, last, told>>

-----------------------------------------------------------------------------
(* POST of anything else.                                                  *)

\* claim: the server is closed, or the session is not in the table.
ClaimRefused(t) ==
    /\ thread[t].at = "claim"
    /\ closed \/ thread[t].id \notin sessions
    /\ Done(t)
    /\ UNCHANGED <<now, closed, sessions, rec, retired, created, last, told>>

Claim(t) ==
    LET id == thread[t].id
    IN  /\ thread[t].at = "claim"
        /\ ~closed /\ id \in sessions
        /\ rec' = [rec EXCEPT ![id].active = @ + 1, ![id].seen = now]
        /\ Goto(t, "lock")
        /\ UNCHANGED <<now, closed, sessions, retired, created, last, told>>

\* with record.lock: nothing asks again whether the session is in the table.
Lock(t) ==
    /\ thread[t].at = "lock"
    /\ rec[thread[t].id].lock = Nobody
    /\ rec' = [rec EXCEPT ![thread[t].id].lock = t]
    /\ Goto(t, "dispatch")
    /\ UNCHANGED <<now, closed, sessions, retired, created, last, told>>

\* The runtime answers or raises, and is answered; or it is unavailable (or the
\* header does not match), and the claim is given back before the error is sent.
Dispatched(t) ==
    /\ thread[t].at = "dispatch"
    /\ rec' = [rec EXCEPT ![thread[t].id].lock = Nobody]
    /\ \E step \in {"answer", "release"} : Goto(t, step)
    /\ UNCHANGED <<now, closed, sessions, retired, created, last, told>>

\* The answer is sent, or the connection is gone.
Answer(t) ==
    /\ thread[t].at = "answer"
    /\ \E sent \in BOOLEAN : told' = IF sent THEN told \cup {thread[t].id} ELSE told
    /\ Goto(t, "release")
    /\ UNCHANGED <<now, closed, sessions, rec, retired, created, last>>

\* Deferred actions have run, whatever they raised; the claim is given back.
Release(t) ==
    /\ thread[t].at = "release"
    /\ rec' = Released(thread[t].id)
    /\ Done(t)
    /\ UNCHANGED <<now, closed, sessions, retired, created, last, told>>

-----------------------------------------------------------------------------
(* DELETE, a failed initialize, and the end of the server.                 *)

\* A plausible mistake for RemoveSession: the runtime of a busy session is left
\* to the request that is using it.
RemoveUnclosed(t, id, why, then) ==
    /\ sessions' = sessions \ {id}
    /\ retired' = IF id \notin sessions /\ IsRetired(id) THEN retired
                  ELSE Remember({id}, why)
    /\ thread' = [thread EXCEPT ![t] =
                     ClosingThen(id, {i \in sessions \cap {id} : rec[i].active = 0}, then)]
    /\ UNCHANGED <<now, closed, rec, created, last, told>>

\* delete: the session leaves the table whoever has a claim on it. An id that
\* is not in the table is remembered as if it had been.
RemoveSession(t, id, why, then) ==
    /\ sessions' = sessions \ {id}
    /\ retired' = IF id \notin sessions /\ IsRetired(id) THEN retired
                  ELSE Remember({id}, why)
    /\ thread' = [thread EXCEPT ![t] = ClosingThen(id, sessions \cap {id}, then)]
    /\ UNCHANGED <<now, closed, rec, created, last, told>>

Delete(t) ==
    /\ t \in Handlers /\ thread[t].at = "idle"
    /\ \E id \in told \cup Strangers : RemoveSession(t, id, "deleted", "idle")

RemoveFailed(t) ==
    /\ thread[t].at = "remove"
    /\ RemoveSession(t, thread[t].id, "initialization failed", thread[t].then)

\* close: the table is emptied in one step, the runtimes are closed after it.
Close ==
    /\ thread[Main].at = "idle" /\ ~closed
    /\ closed' = TRUE
    /\ sessions' = {}
    /\ retired' = Remember(sessions, "transport closed")
    /\ thread' = [thread EXCEPT ![Main] = ClosingThen(0, sessions, "idle")]
    /\ UNCHANGED <<now, rec, created, last, told>>

ClockTick ==
    /\ now < MaxTime /\ now' = now + 1
    /\ UNCHANGED <<closed, sessions, rec, retired, created, last, told, thread>>

-----------------------------------------------------------------------------
\* A request arrives.
Arrive(t) == BeginInitialize(t) \/ BeginRequest(t) \/ Delete(t)

\* A thread goes on with what it has begun.
Proceed(t) ==
    \/ CloseRecord(t) \/ CreateRefused(t) \/ Create(t)
    \/ Initialize(t) \/ InitializeFails(t) \/ RemoveFailed(t) \/ Refuse(t)
    \/ ClaimRefused(t) \/ Claim(t) \/ Lock(t) \/ Dispatched(t) \/ Answer(t) \/ Release(t)

HttpNext ==
    \/ \E t \in Handlers : Arrive(t)
    \/ \E t \in Threads : Proceed(t)
    \/ Close \/ ClockTick

HttpSpec == HttpInit /\ [][HttpNext]_httpVars

\* Threads that have begun go on: the runtimes answer, and sockets time out.
HttpFairSpec == HttpSpec /\ \A t \in Threads : WF_httpVars(Proceed(t))

-----------------------------------------------------------------------------
(* Properties.                                                             *)

Steps == {"idle", "closing", "create", "initialize", "remove", "refuse",
          "claim", "lock", "dispatch", "answer", "release"}

\* Every variable has its type; what a thread is about has the type its step needs.
HttpTypes ==
    /\ now \in Times /\ closed \in BOOLEAN /\ last \in 0..MaxIds
    /\ sessions \subseteq 1..last /\ told \subseteq 1..last
    /\ rec \in [SessionIds -> [runtime : {"none", "open", "closed"}, born : Times, seen : Times,
                        active : Int, lock : Threads \cup {Nobody}]]
    /\ retired \subseteq [id : SessionIds \cup Strangers, why : Reasons, age : 0..(MaxRetired - 1)]
    /\ \A e, f \in retired : e.id = f.id \/ e.age = f.age => e = f
    /\ created \in Seq(Times) /\ Len(created) <= MaxCreations
    /\ thread \in [Threads -> [at : Steps, id : {0} \cup SessionIds \cup Strangers, todo : SUBSET SessionIds,
                               then : Steps, clock : Times]]

\* The thread has claimed the session it is about, and not yet released it.
HasClaim(t) ==
    \/ thread[t].at \in {"initialize", "lock", "dispatch", "answer", "release"}
    \/ thread[t].at = "closing" /\ thread[t].then = "initialize"

Claimants(id) == {t \in Threads : HasClaim(t) /\ thread[t].id = id}

\* active_requests is the number of requests that have claimed the session and
\* not given it back, on every path through do_POST: a failing initialize, the
\* second release after a lost refusal, a session deleted meanwhile.
ClaimsAreCounted == \A id \in SessionIds : rec[id].active = Cardinality(Claimants(id))

\* A session that is pruned or evicted is nobody's: from the step that takes it
\* out of the table to the close of its runtime no request has a claim on it.
OnlyIdleAreReaped ==
    \A t \in Threads :
        thread[t].at = "closing" /\ thread[t].then \in {"create", "claim", "initialize"} =>
            \A id \in thread[t].todo : Claimants(id) = {}

\* The table never exceeds max_sessions, and a closed server has no session:
\* a create that was under way when the server closed adds none.
TableIsBounded == Cardinality(sessions) <= (IF closed THEN 0 ELSE MaxSessions)

\* The table of sessions and the counts of requests in them fit together after
\* every step of every handler, refused, failed and cut off ones included.
TableIsSound == HttpTypes /\ ClaimsAreCounted /\ TableIsBounded

\* The threads in the runtime of a session: the one that dispatches initialize into
\* it, without the session's lock, and those that dispatch another request.
InRuntime(id) ==
    {t \in Threads : thread[t].at \in {"initialize", "dispatch"} /\ thread[t].id = id}

\* Requests in one session are serialized (README.md:420), initialize included,
\* which is dispatched without the mutex that serializes the others: only a
\* session that nobody else can use keeps it alone. DELETE, expiry, eviction and a
\* failed initialize close no runtime that a request is in; nor does shutdown,
\* except that it does not wait for an initialize.
DispatchIsAlone ==
    [][\A id \in SessionIds :
          /\ Cardinality(InRuntime(id)) <= 1
          /\ rec[id].runtime = "open" /\ rec'[id].runtime = "closed" =>
                 \A t \in InRuntime(id) :
                     thread[t].at = "initialize" /\ thread'[Main] # thread[Main]]_httpVars

\* DELETE, expiry, eviction, a failed initialize and shutdown all end with the
\* close of the session's runtime: no runtime that has left the table leaks.
RetiredRuntimesAreClosed ==
    \A id \in SessionIds :
        rec[id].runtime = "open" /\ id \notin sessions ~> rec[id].runtime = "closed"
=============================================================================
