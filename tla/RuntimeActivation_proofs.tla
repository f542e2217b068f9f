----------------------- MODULE RuntimeActivation_proofs -----------------------
(* For any number of runtimes, revisions, faults and mishaps: a receipt has   *)
(* its artifact and its database, only what was approved is started, files    *)
(* that no one had an excuse to leave torn start, and what is recorded of     *)
(* maintenance is true. Each has an inductive invariant of its own over the   *)
(* types; a call is followed by the step it is at.                            *)
EXTENDS RuntimeActivation, TLAPS

-----------------------------------------------------------------------------
(* The types.                                                               *)

Bases == 1..MaxRevision + 1
Managed == Roots \ {Main}
Sources == [at : Contents, clean : BOOLEAN]
Pinnings == [root : Roots, base : Bases, patch : Contents \cup {Diff}]
Manifests == [root : Roots, base : Bases, patch : Contents \cup {Diff}, head : Contents, db : Nat]
Snapshots == [wrapper : Pinnings, manifest : Manifests]
Started == [root : Managed, at : Contents]
Preparations == [kind : {"prepare"}, id : Identities]
Activations ==
    [kind : {"activate"}, root : Managed, at : Contents, db : Nat, fresh : BOOLEAN,
     current : [root : Managed, at : Contents, base : Bases, db : Nat]]
Plans == {None} \cup Preparations \cup Activations

\* The steps of a preparation, of a maintenance call and of a repin.
Preparing == {"artifact", "state", "seal", "persist"}
Maintaining == {"recheck", "perform", "record"}
Repinning == {"repin wrapper", "repin manifest", "repin restart"}
Steps == {"idle"} \cup Preparing \cup Deploying \cup Maintaining \cup Repinning

\* The steps of a restoration, and those that use the snapshot of the adapter.
Restores == {"restore wrapper", "restore manifest", "restored"}
Snapped == {"wrapper", "manifest", "readback", "restart"} \cup Restores

Jobs == [at : Steps, root : Roots \cup Maintenances \cup {None},
         then : {"idle", "rollback", "rolled back"}, read : Manifests \cup {None}]

\* A call of a runtime with the plan and the snapshot of that runtime.
JobFits(j, p, s) ==
    /\ j \in Jobs /\ j.at \notin Repinning
    /\ j.at \in Preparing => j.root \in Identities
    /\ j.at \in Deploying => p \in Activations
    /\ j.at \in Snapped => s \in Snapshots
    /\ j.at \in Restores => j.then # "idle"

RepinFits(j) ==
    /\ j \in Jobs /\ j.at \in {"idle"} \cup Repinning
    /\ j.at # "idle" => j.root \in Roots /\ j.read \in Manifests

ArtifactTypes ==
    /\ canonical \in 1..MaxRevision /\ mishaps \in 0..MaxMishaps /\ db \in 0..mishaps
    /\ tree \in [Roots -> {None} \cup Sources]
    /\ \A root \in Roots : Exists(root) => tree[root].at <= mishaps
    /\ states \subseteq Identities /\ receipts \subseteq Identities

FileTypes ==
    /\ wrapper \in Pinnings /\ manifest \in Manifests
    /\ running # None => running \in Started /\ Exists(running.root)
    /\ last \in [Runtimes -> {None} \cup Snapshots]
    /\ excused \in BOOLEAN /\ approved \subseteq Roots \X Contents

CallTypes ==
    /\ plan \in [Runtimes -> Plans]
    /\ job = [a \in Actors |-> job[a]]
    /\ \A r \in Runtimes : JobFits(job[r], plan[r], last[r])
    /\ RepinFits(job[Operator])

TypeInv == ArtifactTypes /\ FileTypes /\ CallTypes

-----------------------------------------------------------------------------
(* The inductive invariants.                                                *)

\* An artifact that has been moved is there, and after its database too.
Moved(j) ==
    /\ j.at \in {"state", "seal", "persist"} => Exists(j.root)
    /\ j.at \in {"seal", "persist"} => j.root \in states

BackedInv == ReceiptIsBacked /\ \A r \in Runtimes : Moved(job[r])

\* A decision is pending until its action has been done, or has failed.
Pending(r) ==
    /\ job[r].at \in Maintaining => decision[r] = "authorized_pending"
    /\ job[r].at \in {"recheck", "perform"} => performed[r] = "not"
    /\ job[r].at = "record" => performed[r] = "done"

DecisionInv ==
    /\ decision = [r \in Runtimes |-> decision[r]] /\ performed = [r \in Runtimes |-> performed[r]]
    /\ \A r \in Runtimes : Pending(r)
    /\ DecisionIsTrue

\* What a wrapper pins is approved, unless it is a difference that repin computed,
\* which no source has: then nothing can start.
Granted(w) == w.patch \in Contents => <<w.root, w.patch>> \in approved

Assured(r) ==
    /\ job[r].at \in Deploying => <<plan[r].root, plan[r].at>> \in approved
    /\ last[r] # None \/ job[r].at \in Snapped => Granted(last[r].wrapper)

ApprovedInv ==
    /\ OnlyApprovedRuns /\ Granted(wrapper)
    /\ \A r \in Runtimes : Assured(r)

\* Files that agree and start, unless the source t has at their root was touched.
Sound(t, w, m) ==
    /\ w = Pins(m) /\ w.root \in Managed /\ t[w.root] # None
    /\ w.patch <= m.head /\ m.head <= t[w.root].at

\* A plan is about contents that were there when it was made.
Activates(p) == p # None /\ p.kind = "activate"
Grounded(t, p) ==
    /\ t[p.root] # None /\ p.at <= t[p.root].at
    /\ t[p.current.root] # None /\ p.current.at <= t[p.current.root].at

\* The deployed source has not been behind what a plan took to be running.
Before(p, w) == w.root = p.current.root => w.patch <= p.current.at

\* The steps at which the files agree.
Settled == {"snapshot", "wrapper", "readback", "restart", "postread", "restored",
            "rolled back", "answered"}

Stage(r) ==
    /\ job[r].at \in Settled => Sound(tree, wrapper, manifest)
    /\ job[r].at = "snapshot" => Before(plan[r], wrapper)
    /\ job[r].at = "manifest" => wrapper = Pins(Target(plan[r]))
    /\ job[r].at = "restore manifest" => wrapper = last[r].wrapper

\* What a restoration would restore starts as well.
Backup(r) ==
    last[r] # None \/ job[r].at \in Snapped => Sound(tree, last[r].wrapper, last[r].manifest)

Quiet == \A r \in Runtimes : job[r].at \notin Deploying

Grounds ==
    \A r \in Runtimes : job[r].at \in Deploying \/ Activates(plan[r]) => Grounded(tree, plan[r])

\* What holds as long as nobody is excused: one activation at a time.
Orderly ==
    /\ job[Operator].at \in {"idle", "repin wrapper"}
    /\ \A r, s \in Runtimes : job[r].at \in Deploying /\ job[s].at \in Deploying => r = s
    /\ Quiet => /\ Sound(tree, wrapper, manifest)
                /\ \A r \in Runtimes : Activates(plan[r]) /\ plan[r].fresh => Before(plan[r], wrapper)
    /\ \A r \in Runtimes : Backup(r) /\ Stage(r)

DeployInv == Grounds /\ (~excused => Orderly)

-----------------------------------------------------------------------------
(* Plans and jobs.                                                          *)

\* An activation plan that any row of the database makes stale.
Aged(p) == IF p # None /\ p.kind = "activate" THEN [p EXCEPT !.fresh = FALSE] ELSE p

LEMMA Aging ==
    ASSUME NEW p \in Plans
    PROVE  /\ Aged(p) \in Plans
           /\ p \in Activations =>
                /\ Aged(p) \in Activations
                /\ Aged(p).root = p.root /\ Aged(p).at = p.at /\ Aged(p).current = p.current
           /\ Activates(Aged(p)) =>
                /\ Activates(p) /\ p \in Activations /\ ~Aged(p).fresh
                /\ Aged(p).root = p.root /\ Aged(p).at = p.at /\ Aged(p).current = p.current
<1>1. CASE p # None /\ p.kind = "activate"
  <2>1. p \in Activations
    BY <1>1 DEF Plans, Preparations
  <2>2. Aged(p) = [p EXCEPT !.fresh = FALSE]
    BY <1>1 DEF Aged
  <2>3. Aged(p) \in Activations /\ ~Aged(p).fresh
    BY <2>1, <2>2 DEF Activations
  <2>4. Aged(p).root = p.root /\ Aged(p).at = p.at /\ Aged(p).current = p.current
    BY <2>1, <2>2 DEF Activations
  <2> QED BY <1>1, <2>1, <2>3, <2>4 DEF Plans, Activates
<1>2. CASE ~(p # None /\ p.kind = "activate")
  BY <1>2 DEF Aged, Activates
<1> QED BY <1>1, <1>2

\* Making the plans stale, with or without the end of the call of r.
LEMMA StalePlans ==
    ASSUME NEW plans \in [Runtimes -> Plans]
    PROVE  /\ Stale(plans) \in [Runtimes -> Plans]
           /\ \A q \in Runtimes : Stale(plans)[q] = Aged(plans[q])
<1>1. \A q \in Runtimes : Stale(plans)[q] = Aged(plans[q])
  BY DEF Stale, Aged
<1>2. \A q \in Runtimes : Aged(plans[q]) \in Plans
  BY Aging
<1>3. Stale(plans) = [q \in Runtimes |-> Stale(plans)[q]]
  BY DEF Stale
<1> QED BY <1>1, <1>2, <1>3

LEMMA StaleWithout ==
    ASSUME NEW plans \in [Runtimes -> Plans], NEW r \in Runtimes
    PROVE  /\ Stale([plans EXCEPT ![r] = None]) \in [Runtimes -> Plans]
           /\ Stale([plans EXCEPT ![r] = None])[r] = None
           /\ \A q \in Runtimes \ {r} : Stale([plans EXCEPT ![r] = None])[q] = Aged(plans[q])
<1> PICK less : less = [plans EXCEPT ![r] = None]
  OBVIOUS
<1>1. less \in [Runtimes -> Plans] /\ less[r] = None /\ \A q \in Runtimes \ {r} : less[q] = plans[q]
  BY DEF Plans
<1>2. Stale(less) \in [Runtimes -> Plans] /\ \A q \in Runtimes : Stale(less)[q] = Aged(less[q])
  BY <1>1, StalePlans
<1>3. Stale(less)[r] = None
  BY <1>1, <1>2 DEF Aged
<1> QED BY <1>1, <1>2, <1>3
\* Only the job of a changes.
OnlyJob(a) ==
    /\ job' = [b \in Actors |-> job'[b]]
    /\ \A b \in Actors \ {a} : job'[b] = job[b]

LEMMA IdleFits ==
    /\ Idle \in Jobs /\ Idle.at = "idle"
    /\ \A p, s : JobFits(Idle, p, s)
    /\ RepinFits(Idle)
<1>1. Idle \in Jobs /\ Idle.at = "idle"
  BY DEF Idle, Jobs, Steps
<1> QED BY <1>1 DEF JobFits, RepinFits, Repinning, Preparing, Deploying, Snapped, Restores

LEMMA JobsTyped ==
    ASSUME CallTypes
    PROVE  /\ \A a \in Actors : job[a] \in Jobs
           /\ \A r \in Runtimes : r \in Actors /\ r # Operator
           /\ Operator \in Actors /\ Operator \notin Runtimes
  BY ArtifactAssumption DEF CallTypes, Actors, JobFits, RepinFits

LEMMA Went ==
    ASSUME CallTypes, NEW a \in Actors, NEW step \in Steps, Goto(a, step)
    PROVE  /\ OnlyJob(a) /\ job'[a] \in Jobs /\ job'[a].at = step
           /\ job'[a].root = job[a].root /\ job'[a].then = job[a].then /\ job'[a].read = job[a].read
<1>1. job = [b \in Actors |-> job[b]] /\ job[a] \in Jobs
  BY JobsTyped DEF CallTypes
<1> PICK j : j = job[a]
  OBVIOUS
<1> PICK k : k = [j EXCEPT !.at = step]
  OBVIOUS
<1>2. job' = [job EXCEPT ![a] = k]
  BY <1>1 DEF Goto
<1>3. OnlyJob(a) /\ job'[a] = k
  BY <1>1, <1>2 DEF OnlyJob
<1>4. k \in Jobs /\ k.at = step /\ k.root = j.root /\ k.then = j.then /\ k.read = j.read
  BY <1>1 DEF Jobs
<1> QED BY <1>3, <1>4

LEMMA Began ==
    ASSUME CallTypes, NEW a \in Actors, NEW step \in Steps,
           NEW root \in Roots \cup Maintenances, Begin(a, step, root)
    PROVE  OnlyJob(a) /\ job'[a] \in Jobs /\ job'[a].at = step /\ job'[a].root = root
<1>1. job = [b \in Actors |-> job[b]]
  BY DEF CallTypes
<1> PICK k : k = [Idle EXCEPT !.at = step, !.root = root]
  OBVIOUS
<1>2. job' = [job EXCEPT ![a] = k]
  BY DEF Begin
<1>3. OnlyJob(a) /\ job'[a] = k
  BY <1>1, <1>2 DEF OnlyJob
<1>4. k \in Jobs /\ k.at = step /\ k.root = root
  BY DEF Idle, Jobs
<1> QED BY <1>3, <1>4

LEMMA Over ==
    ASSUME CallTypes, NEW a \in Actors, job' = [job EXCEPT ![a] = Idle]
    PROVE  OnlyJob(a) /\ job'[a] = Idle
  BY DEF CallTypes, OnlyJob

LEMMA Restored ==
    ASSUME CallTypes, NEW a \in Actors, NEW then \in {"rollback", "rolled back"}, Restoring(a, then)
    PROVE  /\ OnlyJob(a) /\ job'[a] \in Jobs
           /\ job'[a].at = "restore wrapper" /\ job'[a].then = then
<1>1. job = [b \in Actors |-> job[b]] /\ job[a] \in Jobs
  BY JobsTyped DEF CallTypes
<1> PICK j : j = job[a]
  OBVIOUS
<1> PICK k : k = [j EXCEPT !.at = "restore wrapper"]
  OBVIOUS
<1> PICK l : l = [k EXCEPT !.then = then]
  OBVIOUS
<1>2. job' = [job EXCEPT ![a] = l]
  BY <1>1 DEF Restoring
<1>3. OnlyJob(a) /\ job'[a] = l
  BY <1>1, <1>2 DEF OnlyJob
<1>4. k \in Jobs /\ k.at = "restore wrapper"
  BY <1>1 DEF Jobs, Steps, Deploying
<1>5. l \in Jobs /\ l.at = "restore wrapper" /\ l.then = then
  BY <1>4 DEF Jobs
<1> QED BY <1>3, <1>5
-----------------------------------------------------------------------------
(* What the steps of a call do to jobs and plans.                           *)

\* A plan is as it was or stale, and one that is not as it was is none to activate.
Ages(q) == plan'[q] \in {plan[q], Aged(plan[q])}

Moves(r) ==
    /\ OnlyJob(r) /\ JobFits(job'[r], plan'[r], last'[r])
    /\ plan' \in [Runtimes -> Plans] /\ \A q \in Runtimes \ {r} : Ages(q)

\* What is at a root stays there, and goes on.
Grows ==
    \A root \in Roots : Exists(root) => tree'[root] # None /\ tree[root].at <= tree'[root].at

LEMMA FitsAged ==
    ASSUME NEW j, NEW p \in Plans, NEW s, JobFits(j, p, s), NEW q \in {p, Aged(p)}
    PROVE  JobFits(j, q, s)
  BY Aging DEF JobFits

LEMMA CallsTyped ==
    ASSUME CallTypes, NEW r \in Runtimes, Moves(r),
           \A q \in Runtimes \ {r} : last'[q] = last[q]
    PROVE  CallTypes'
<1>1. \A q \in Runtimes : JobFits(job'[q], plan'[q], last'[q])
  <2> SUFFICES ASSUME NEW q \in Runtimes \ {r} PROVE JobFits(job'[q], plan'[q], last'[q])
    BY DEF Moves
  <2>1. job'[q] = job[q] /\ Ages(q) /\ last'[q] = last[q] /\ plan[q] \in Plans
    BY JobsTyped DEF Moves, OnlyJob, CallTypes
  <2>2. JobFits(job[q], plan[q], last[q])
    BY DEF CallTypes
  <2> QED BY <2>1, <2>2, FitsAged DEF Ages
<1>2. RepinFits(job'[Operator])
  BY JobsTyped DEF Moves, OnlyJob, CallTypes
<1> QED BY <1>1, <1>2 DEF Moves, OnlyJob, CallTypes

\* The call of r ends, or its client's next preflight is still to come.
LEMMA Finished ==
    ASSUME CallTypes, NEW r \in Runtimes, Finish(r)
    PROVE  Moves(r) /\ job'[r] = Idle /\ ~Activates(plan'[r]) /\ plan'[r] = None
<1>1. OnlyJob(r) /\ job'[r] = Idle
  BY JobsTyped, Over DEF Finish
<1>2. /\ plan' \in [Runtimes -> Plans] /\ plan'[r] = None
      /\ \A q \in Runtimes \ {r} : plan'[q] = Aged(plan[q])
  BY StaleWithout DEF Finish, CallTypes
<1> QED BY <1>1, <1>2, IdleFits DEF Moves, Ages, Activates

LEMMA AllAge ==
    ASSUME CallTypes, plan' = Stale(plan) \/ UNCHANGED plan
    PROVE  plan' \in [Runtimes -> Plans] /\ \A q \in Runtimes : Ages(q)
  BY StalePlans DEF CallTypes, Ages

LEMMA Named ==
    ASSUME ArtifactTypes, NEW role \in Roles
    PROVE  CandidateId(role) \in Identities
  BY ArtifactAssumption DEF ArtifactTypes, CandidateId, Identities, SourceRevision, DatabaseIdentity

LEMMA StaysGrown ==
    ASSUME ArtifactTypes, UNCHANGED tree
    PROVE  Grows
  BY DEF ArtifactTypes, Grows, Exists, Sources, Contents
-----------------------------------------------------------------------------
(* Preparation.                                                             *)

\* A job in no step of a deployment fits any plan and any snapshot.
LEMMA FitsAny ==
    ASSUME NEW j \in Jobs, j.at \in {"idle"} \cup Preparing \cup Maintaining,
           j.at \in Preparing => j.root \in Identities
    PROVE  \A p, s : JobFits(j, p, s)
  BY DEF JobFits, Repinning, Preparing, Maintaining, Deploying, Snapped, Restores

\* What every step of a preparation keeps.
Prepared(r) ==
    /\ Moves(r) /\ ArtifactTypes' /\ Grows
    /\ {job[r].at, job'[r].at} \subseteq {"idle"} \cup Preparing
    /\ Ages(r) \/ ~Activates(plan'[r])

LEMMA PreflightPrepared ==
    ASSUME TypeInv, NEW r \in Runtimes, NEW role \in Roles, PreparePreflight(r, role), UNCHANGED last
    PROVE  Prepared(r) /\ (BackedInv => BackedInv')
<1> PICK p : p = [kind |-> "prepare", id |-> CandidateId(role)]
  OBVIOUS
<1>1. p \in Plans /\ ~Activates(p)
  BY Named DEF TypeInv, Plans, Preparations, Activates
<1>2. plan' = [plan EXCEPT ![r] = p] /\ UNCHANGED <<artifacts, job, mishaps>> /\ job[r].at = "idle"
  BY DEF PreparePreflight, budgets
<1>3. plan' \in [Runtimes -> Plans] /\ plan'[r] = p /\ \A q \in Runtimes \ {r} : plan'[q] = plan[q]
  BY <1>1, <1>2 DEF TypeInv, CallTypes
<1>4. JobFits(job'[r], plan'[r], last'[r]) /\ OnlyJob(r)
  <2>1. job[r] \in Jobs /\ job = [a \in Actors |-> job[a]]
    BY JobsTyped DEF TypeInv, CallTypes
  <2>2. \A q, s : JobFits(job[r], q, s)
    BY <2>1, <1>2, FitsAny DEF Preparing
  <2> QED BY <2>1, <2>2, <1>2 DEF OnlyJob
<1>5. Moves(r)
  BY <1>3, <1>4 DEF Moves, Ages
<1>6. ArtifactTypes' /\ Grows
  BY <1>2, StaysGrown DEF TypeInv, ArtifactTypes, artifacts, Exists
<1>7. BackedInv => BackedInv'
  BY <1>2 DEF BackedInv, ReceiptIsBacked, Moved, artifacts, Exists
<1> QED BY <1>1, <1>2, <1>3, <1>5, <1>6, <1>7 DEF Prepared

\* A call that goes on to another step of the preparation, or ends.
LEMMA StepPrepared ==
    ASSUME TypeInv, NEW r \in Runtimes, UNCHANGED last, ArtifactTypes', Grows,
           job[r].at \in {"idle"} \cup Preparing,
           \/ Finish(r)
           \/ /\ OnlyJob(r) /\ job'[r] \in Jobs /\ job'[r].at \in Preparing
              /\ job'[r].root \in Identities
              /\ plan' = Stale(plan) \/ UNCHANGED plan
    PROVE  Prepared(r)
<1>1. CASE Finish(r)
  BY <1>1, Finished, IdleFits DEF Prepared, TypeInv
<1>2. CASE /\ OnlyJob(r) /\ job'[r] \in Jobs /\ job'[r].at \in Preparing
           /\ job'[r].root \in Identities
           /\ plan' = Stale(plan) \/ UNCHANGED plan
  <2>1. JobFits(job'[r], plan'[r], last'[r])
    BY <1>2, FitsAny
  <2>2. plan' \in [Runtimes -> Plans] /\ \A q \in Runtimes : Ages(q)
    BY <1>2, AllAge DEF TypeInv
  <2> QED BY <1>2, <2>1, <2>2 DEF Prepared, Moves
<1> QED BY <1>1, <1>2

\* What is backed stays backed when roots and states only grow.
LEMMA StaysBacked ==
    ASSUME BackedInv, TypeInv, Grows, states \subseteq states', NEW r \in Runtimes, OnlyJob(r),
           receipts' = receipts, Moved(job[r])' \/ job'[r] = Idle
    PROVE  BackedInv'
<1>1. ReceiptIsBacked'
  BY DEF BackedInv, ReceiptIsBacked, Grows, TypeInv, ArtifactTypes, Roots, Exists
<1>2. \A q \in Runtimes \ {r} : Moved(job[q])'
  <2> SUFFICES ASSUME NEW q \in Runtimes \ {r} PROVE Moved(job[q])'
    OBVIOUS
  <2>1. job'[q] = job[q] /\ Moved(job[q]) /\ JobFits(job[q], plan[q], last[q])
    BY JobsTyped DEF OnlyJob, BackedInv, TypeInv, CallTypes
  <2>2. job[q].at \in {"state", "seal", "persist"} => job[q].root \in Roots
    BY <2>1 DEF JobFits, Preparing, Roots
  <2> QED BY <2>1, <2>2 DEF Moved, Grows, Exists
<1>3. Moved(job[r])'
  BY IdleFits DEF Moved
<1> QED BY <1>1, <1>2, <1>3 DEF BackedInv
LEMMA ExecutePrepared ==
    ASSUME TypeInv, NEW r \in Runtimes, ExecutePreparation(r), UNCHANGED last
    PROVE  Prepared(r) /\ (BackedInv => BackedInv')
<1> PICK id : id = plan[r].id
  OBVIOUS
<1>1. /\ job[r].at = "idle" /\ UNCHANGED <<artifacts, mishaps>>
      /\ \/ /\ id = CandidateId(id[1])
            /\ \/ ReadsAsPrepared(id) /\ Begin(r, "persist", id)
               \/ ~Exists(id) /\ id \notin states /\ Begin(r, "artifact", id)
            /\ plan' = Stale(plan)
         \/ Finish(r)
  BY DEF ExecutePreparation
<1>2. id \in Identities
  BY DEF ExecutePreparation, TypeInv, CallTypes, Plans, Preparations, Activations
<1>3. ArtifactTypes' /\ Grows
  BY <1>1, StaysGrown DEF TypeInv, ArtifactTypes, artifacts, Exists
<1>4. ASSUME NEW step \in {"persist", "artifact"}, Begin(r, step, id)
      PROVE  OnlyJob(r) /\ job'[r] \in Jobs /\ job'[r].at = step /\ job'[r].root = id
  <2>1. step \in Steps /\ id \in Roots \cup Maintenances /\ r \in Actors
    BY <1>2, JobsTyped DEF Steps, Preparing, Roots, TypeInv
  <2> QED BY <1>4, <2>1, Began DEF TypeInv
<1>5. Prepared(r)
  BY <1>1, <1>2, <1>3, <1>4, StepPrepared DEF Preparing
<1>6. ASSUME BackedInv PROVE BackedInv'
  <2>1. receipts' = receipts /\ states' = states /\ tree' = tree
    BY <1>1 DEF artifacts
  <2>2. Moved(job[r])' \/ job'[r] = Idle
    <3>1. CASE Finish(r)
      BY <3>1, Finished DEF TypeInv
    <3>2. CASE ReadsAsPrepared(id) /\ Begin(r, "persist", id)
      BY <3>2, <1>4, <2>1 DEF Moved, ReadsAsPrepared, Exists
    <3>3. CASE Begin(r, "artifact", id)
      BY <3>3, <1>4 DEF Moved
    <3> QED BY <1>1, <3>1, <3>2, <3>3
  <2> QED BY <1>3, <1>5, <1>6, <2>1, <2>2, StaysBacked DEF Prepared, Moves
<1> QED BY <1>5, <1>6

LEMMA StagingPrepared ==
    ASSUME TypeInv, NEW r \in Runtimes, StagingFails(r), UNCHANGED last
    PROVE  Prepared(r) /\ (BackedInv => BackedInv')
<1>1. job[r].at = "artifact" /\ Finish(r) /\ UNCHANGED <<artifacts, mishaps>>
  BY DEF StagingFails
<1>2. ArtifactTypes' /\ Grows
  BY <1>1, StaysGrown DEF TypeInv, ArtifactTypes, artifacts, Exists
<1>3. Prepared(r)
  BY <1>1, <1>2, StepPrepared DEF Preparing
<1>4. BackedInv => BackedInv'
  BY <1>1, <1>2, <1>3, Finished, StaysBacked DEF Prepared, Moves, artifacts, TypeInv
<1> QED BY <1>3, <1>4

LEMMA MoveArtifactPrepared ==
    ASSUME TypeInv, NEW r \in Runtimes, MoveArtifact(r), UNCHANGED last
    PROVE  Prepared(r) /\ (BackedInv => BackedInv')
<1> PICK id : id = job[r].root
  OBVIOUS
<1> PICK new : new = [at |-> 0, clean |-> TRUE]
  OBVIOUS
<1>1. /\ job[r].at = "artifact" /\ UNCHANGED <<canonical, db, states, receipts, mishaps>>
      /\ \/ ~Exists(id) /\ tree' = [tree EXCEPT ![id] = new] /\ Goto(r, "state") /\ UNCHANGED plan
         \/ Finish(r) /\ UNCHANGED tree
  BY DEF MoveArtifact, budgets
<1>2. id \in Identities /\ id \in Roots /\ job[r] \in Jobs /\ r \in Actors
  BY <1>1, JobsTyped DEF TypeInv, CallTypes, JobFits, Preparing, Roots
<1>3. new \in Sources /\ new # None /\ new.at = 0
  <2>1. new \in [at : 0..MaxMishaps, clean : BOOLEAN] /\ new.at = 0
    BY ArtifactAssumption
  <2> QED BY <2>1, ArtifactAssumption DEF Sources, Contents
<1>4. CASE ~Exists(id) /\ tree' = [tree EXCEPT ![id] = new] /\ Goto(r, "state") /\ UNCHANGED plan
  <2>1. /\ tree' \in [Roots -> {None} \cup Sources] /\ tree'[id] = new
        /\ \A root \in Roots \ {id} : tree'[root] = tree[root]
    BY <1>2, <1>3, <1>4 DEF TypeInv, ArtifactTypes
  <2>2. Grows
    BY <2>1, <1>4 DEF Grows, Exists, TypeInv, ArtifactTypes, Sources, Contents
  <2>3. \A root \in Roots : tree'[root] # None => tree'[root].at <= mishaps
    BY <2>1, <1>3 DEF TypeInv, ArtifactTypes, Exists
  <2>4. ArtifactTypes'
    BY <1>1, <2>1, <2>3 DEF TypeInv, ArtifactTypes, Exists
  <2>5. OnlyJob(r) /\ job'[r] \in Jobs /\ job'[r].at = "state" /\ job'[r].root = id
    BY <1>2, <1>4, Went DEF TypeInv, Steps, Preparing
  <2>6. Prepared(r)
    BY <1>1, <1>2, <1>4, <2>2, <2>4, <2>5, StepPrepared DEF Preparing
  <2>7. Moved(job[r])'
    BY <2>1, <2>5, <1>3 DEF Moved, Exists
  <2> QED BY <1>1, <2>2, <2>5, <2>6, <2>7, StaysBacked
<1>5. CASE Finish(r) /\ UNCHANGED tree
  <2>1. ArtifactTypes' /\ Grows
    BY <1>1, <1>5, StaysGrown DEF TypeInv, ArtifactTypes, Exists
  <2>2. Prepared(r)
    BY <1>1, <1>5, <2>1, StepPrepared DEF Preparing
  <2> QED BY <1>1, <1>5, <2>1, <2>2, Finished, StaysBacked DEF Prepared, Moves, TypeInv
<1> QED BY <1>1, <1>4, <1>5

LEMMA MoveStatePrepared ==
    ASSUME TypeInv, NEW r \in Runtimes, MoveState(r), UNCHANGED last
    PROVE  Prepared(r) /\ (BackedInv => BackedInv')
<1> PICK id : id = job[r].root
  OBVIOUS
<1>1. /\ job[r].at = "state" /\ UNCHANGED <<canonical, db, tree, receipts, mishaps>>
      /\ \/ states' = states \cup {id} /\ Goto(r, "seal") /\ UNCHANGED plan
         \/ Finish(r) /\ UNCHANGED states
  BY DEF MoveState
<1>2. id \in Identities /\ job[r] \in Jobs /\ r \in Actors
  BY <1>1, JobsTyped DEF TypeInv, CallTypes, JobFits, Preparing
<1>3. ArtifactTypes' /\ Grows /\ states \subseteq states'
  BY <1>1, <1>2, StaysGrown DEF TypeInv, ArtifactTypes, Exists
<1>4. CASE states' = states \cup {id} /\ Goto(r, "seal") /\ UNCHANGED plan
  <2>1. OnlyJob(r) /\ job'[r] \in Jobs /\ job'[r].at = "seal" /\ job'[r].root = id
    BY <1>2, <1>4, Went DEF TypeInv, Steps, Preparing
  <2>2. Prepared(r)
    BY <1>1, <1>2, <1>3, <1>4, <2>1, StepPrepared DEF Preparing
  <2>3. ASSUME BackedInv PROVE Moved(job[r])'
    BY <2>1, <2>3, <1>1, <1>4 DEF Moved, Exists, BackedInv
  <2> QED BY <1>1, <1>3, <2>1, <2>2, <2>3, StaysBacked
<1>5. CASE Finish(r) /\ UNCHANGED states
  <2>1. Prepared(r)
    BY <1>1, <1>3, <1>5, StepPrepared DEF Preparing
  <2> QED BY <1>1, <1>3, <1>5, <2>1, Finished, StaysBacked DEF Prepared, Moves, TypeInv
<1> QED BY <1>1, <1>4, <1>5

LEMMA SealPrepared ==
    ASSUME TypeInv, NEW r \in Runtimes, Seal(r), UNCHANGED last
    PROVE  Prepared(r) /\ (BackedInv => BackedInv')
<1>1. /\ job[r].at = "seal" /\ UNCHANGED <<artifacts, mishaps>>
      /\ (Goto(r, "persist") /\ UNCHANGED plan) \/ Finish(r)
  BY DEF Seal
<1>2. job[r].root \in Identities /\ job[r] \in Jobs /\ r \in Actors
  BY <1>1, JobsTyped DEF TypeInv, CallTypes, JobFits, Preparing
<1>3. ArtifactTypes' /\ Grows /\ UNCHANGED <<tree, states, receipts>>
  BY <1>1, StaysGrown DEF TypeInv, ArtifactTypes, Exists, artifacts
<1>4. CASE Goto(r, "persist") /\ UNCHANGED plan
  <2>1. OnlyJob(r) /\ job'[r] \in Jobs /\ job'[r].at = "persist" /\ job'[r].root = job[r].root
    BY <1>2, <1>4, Went DEF TypeInv, Steps, Preparing
  <2>2. Prepared(r)
    BY <1>1, <1>2, <1>3, <1>4, <2>1, StepPrepared DEF Preparing
  <2>3. ASSUME BackedInv PROVE Moved(job[r])'
    BY <2>1, <2>3, <1>1, <1>3 DEF Moved, Exists, BackedInv
  <2> QED BY <1>1, <1>3, <2>1, <2>2, <2>3, StaysBacked
<1>5. CASE Finish(r)
  <2>1. Prepared(r)
    BY <1>1, <1>3, <1>5, StepPrepared DEF Preparing
  <2> QED BY <1>1, <1>3, <1>5, <2>1, Finished, StaysBacked DEF Prepared, Moves, TypeInv
<1> QED BY <1>1, <1>4, <1>5

LEMMA PersistPrepared ==
    ASSUME TypeInv, NEW r \in Runtimes, PersistReceipt(r), UNCHANGED last
    PROVE  Prepared(r) /\ (BackedInv => BackedInv')
<1> PICK id : id = job[r].root
  OBVIOUS
<1>1. /\ job[r].at = "persist" /\ UNCHANGED <<canonical, db, tree, states, mishaps>> /\ Finish(r)
      /\ receipts' \in {receipts, receipts \cup {id}}
  BY DEF PersistReceipt
<1>2. id \in Identities
  BY <1>1 DEF TypeInv, CallTypes, JobFits, Preparing
<1>3. ArtifactTypes' /\ Grows
  BY <1>1, <1>2, StaysGrown DEF TypeInv, ArtifactTypes, Exists
<1>4. Prepared(r)
  BY <1>1, <1>3, StepPrepared DEF Preparing
<1>5. ASSUME BackedInv PROVE BackedInv'
  <2>1. Exists(id) /\ id \in states
    BY <1>1, <1>5 DEF BackedInv, Moved
  <2>2. ReceiptIsBacked'
    BY <2>1, <1>1, <1>5 DEF BackedInv, ReceiptIsBacked, Exists
  <2>3. job'[r] = Idle /\ OnlyJob(r)
    BY <1>1, Finished DEF TypeInv, Moves
  <2>4. \A q \in Runtimes : Moved(job[q])'
    BY <2>3, <1>1, <1>5, IdleFits, JobsTyped DEF BackedInv, Moved, Exists, OnlyJob, TypeInv
  <2> QED BY <2>2, <2>4 DEF BackedInv
<1> QED BY <1>4, <1>5

LEMMA PreparesPrepared ==
    ASSUME TypeInv, NEW r \in Runtimes, Prepares(r)
    PROVE  Prepared(r) /\ (BackedInv => BackedInv')
<1>1. UNCHANGED last
  BY DEF Prepares, deployment
<1> QED BY <1>1, PreflightPrepared, ExecutePrepared, StagingPrepared, MoveArtifactPrepared,
           MoveStatePrepared, SealPrepared, PersistPrepared DEF Prepares
-----------------------------------------------------------------------------
(* Deployment.                                                              *)

LEMMA BaseTyped ==
    ASSUME NEW root \in Managed
    PROVE  Base(root) \in Bases /\ root \in Roots
  BY ArtifactAssumption DEF Managed, Roots, Base, Bases, Identities

LEMMA PinsTyped ==
    ASSUME NEW m \in Manifests
    PROVE  /\ Pins(m) \in Pinnings
           /\ Pins(m).root = m.root /\ Pins(m).base = m.base /\ Pins(m).patch = m.patch
  BY DEF Pins, Manifests, Pinnings

LEMMA TargetTyped ==
    ASSUME NEW p \in Activations
    PROVE  /\ Target(p) \in Manifests /\ Pins(Target(p)) \in Pinnings
           /\ Target(p).root = p.root /\ Target(p).patch = p.at /\ Target(p).head = p.at
           /\ Pins(Target(p)).root = p.root /\ Pins(Target(p)).patch = p.at
<1>1. p.root \in Managed /\ p.at \in Contents /\ p.current.db \in Nat
  BY DEF Activations
<1>2. Target(p) \in Manifests /\ Target(p).root = p.root /\ Target(p).patch = p.at /\ Target(p).head = p.at
  BY <1>1, BaseTyped DEF Target, Manifests
<1> QED BY <1>2, PinsTyped

LEMMA PortableTyped ==
    ASSUME TypeInv, NEW p \in Activations
    PROVE  /\ Portable(p) \in Snapshots /\ Portable(p).wrapper = wrapper
           /\ Portable(p).manifest.head = p.current.at /\ Pins(Portable(p).manifest) = Pins(manifest)
<1> PICK m : m = [manifest EXCEPT !.head = p.current.at]
  OBVIOUS
<1> PICK n : n = [m EXCEPT !.db = p.current.db]
  OBVIOUS
<1>1. p.current.at \in Contents /\ p.current.db \in Nat /\ manifest \in Manifests /\ wrapper \in Pinnings
  BY DEF Activations, TypeInv, FileTypes
<1>2. m \in Manifests /\ m.head = p.current.at /\ m.root = manifest.root /\ m.base = manifest.base
      /\ m.patch = manifest.patch
  BY <1>1 DEF Manifests
<1>3. n \in Manifests /\ n.head = p.current.at /\ n.root = manifest.root /\ n.base = manifest.base
      /\ n.patch = manifest.patch
  BY <1>1, <1>2 DEF Manifests
<1>4. Portable(p) = [wrapper |-> wrapper, manifest |-> n]
  BY DEF Portable
<1>5. Portable(p).wrapper = wrapper /\ Portable(p).manifest = n
  BY <1>4
<1>6. Portable(p) \in Snapshots
  BY <1>1, <1>3, <1>4 DEF Snapshots
<1>7. Pins(n) = Pins(manifest)
  BY <1>3 DEF Pins
<1> QED BY <1>3, <1>5, <1>6, <1>7

\* What every step of a deployment keeps.
Deployed(r) ==
    /\ Moves(r) /\ FileTypes' /\ UNCHANGED <<artifacts, plan, approved>>
    /\ {job[r].at, job'[r].at} \subseteq Deploying
    /\ \A q \in Runtimes \ {r} : last'[q] = last[q]

LEMMA StepDeployed ==
    ASSUME TypeInv, NEW r \in Runtimes, UNCHANGED <<artifacts, plan, approved>>, FileTypes',
           job[r].at \in Deploying, OnlyJob(r), job'[r] \in Jobs, job'[r].at \in Deploying,
           job'[r].at \in Snapped => last'[r] \in Snapshots,
           job'[r].at \in Restores => job'[r].then # "idle",
           \A q \in Runtimes \ {r} : last'[q] = last[q]
    PROVE  Deployed(r)
<1>1. plan[r] \in Activations /\ plan \in [Runtimes -> Plans]
  BY DEF TypeInv, CallTypes, JobFits
<1>2. JobFits(job'[r], plan'[r], last'[r])
  BY <1>1 DEF JobFits, Repinning, Preparing, Deploying
<1> QED BY <1>1, <1>2 DEF Deployed, Moves, Ages

LEMMA DeployedApproved ==
    ASSUME ApprovedInv, NEW r \in Runtimes, Deployed(r), TypeInv,
           OnlyApprovedRuns', Granted(wrapper)',
           last'[r] # None \/ job'[r].at \in Snapped => Granted(last'[r].wrapper)
    PROVE  ApprovedInv'
<1>1. Assured(r)'
  BY DEF ApprovedInv, Assured, Deployed, Granted
<1>2. ASSUME NEW q \in Runtimes \ {r} PROVE Assured(q)'
  BY JobsTyped DEF ApprovedInv, Assured, Deployed, Moves, OnlyJob, Granted, TypeInv
<1> QED BY <1>1, <1>2 DEF ApprovedInv

LEMMA DeployedOrderly ==
    ASSUME DeployInv, NEW r \in Runtimes, Deployed(r), TypeInv, excused' = excused,
           ~excused => Backup(r)' /\ Stage(r)'
    PROVE  DeployInv'
<1>1. /\ \A a \in Actors \ {r} : job'[a] = job[a]
      /\ job[r].at \in Deploying /\ job'[r].at \in Deploying
      /\ tree' = tree /\ plan' = plan
      /\ \A q \in Runtimes \ {r} : last'[q] = last[q]
  BY DEF Deployed, Moves, OnlyJob, artifacts
<1>2. \A q \in Runtimes : q \in Actors /\ q # Operator
  BY JobsTyped DEF TypeInv
<1>3. Grounds'
  BY <1>1, <1>2 DEF DeployInv, Grounds
<1>4. ASSUME ~excused PROVE Orderly'
  <2>1. job'[Operator] = job[Operator] /\ Orderly
    BY <1>1, <1>2, <1>4, JobsTyped DEF DeployInv, TypeInv
  <2>2. \A q \in Runtimes \ {r} : job[q].at \notin Deploying
    BY <1>1, <2>1 DEF Orderly
  <2>3. \A q \in Runtimes \ {r} : job'[q].at \notin Deploying
    BY <1>1, <1>2, <2>2
  <2>4. ~Quiet'
    BY <1>1 DEF Quiet
  <2>5. ASSUME NEW q \in Runtimes \ {r} PROVE Backup(q)' /\ Stage(q)'
    <3>1. Stage(q)'
      BY <2>3 DEF Stage, Settled, Deploying
    <3>2. job'[q] = job[q] /\ last'[q] = last[q] /\ Backup(q)
      BY <1>1, <1>2, <2>1 DEF Orderly
    <3> QED BY <3>1, <3>2, <1>1 DEF Backup
  <2> QED BY <1>4, <2>1, <2>3, <2>4, <2>5 DEF Orderly
<1> QED BY <1>3, <1>4 DEF DeployInv
LEMMA FilesTyped ==
    ASSUME TypeInv, UNCHANGED <<artifacts, approved, excused>>, running' \in {None, running},
           wrapper' \in Pinnings, manifest' \in Manifests,
           last' \in [Runtimes -> {None} \cup Snapshots]
    PROVE  FileTypes' /\ (OnlyApprovedRuns => OnlyApprovedRuns')
  BY DEF TypeInv, FileTypes, artifacts, Exists, OnlyApprovedRuns

\* What is known of a step of a deployment.
LEMMA AtStep ==
    ASSUME TypeInv, NEW r \in Runtimes, job[r].at \in Deploying
    PROVE  /\ r \in Actors /\ job[r] \in Jobs /\ plan[r] \in Activations
           /\ last[r] \in {None} \cup Snapshots /\ (job[r].at \in Snapped => last[r] \in Snapshots)
           /\ job[r].at \in Restores => job[r].then \in {"rollback", "rolled back"}
           /\ ApprovedInv => /\ <<plan[r].root, plan[r].at>> \in approved /\ Granted(wrapper)
                             /\ OnlyApprovedRuns
                             /\ last[r] # None \/ job[r].at \in Snapped => Granted(last[r].wrapper)
           /\ DeployInv => /\ Grounded(tree, plan[r])
                           /\ ~excused => Backup(r) /\ Stage(r)
<1>1. JobFits(job[r], plan[r], last[r]) /\ r \in Actors
  BY JobsTyped DEF TypeInv, CallTypes
<1>2. job[r] \in Jobs /\ plan[r] \in Activations
      /\ last[r] \in {None} \cup Snapshots /\ (job[r].at \in Snapped => last[r] \in Snapshots)
  BY <1>1 DEF JobFits, TypeInv, FileTypes
<1>3. job[r].at \in Restores => job[r].then \in {"rollback", "rolled back"}
  BY <1>1 DEF JobFits, Jobs
<1>4. ApprovedInv => /\ <<plan[r].root, plan[r].at>> \in approved /\ Granted(wrapper)
                     /\ OnlyApprovedRuns
                     /\ last[r] # None \/ job[r].at \in Snapped => Granted(last[r].wrapper)
  BY DEF ApprovedInv, Assured
<1>5. DeployInv => /\ Grounded(tree, plan[r])
                   /\ ~excused => Backup(r) /\ Stage(r)
  BY DEF DeployInv, Grounds, Orderly
<1> QED BY <1>1, <1>2, <1>3, <1>4, <1>5

\* The same files, the same snapshot, another step.
LEMMA SameFiles ==
    ASSUME TypeInv, NEW r \in Runtimes, UNCHANGED <<artifacts, plan, approved, wrapper, manifest, last, excused>>,
           running' \in {None, running}, job[r].at \in Deploying,
           OnlyJob(r), job'[r] \in Jobs, job'[r].at \in Deploying,
           job'[r].at \in Snapped => last[r] \in Snapshots,
           job'[r].at \in Restores => job'[r].then # "idle",
           ApprovedInv => (job'[r].at \in Snapped => job[r].at \in Snapped \/ last[r] # None),
           DeployInv /\ ~excused => Backup(r)' /\ Stage(r)'
    PROVE  Deployed(r) /\ (ApprovedInv => ApprovedInv') /\ (DeployInv => DeployInv')
<1>1. FileTypes' /\ (OnlyApprovedRuns => OnlyApprovedRuns')
  <2>1. /\ wrapper' \in Pinnings /\ manifest' \in Manifests
        /\ last' \in [Runtimes -> {None} \cup Snapshots]
    BY DEF TypeInv, FileTypes
  <2> QED BY <2>1, FilesTyped
<1>2. Deployed(r)
  BY <1>1, StepDeployed
<1>3. ASSUME ApprovedInv PROVE ApprovedInv'
  <2>1. Granted(wrapper)' /\ OnlyApprovedRuns'
    BY <1>1, <1>3 DEF ApprovedInv, Granted
  <2>2. last'[r] # None \/ job'[r].at \in Snapped => Granted(last'[r].wrapper)
    BY <1>3, AtStep
  <2> QED BY <1>2, <1>3, <2>1, <2>2, DeployedApproved
<1>4. ASSUME DeployInv PROVE DeployInv'
  BY <1>2, <1>4, DeployedOrderly
<1> QED BY <1>2, <1>3, <1>4

LEMMA ReadSnapshotDeployed ==
    ASSUME TypeInv, NEW r \in Runtimes, ReadSnapshot(r), UNCHANGED approved
    PROVE  Deployed(r) /\ (ApprovedInv => ApprovedInv') /\ (DeployInv => DeployInv')
<1> PICK p : p = plan[r]
  OBVIOUS
<1> PICK l : l = Portable(p)
  OBVIOUS
<1>1. /\ job[r].at = "snapshot" /\ UNCHANGED <<artifacts, plan, wrapper, manifest, running, excused>>
      /\ \/ /\ Agree /\ ~Drifted(p) /\ last' = [last EXCEPT ![r] = l] /\ Goto(r, "wrapper")
         \/ Goto(r, "rollback") /\ UNCHANGED last
  BY DEF ReadSnapshot
<1>2. job[r].at \in Deploying /\ job[r].at \notin Restores
  BY <1>1 DEF Deploying, Restores
<1>3. CASE Agree /\ ~Drifted(p) /\ last' = [last EXCEPT ![r] = l] /\ Goto(r, "wrapper")
  <2>1. OnlyJob(r) /\ job'[r] \in Jobs /\ job'[r].at = "wrapper"
    BY <1>2, <1>3, AtStep, Went DEF TypeInv, Steps, Deploying
  <2>2. p \in Activations
    BY <1>2, AtStep
  <2>3. /\ l \in Snapshots /\ l.wrapper = wrapper /\ l.manifest.head = p.current.at
        /\ Pins(l.manifest) = Pins(manifest)
    BY <2>2, PortableTyped
  <2>4. /\ last' \in [Runtimes -> {None} \cup Snapshots] /\ last'[r] = l
        /\ \A q \in Runtimes \ {r} : last'[q] = last[q]
    BY <1>3, <2>3 DEF TypeInv, FileTypes
  <2>5. FileTypes' /\ (OnlyApprovedRuns => OnlyApprovedRuns')
    <3>1. wrapper' \in Pinnings /\ manifest' \in Manifests
      BY <1>1 DEF TypeInv, FileTypes
    <3> QED BY <1>1, <2>4, <3>1, FilesTyped
  <2>6. Deployed(r)
    BY <1>1, <1>2, <2>1, <2>3, <2>4, <2>5, StepDeployed DEF Deploying, Restores
  <2>7. ASSUME ApprovedInv PROVE ApprovedInv'
    <3>1. Granted(wrapper)' /\ Granted(last'[r].wrapper)
      BY <1>1, <2>3, <2>4, <2>7 DEF ApprovedInv, Granted
    <3> QED BY <2>5, <2>6, <2>7, <3>1, DeployedApproved DEF ApprovedInv
  <2>8. ASSUME DeployInv, ~excused PROVE Backup(r)' /\ Stage(r)'
    <3>1. Grounded(tree, p) /\ Stage(r) /\ Sound(tree, wrapper, manifest) /\ Before(p, wrapper)
      BY <1>1, <1>2, <2>8, AtStep DEF Stage, Settled
    <3>2. wrapper.root = p.current.root /\ wrapper.patch <= p.current.at
      BY <1>3, <3>1 DEF Drifted, Agree, Pins, Before
    <3>3. Sound(tree, l.wrapper, l.manifest)
      BY <2>3, <3>1, <3>2 DEF Sound, Grounded
    <3>4. tree' = tree
      BY <1>1 DEF artifacts
    <3>5. Backup(r)'
      BY <2>4, <3>3, <3>4 DEF Backup
    <3>6. Stage(r)'
      BY <1>1, <2>1, <3>1, <3>4 DEF Stage
    <3> QED BY <3>5, <3>6
  <2> QED BY <1>1, <2>6, <2>7, <2>8, DeployedOrderly
<1>4. CASE Goto(r, "rollback") /\ UNCHANGED last
  <2>1. OnlyJob(r) /\ job'[r] \in Jobs /\ job'[r].at = "rollback"
    BY <1>2, <1>4, AtStep, Went DEF TypeInv, Steps, Deploying
  <2>2. "rollback" \in Deploying /\ "rollback" \notin Snapped \cup Restores \cup Settled
    BY DEF Deploying, Snapped, Restores, Settled
  <2>3. ASSUME DeployInv, ~excused PROVE Backup(r)' /\ Stage(r)'
    BY <1>1, <1>2, <1>4, <2>1, <2>2, <2>3, AtStep DEF Backup, Stage, artifacts
  <2> QED BY <1>1, <1>2, <1>4, <2>1, <2>2, <2>3, SameFiles
<1> QED BY <1>1, <1>3, <1>4
\* A step that leaves the files alone, and one that turns to their restoration.
Untouched ==
    UNCHANGED <<artifacts, plan, approved, wrapper, manifest, last, excused>> /\ running' \in {None, running}

LEMMA GoesOn ==
    ASSUME TypeInv, NEW r \in Runtimes, Untouched, job[r].at \in Deploying,
           NEW step \in Deploying \ (Restores \cup {"snapshot", "manifest"}), Goto(r, step),
           step \in Snapped => job[r].at \in Snapped,
           step \in Settled => job[r].at \in Settled
    PROVE  Deployed(r) /\ (ApprovedInv => ApprovedInv') /\ (DeployInv => DeployInv')
<1>1. OnlyJob(r) /\ job'[r] \in Jobs /\ job'[r].at = step
  BY AtStep, Went DEF TypeInv, Steps
<1>2. step \notin {"snapshot", "manifest", "restore manifest"}
  BY DEF Restores
<1>3. ASSUME DeployInv, ~excused PROVE Backup(r)' /\ Stage(r)'
  <2>1. Backup(r) /\ Stage(r) /\ tree' = tree
    BY <1>3, AtStep DEF Untouched, artifacts
  <2>2. Backup(r)'
    BY <2>1, <1>1 DEF Backup, Untouched
  <2>3. Stage(r)'
    BY <2>1, <1>1, <1>2 DEF Stage, Untouched
  <2> QED BY <2>2, <2>3
<1> QED BY <1>1, <1>3, SameFiles, AtStep DEF Untouched

LEMMA TurnsBack ==
    ASSUME TypeInv, NEW r \in Runtimes, Untouched, job[r].at \in Deploying,
           job[r].at \in Snapped \/ last[r] # None,
           NEW then \in {"rollback", "rolled back"}, Restoring(r, then)
    PROVE  Deployed(r) /\ (ApprovedInv => ApprovedInv') /\ (DeployInv => DeployInv')
<1>1. OnlyJob(r) /\ job'[r] \in Jobs /\ job'[r].at = "restore wrapper" /\ job'[r].then # "idle"
  BY AtStep, Restored DEF TypeInv
<1>2. "restore wrapper" \in Deploying /\ "restore wrapper" \notin Settled
  BY DEF Deploying, Settled
<1>3. ASSUME DeployInv, ~excused PROVE Backup(r)' /\ Stage(r)'
  <2>1. Backup(r) /\ tree' = tree
    BY <1>3, AtStep DEF Untouched, artifacts
  <2>2. Backup(r)'
    BY <2>1, <1>1 DEF Backup, Untouched
  <2>3. Stage(r)'
    BY <1>1, <1>2 DEF Stage
  <2> QED BY <2>2, <2>3
<1>4. last[r] \in Snapshots
  BY AtStep
<1> QED BY <1>1, <1>2, <1>3, <1>4, SameFiles DEF Untouched

LEMMA WriteWrapperDeployed ==
    ASSUME TypeInv, NEW r \in Runtimes, WriteWrapper(r), UNCHANGED approved
    PROVE  Deployed(r) /\ (ApprovedInv => ApprovedInv') /\ (DeployInv => DeployInv')
<1> PICK p : p = plan[r]
  OBVIOUS
<1>1. /\ job[r].at = "wrapper" /\ UNCHANGED <<artifacts, plan, manifest, running, last, excused>>
      /\ \/ wrapper' = Pins(Target(p)) /\ Goto(r, "manifest")
         \/ Restoring(r, "rollback") /\ UNCHANGED wrapper
  BY DEF WriteWrapper
<1>2. job[r].at \in Deploying /\ job[r].at \in Snapped
  BY <1>1 DEF Deploying, Snapped
<1>3. CASE wrapper' = Pins(Target(p)) /\ Goto(r, "manifest")
  <2>1. OnlyJob(r) /\ job'[r] \in Jobs /\ job'[r].at = "manifest"
    BY <1>2, <1>3, AtStep, Went DEF TypeInv, Steps, Deploying
  <2>2. p \in Activations /\ last[r] \in Snapshots
    BY <1>2, AtStep
  <2>3. wrapper' \in Pinnings /\ wrapper'.root = p.root /\ wrapper'.patch = p.at
    BY <1>3, <2>2, TargetTyped
  <2>4. FileTypes' /\ (OnlyApprovedRuns => OnlyApprovedRuns')
    <3>1. manifest' \in Manifests /\ last' \in [Runtimes -> {None} \cup Snapshots]
      BY <1>1 DEF TypeInv, FileTypes
    <3> QED BY <1>1, <2>3, <3>1, FilesTyped
  <2>5. Deployed(r)
    BY <1>1, <1>2, <2>1, <2>2, <2>4, StepDeployed DEF Deploying, Restores
  <2>6. ASSUME ApprovedInv PROVE ApprovedInv'
    <3>1. Granted(wrapper)' /\ Granted(last'[r].wrapper) /\ OnlyApprovedRuns
      BY <1>1, <1>2, <2>3, <2>6, AtStep DEF Granted
    <3> QED BY <2>4, <2>5, <2>6, <3>1, DeployedApproved
  <2>7. ASSUME DeployInv, ~excused PROVE Backup(r)' /\ Stage(r)'
    <3>1. Backup(r)'
      BY <1>1, <1>2, <2>7, AtStep DEF Backup, artifacts
    <3>2. Stage(r)'
      <4>1. Pins(Target(plan[r]))' = Pins(Target(p))
        BY <1>1 DEF Pins, Target
      <4> QED BY <1>3, <2>1, <4>1 DEF Stage, Settled
    <3> QED BY <3>1, <3>2
  <2> QED BY <1>1, <2>5, <2>6, <2>7, DeployedOrderly
<1>4. CASE Restoring(r, "rollback") /\ UNCHANGED wrapper
  BY <1>1, <1>2, <1>4, TurnsBack DEF Untouched
<1> QED BY <1>1, <1>3, <1>4

LEMMA WriteManifestDeployed ==
    ASSUME TypeInv, NEW r \in Runtimes, WriteManifest(r), UNCHANGED approved
    PROVE  Deployed(r) /\ (ApprovedInv => ApprovedInv') /\ (DeployInv => DeployInv')
<1> PICK p : p = plan[r]
  OBVIOUS
<1>1. /\ job[r].at = "manifest" /\ UNCHANGED <<artifacts, plan, wrapper, running, last, excused>>
      /\ \/ manifest' = Target(p) /\ Goto(r, "readback")
         \/ Restoring(r, "rollback") /\ UNCHANGED manifest
  BY DEF WriteManifest
<1>2. job[r].at \in Deploying /\ job[r].at \in Snapped
  BY <1>1 DEF Deploying, Snapped
<1>3. CASE manifest' = Target(p) /\ Goto(r, "readback")
  <2>1. OnlyJob(r) /\ job'[r] \in Jobs /\ job'[r].at = "readback"
    BY <1>2, <1>3, AtStep, Went DEF TypeInv, Steps, Deploying
  <2>2. p \in Activations /\ last[r] \in Snapshots
    BY <1>2, AtStep
  <2>3. /\ manifest' \in Manifests /\ manifest'.head = p.at
        /\ Pins(Target(p)).root = p.root /\ Pins(Target(p)).patch = p.at
    BY <1>3, <2>2, TargetTyped
  <2>4. FileTypes' /\ (OnlyApprovedRuns => OnlyApprovedRuns')
    <3>1. wrapper' \in Pinnings /\ last' \in [Runtimes -> {None} \cup Snapshots]
      BY <1>1 DEF TypeInv, FileTypes
    <3> QED BY <1>1, <2>3, <3>1, FilesTyped
  <2>5. Deployed(r)
    BY <1>1, <1>2, <2>1, <2>2, <2>4, StepDeployed DEF Deploying, Restores
  <2>6. ASSUME ApprovedInv PROVE ApprovedInv'
    <3>1. Granted(wrapper)' /\ Granted(last'[r].wrapper) /\ OnlyApprovedRuns
      BY <1>1, <1>2, <2>6, AtStep DEF Granted
    <3> QED BY <2>4, <2>5, <2>6, <3>1, DeployedApproved
  <2>7. ASSUME DeployInv, ~excused PROVE Backup(r)' /\ Stage(r)'
    <3>1. Backup(r)'
      BY <1>1, <1>2, <2>7, AtStep DEF Backup, artifacts
    <3>2. wrapper = Pins(Target(p)) /\ Grounded(tree, p)
      BY <1>1, <1>2, <2>7, AtStep DEF Stage
    <3>3. p.root \in Managed /\ p.at \in Nat
      BY <2>2, ArtifactAssumption DEF Activations, Contents
    <3>4. Sound(tree, wrapper, manifest')
      BY <1>3, <2>3, <3>2, <3>3 DEF Sound, Grounded
    <3>5. Stage(r)'
      BY <1>1, <2>1, <3>4 DEF Stage, artifacts
    <3> QED BY <3>1, <3>5
  <2> QED BY <1>1, <2>5, <2>6, <2>7, DeployedOrderly
<1>4. CASE Restoring(r, "rollback") /\ UNCHANGED manifest
  BY <1>1, <1>2, <1>4, TurnsBack DEF Untouched
<1> QED BY <1>1, <1>3, <1>4

LEMMA ReadBackDeployed ==
    ASSUME TypeInv, NEW r \in Runtimes, ReadBack(r), UNCHANGED approved
    PROVE  Deployed(r) /\ (ApprovedInv => ApprovedInv') /\ (DeployInv => DeployInv')
<1>1. job[r].at = "readback" /\ Untouched /\ (Goto(r, "restart") \/ Restoring(r, "rollback"))
  BY DEF ReadBack, Untouched, deployment
<1>2. job[r].at \in Deploying /\ job[r].at \in Snapped /\ job[r].at \in Settled
  BY <1>1 DEF Deploying, Snapped, Settled
<1>3. "restart" \in Deploying \ (Restores \cup {"snapshot", "manifest"})
  BY DEF Deploying, Restores
<1>4. CASE Goto(r, "restart")
  BY <1>1, <1>2, <1>3, <1>4, GoesOn
<1>5. CASE Restoring(r, "rollback")
  BY <1>1, <1>2, <1>5, TurnsBack
<1> QED BY <1>1, <1>4, <1>5
LEMMA RestartDeployed ==
    ASSUME TypeInv, NEW r \in Runtimes, Restart(r), UNCHANGED approved
    PROVE  Deployed(r) /\ (ApprovedInv => ApprovedInv') /\ (DeployInv => DeployInv')
<1>1. job[r].at = "restart" /\ Untouched /\ (Goto(r, "postread") \/ Restoring(r, "rollback"))
  BY DEF Restart, Kickstart, Untouched
<1>2. job[r].at \in Deploying /\ job[r].at \in Snapped /\ job[r].at \in Settled
  BY <1>1 DEF Deploying, Snapped, Settled
<1>3. "postread" \in Deploying \ (Restores \cup {"snapshot", "manifest"})
  BY DEF Deploying, Restores
<1>4. CASE Goto(r, "postread")
  BY <1>1, <1>2, <1>3, <1>4, GoesOn
<1>5. CASE Restoring(r, "rollback")
  BY <1>1, <1>2, <1>5, TurnsBack
<1> QED BY <1>1, <1>4, <1>5

LEMMA RestartRolledBackDeployed ==
    ASSUME TypeInv, NEW r \in Runtimes, RestartRolledBack(r), UNCHANGED approved
    PROVE  Deployed(r) /\ (ApprovedInv => ApprovedInv') /\ (DeployInv => DeployInv')
<1>1. job[r].at = "rolled back" /\ Untouched /\ (Goto(r, "answered") \/ Goto(r, "unknown"))
  BY DEF RestartRolledBack, Kickstart, Untouched
<1>2. job[r].at \in Deploying /\ job[r].at \in Settled
  BY <1>1 DEF Deploying, Settled
<1>3. \A step \in {"answered", "unknown"} :
        step \in Deploying \ (Restores \cup {"snapshot", "manifest"}) /\ step \notin Snapped
  BY DEF Deploying, Restores, Snapped
<1> QED BY <1>1, <1>2, <1>3, GoesOn

LEMMA RestoreWrapperDeployed ==
    ASSUME TypeInv, NEW r \in Runtimes, RestoreWrapper(r), UNCHANGED approved
    PROVE  Deployed(r) /\ (ApprovedInv => ApprovedInv') /\ (DeployInv => DeployInv')
<1> PICK l : l = last[r]
  OBVIOUS
<1>1. /\ job[r].at = "restore wrapper" /\ UNCHANGED <<artifacts, plan, manifest, running, last, excused>>
      /\ \/ wrapper' = l.wrapper /\ Goto(r, "restore manifest")
         \/ (Goto(r, "rollback") \/ Goto(r, "unknown")) /\ UNCHANGED wrapper
  BY DEF RestoreWrapper
<1>2. job[r].at \in Deploying /\ job[r].at \in Snapped /\ job[r].at \in Restores
  BY <1>1 DEF Deploying, Snapped, Restores
<1>3. CASE wrapper' = l.wrapper /\ Goto(r, "restore manifest")
  <2>1. /\ OnlyJob(r) /\ job'[r] \in Jobs /\ job'[r].at = "restore manifest"
        /\ job'[r].then \in {"rollback", "rolled back"}
    BY <1>2, <1>3, AtStep, Went DEF TypeInv, Steps, Deploying
  <2>2. l \in Snapshots /\ wrapper' \in Pinnings
    BY <1>2, <1>3, AtStep DEF Snapshots
  <2>3. FileTypes' /\ (OnlyApprovedRuns => OnlyApprovedRuns')
    <3>1. manifest' \in Manifests /\ last' \in [Runtimes -> {None} \cup Snapshots]
      BY <1>1 DEF TypeInv, FileTypes
    <3> QED BY <1>1, <2>2, <3>1, FilesTyped
  <2>4. Deployed(r)
    BY <1>1, <1>2, <2>1, <2>2, <2>3, StepDeployed DEF Deploying
  <2>5. ASSUME ApprovedInv PROVE ApprovedInv'
    <3>1. Granted(wrapper)' /\ Granted(last'[r].wrapper) /\ OnlyApprovedRuns
      BY <1>1, <1>2, <1>3, <2>5, AtStep DEF Granted
    <3> QED BY <2>3, <2>4, <2>5, <3>1, DeployedApproved
  <2>6. ASSUME DeployInv, ~excused PROVE Backup(r)' /\ Stage(r)'
    <3>1. Backup(r)'
      BY <1>1, <1>2, <2>6, AtStep DEF Backup, artifacts
    <3>2. Stage(r)'
      BY <1>1, <1>3, <2>1 DEF Stage, Settled
    <3> QED BY <3>1, <3>2
  <2> QED BY <1>1, <2>4, <2>5, <2>6, DeployedOrderly
<1>4. CASE (Goto(r, "rollback") \/ Goto(r, "unknown")) /\ UNCHANGED wrapper
  <2>1. \A step \in {"rollback", "unknown"} :
          step \in Deploying \ (Restores \cup {"snapshot", "manifest"}) /\ step \notin Snapped \cup Settled
    BY DEF Deploying, Restores, Snapped, Settled
  <2>2. Untouched
    BY <1>1, <1>4 DEF Untouched
  <2> QED BY <1>2, <1>4, <2>1, <2>2, GoesOn
<1> QED BY <1>1, <1>3, <1>4

LEMMA RestoreManifestDeployed ==
    ASSUME TypeInv, NEW r \in Runtimes, RestoreManifest(r), UNCHANGED approved
    PROVE  Deployed(r) /\ (ApprovedInv => ApprovedInv') /\ (DeployInv => DeployInv')
<1> PICK l : l = last[r]
  OBVIOUS
<1>1. /\ job[r].at = "restore manifest" /\ UNCHANGED <<artifacts, plan, wrapper, running, last, excused>>
      /\ \/ manifest' = l.manifest /\ Goto(r, "restored")
         \/ (Goto(r, "rollback") \/ Goto(r, "unknown")) /\ UNCHANGED manifest
  BY DEF RestoreManifest
<1>2. job[r].at \in Deploying /\ job[r].at \in Snapped /\ job[r].at \in Restores
  BY <1>1 DEF Deploying, Snapped, Restores
<1>3. CASE manifest' = l.manifest /\ Goto(r, "restored")
  <2>1. /\ OnlyJob(r) /\ job'[r] \in Jobs /\ job'[r].at = "restored"
        /\ job'[r].then \in {"rollback", "rolled back"}
    BY <1>2, <1>3, AtStep, Went DEF TypeInv, Steps, Deploying
  <2>2. l \in Snapshots /\ manifest' \in Manifests
    BY <1>2, <1>3, AtStep DEF Snapshots
  <2>3. FileTypes' /\ (OnlyApprovedRuns => OnlyApprovedRuns')
    <3>1. wrapper' \in Pinnings /\ last' \in [Runtimes -> {None} \cup Snapshots]
      BY <1>1 DEF TypeInv, FileTypes
    <3> QED BY <1>1, <2>2, <3>1, FilesTyped
  <2>4. Deployed(r)
    BY <1>1, <1>2, <2>1, <2>2, <2>3, StepDeployed DEF Deploying
  <2>5. ASSUME ApprovedInv PROVE ApprovedInv'
    <3>1. Granted(wrapper)' /\ Granted(last'[r].wrapper) /\ OnlyApprovedRuns
      BY <1>1, <1>2, <2>5, AtStep DEF Granted
    <3> QED BY <2>3, <2>4, <2>5, <3>1, DeployedApproved
  <2>6. ASSUME DeployInv, ~excused PROVE Backup(r)' /\ Stage(r)'
    <3>1. Sound(tree, l.wrapper, l.manifest) /\ wrapper = l.wrapper
      BY <1>1, <1>2, <2>6, AtStep DEF Backup, Stage
    <3>2. Backup(r)' /\ Stage(r)'
      BY <1>1, <1>3, <2>1, <3>1 DEF Backup, Stage, artifacts
    <3> QED BY <3>2
  <2> QED BY <1>1, <2>4, <2>5, <2>6, DeployedOrderly
<1>4. CASE (Goto(r, "rollback") \/ Goto(r, "unknown")) /\ UNCHANGED manifest
  <2>1. \A step \in {"rollback", "unknown"} :
          step \in Deploying \ (Restores \cup {"snapshot", "manifest"}) /\ step \notin Snapped \cup Settled
    BY DEF Deploying, Restores, Snapped, Settled
  <2>2. Untouched
    BY <1>1, <1>4 DEF Untouched
  <2> QED BY <1>2, <1>4, <2>1, <2>2, GoesOn
<1> QED BY <1>1, <1>3, <1>4

LEMMA RestoreReadBackDeployed ==
    ASSUME TypeInv, NEW r \in Runtimes, RestoreReadBack(r), UNCHANGED approved
    PROVE  Deployed(r) /\ (ApprovedInv => ApprovedInv') /\ (DeployInv => DeployInv')
<1>1. job[r].at = "restored" /\ Untouched
  BY DEF RestoreReadBack, Untouched, deployment
<1>2. job[r].at \in Deploying /\ job[r].at \in Settled /\ job[r].at \in Restores
  BY <1>1 DEF Deploying, Settled, Restores
<1>3. \E step \in {"rollback", "rolled back", "unknown"} : Goto(r, step)
  BY <1>2, AtStep DEF RestoreReadBack
<1>4. \A step \in {"rollback", "rolled back", "unknown"} :
        step \in Deploying \ (Restores \cup {"snapshot", "manifest"}) /\ step \notin Snapped
  BY DEF Deploying, Restores, Snapped
<1> QED BY <1>1, <1>2, <1>3, <1>4, GoesOn

LEMMA RollbackDeployed ==
    ASSUME TypeInv, NEW r \in Runtimes, Rollback(r), UNCHANGED approved
    PROVE  Deployed(r) /\ (ApprovedInv => ApprovedInv') /\ (DeployInv => DeployInv')
<1>1. /\ job[r].at = "rollback" /\ Untouched
      /\ Goto(r, "unknown") \/ (last[r] # None /\ Restoring(r, "rolled back"))
  BY DEF Rollback, Untouched, deployment
<1>2. job[r].at \in Deploying
  BY <1>1 DEF Deploying
<1>3. "unknown" \in Deploying \ (Restores \cup {"snapshot", "manifest"}) /\ "unknown" \notin Snapped \cup Settled
  BY DEF Deploying, Restores, Snapped, Settled
<1> QED BY <1>1, <1>2, <1>3, GoesOn, TurnsBack

LEMMA DeploysDeployed ==
    ASSUME TypeInv, NEW r \in Runtimes, Deploys(r)
    PROVE  Deployed(r) /\ (ApprovedInv => ApprovedInv') /\ (DeployInv => DeployInv')
<1>1. UNCHANGED approved
  BY DEF Deploys
<1> QED BY <1>1, ReadSnapshotDeployed, WriteWrapperDeployed, WriteManifestDeployed, ReadBackDeployed,
           RestartDeployed, RestoreWrapperDeployed, RestoreManifestDeployed, RestoreReadBackDeployed,
           RollbackDeployed, RestartRolledBackDeployed DEF Deploys

LEMMA PostReadbackDeployed ==
    ASSUME TypeInv, NEW r \in Runtimes, PostReadback(r)
    PROVE  Deployed(r) /\ (ApprovedInv => ApprovedInv') /\ (DeployInv => DeployInv')
<1>1. job[r].at = "postread" /\ Untouched /\ (Goto(r, "answered") \/ Goto(r, "rollback"))
  BY DEF PostReadback, Untouched, deployment
<1>2. job[r].at \in Deploying /\ job[r].at \in Settled
  BY <1>1 DEF Deploying, Settled
<1>3. \A step \in {"answered", "rollback"} :
        step \in Deploying \ (Restores \cup {"snapshot", "manifest"}) /\ step \notin Snapped
  BY DEF Deploying, Restores, Snapped
<1> QED BY <1>1, <1>2, <1>3, GoesOn
-----------------------------------------------------------------------------
(* Steps beside a deployment.                                               *)

\* A call that goes on as it was while the plans age and the sources go on.
Kept(q) == job'[q] = job[q] /\ last'[q] = last[q] /\ Ages(q)

LEMMA SoundAgain ==
    ASSUME TypeInv, ArtifactTypes', Grows, NEW w \in Pinnings, NEW m \in Manifests, Sound(tree, w, m)
    PROVE  Sound(tree', w, m)
<1>1. w.root \in Roots /\ tree[w.root] \in Sources /\ m.head \in Nat
  BY ArtifactAssumption DEF Sound, TypeInv, ArtifactTypes, Pinnings, Manifests, Contents
<1>2. tree'[w.root] \in Sources /\ tree'[w.root] # None /\ tree[w.root].at <= tree'[w.root].at
  BY <1>1 DEF Sound, Grows, Exists, ArtifactTypes
<1>3. tree[w.root].at \in Nat /\ tree'[w.root].at \in Nat
  BY <1>1, <1>2, ArtifactAssumption DEF Sources, Contents
<1> QED BY <1>1, <1>2, <1>3 DEF Sound

LEMMA GroundedAgain ==
    ASSUME TypeInv, ArtifactTypes', Grows, NEW p \in Activations, Grounded(tree, p),
           NEW q, q.root = p.root, q.at = p.at, q.current = p.current
    PROVE  Grounded(tree', q)
<1>1. /\ p.root \in Roots /\ p.current.root \in Roots /\ p.at \in Nat /\ p.current.at \in Nat
  BY ArtifactAssumption DEF Activations, Managed, Contents
<1>2. ASSUME NEW root \in Roots, tree[root] # None
      PROVE  /\ tree'[root] # None /\ tree[root].at \in Nat /\ tree'[root].at \in Nat
             /\ tree[root].at <= tree'[root].at
  <2>1. tree[root] \in Sources /\ tree'[root] # None /\ tree[root].at <= tree'[root].at
    BY <1>2 DEF Grows, Exists, TypeInv, ArtifactTypes
  <2>2. tree'[root] \in Sources
    BY <2>1 DEF ArtifactTypes
  <2> QED BY <2>1, <2>2, ArtifactAssumption DEF Sources, Contents
<1>3. tree'[p.root] # None /\ p.at <= tree'[p.root].at
  BY <1>1, <1>2 DEF Grounded
<1>4. tree'[p.current.root] # None /\ p.current.at <= tree'[p.current.root].at
  BY <1>1, <1>2 DEF Grounded
<1> QED BY <1>3, <1>4 DEF Grounded

LEMMA KeptPlan ==
    ASSUME TypeInv, NEW q \in Runtimes, Ages(q)
    PROVE  /\ plan[q] \in Activations =>
                /\ plan'[q] \in Activations
                /\ plan'[q].root = plan[q].root /\ plan'[q].at = plan[q].at /\ plan'[q].current = plan[q].current
           /\ Activates(plan'[q]) =>
                /\ plan[q] \in Activations /\ Activates(plan[q])
                /\ plan'[q].root = plan[q].root /\ plan'[q].at = plan[q].at /\ plan'[q].current = plan[q].current
                /\ plan'[q].fresh => plan'[q] = plan[q]
<1>1. plan[q] \in Plans
  BY DEF TypeInv, CallTypes
<1>2. Activates(plan[q]) => plan[q] \in Activations
  BY <1>1 DEF Activates, Plans, Preparations
<1> QED BY <1>1, <1>2, Aging DEF Ages

LEMMA KeptGrounded ==
    ASSUME TypeInv, ArtifactTypes', Grows, Grounds, NEW q \in Runtimes, Ages(q),
           (job[q].at \in Deploying /\ job'[q].at \in Deploying) \/ Activates(plan'[q])
    PROVE  Grounded(tree', plan'[q])
<1>1. /\ plan[q] \in Activations /\ Grounded(tree, plan[q])
      /\ plan'[q].root = plan[q].root /\ plan'[q].at = plan[q].at /\ plan'[q].current = plan[q].current
  BY KeptPlan, AtStep DEF Grounds
<1> QED BY <1>1, GroundedAgain

LEMMA KeptStage ==
    ASSUME TypeInv, ArtifactTypes', Grows, UNCHANGED <<wrapper, manifest>>, NEW q \in Runtimes, Kept(q)
    PROVE  (Backup(q) => Backup(q)') /\ (Stage(q) => Stage(q)')
<1>1. job'[q] = job[q] /\ last'[q] = last[q] /\ wrapper' = wrapper /\ manifest' = manifest
  BY DEF Kept
<1>2. job[q].at \in Deploying =>
        plan'[q].root = plan[q].root /\ plan'[q].at = plan[q].at /\ plan'[q].current = plan[q].current
  BY KeptPlan, AtStep DEF Kept
<1>3. last[q] # None \/ job[q].at \in Snapped => last[q] \in Snapshots
  <2>1. last[q] \in {None} \cup Snapshots /\ JobFits(job[q], plan[q], last[q])
    BY DEF TypeInv, FileTypes, CallTypes
  <2> QED BY <2>1 DEF JobFits
<1>4. ASSUME Backup(q) PROVE Backup(q)'
  <2> SUFFICES ASSUME last[q] # None \/ job[q].at \in Snapped
               PROVE  Sound(tree', last[q].wrapper, last[q].manifest)
    BY <1>1 DEF Backup
  <2>1. last[q].wrapper \in Pinnings /\ last[q].manifest \in Manifests
    BY <1>3 DEF Snapshots
  <2> QED BY <1>4, <2>1, SoundAgain DEF Backup
<1>5. ASSUME Stage(q) PROVE Stage(q)'
  <2>1. job[q].at \in Settled => Sound(tree', wrapper, manifest)
    BY <1>5, SoundAgain DEF Stage, TypeInv, FileTypes
  <2>2. job[q].at = "snapshot" => Before(plan'[q], wrapper)
    BY <1>2, <1>5 DEF Stage, Before, Deploying
  <2>3. job[q].at = "manifest" => Pins(Target(plan[q])) = Pins(Target(plan[q]))'
    BY <1>1, <1>2 DEF Target, Pins, Deploying
  <2> QED BY <1>1, <1>5, <2>1, <2>2, <2>3 DEF Stage
<1> QED BY <1>4, <1>5
LEMMA KeptAssured ==
    ASSUME TypeInv, NEW q \in Runtimes, Kept(q), approved \subseteq approved', Assured(q)
    PROVE  Assured(q)'
<1>1. job'[q] = job[q] /\ last'[q] = last[q]
  BY DEF Kept
<1>2. job[q].at \in Deploying => plan'[q].root = plan[q].root /\ plan'[q].at = plan[q].at
  BY KeptPlan, AtStep DEF Kept
<1> QED BY <1>1, <1>2 DEF Assured, Granted

\* A call that is in no step of a deployment now, and one that was in none before.
Apart(q) == job'[q].at \notin Deploying /\ last'[q] \in {last[q], None}
Aside(q) == Apart(q) /\ job[q].at \notin Deploying

LEMMA ApprovedKept ==
    ASSUME TypeInv, ApprovedInv, approved \subseteq approved', OnlyApprovedRuns', Granted(wrapper)',
           \A q \in Runtimes : Kept(q) \/ Apart(q) \/ Assured(q)'
    PROVE  ApprovedInv'
<1>1. ASSUME NEW q \in Runtimes, Apart(q) PROVE Assured(q)'
  BY <1>1 DEF ApprovedInv, Assured, Apart, Granted, Snapped, Restores, Deploying
<1> QED BY <1>1, KeptAssured DEF ApprovedInv

LEMMA GroundsKept ==
    ASSUME TypeInv, Grounds, ArtifactTypes', Grows,
           \A q \in Runtimes :
             \/ Kept(q)
             \/ job'[q].at \notin Deploying /\ (Activates(plan'[q]) => Ages(q) \/ Grounded(tree', plan'[q]))
    PROVE  Grounds'
<1> SUFFICES ASSUME NEW q \in Runtimes, job'[q].at \in Deploying \/ Activates(plan'[q])
             PROVE  Grounded(tree', plan'[q])
  BY DEF Grounds
<1>1. CASE Kept(q)
  BY <1>1, KeptGrounded DEF Kept
<1>2. CASE Activates(plan'[q]) /\ Ages(q)
  BY <1>2, KeptGrounded
<1> QED BY <1>1, <1>2

LEMMA OrderlyKept ==
    ASSUME TypeInv, Orderly, ArtifactTypes', Grows, UNCHANGED <<wrapper, manifest>>,
           job'[Operator].at \in {"idle", "repin wrapper"},
           \A q \in Runtimes :
             \/ Kept(q)
             \/ Aside(q) /\ (Activates(plan'[q]) => Ages(q) \/ (Quiet => Before(plan'[q], wrapper)))
    PROVE  Orderly'
<1>1. \A q \in Runtimes : job[q].at \in Deploying <=> job'[q].at \in Deploying
  BY DEF Kept, Aside, Apart
<1>2. ASSUME NEW q \in Runtimes PROVE Backup(q)' /\ Stage(q)'
  <2>1. CASE Kept(q)
    BY <2>1, KeptStage DEF Orderly
  <2>2. CASE Aside(q)
    <3>1. Backup(q) /\ last[q] \in {None} \cup Snapshots
      BY DEF Orderly, TypeInv, FileTypes
    <3>2. job'[q].at \notin Snapped \cup Settled \cup {"snapshot", "manifest", "restore manifest"}
      BY <2>2 DEF Aside, Apart, Snapped, Settled, Restores, Deploying
    <3>3. Stage(q)'
      BY <3>2 DEF Stage
    <3>4. CASE last'[q] = None
      BY <3>2, <3>3, <3>4 DEF Backup
    <3>5. CASE last'[q] = last[q] /\ last[q] # None
      <4>1. last[q].wrapper \in Pinnings /\ last[q].manifest \in Manifests
        BY <3>1, <3>5 DEF Snapshots
      <4>2. Sound(tree', last[q].wrapper, last[q].manifest)
        BY <3>1, <3>5, <4>1, SoundAgain DEF Backup
      <4> QED BY <3>3, <3>5, <4>2 DEF Backup
    <3> QED BY <2>2, <3>4, <3>5 DEF Aside, Apart
  <2> QED BY <2>1, <2>2
<1>3. ASSUME Quiet' PROVE Sound(tree, wrapper, manifest)'
  <2>1. Sound(tree, wrapper, manifest)
    BY <1>1, <1>3 DEF Quiet, Orderly
  <2>2. Sound(tree', wrapper, manifest)
    BY <2>1, SoundAgain DEF TypeInv, FileTypes
  <2> QED BY <2>2
<1>4. ASSUME Quiet', NEW q \in Runtimes, Activates(plan'[q]), plan'[q].fresh
      PROVE  Before(plan'[q], wrapper')
  <2>1. Quiet
    BY <1>1, <1>4 DEF Quiet
  <2>2. CASE Ages(q)
    <3>1. Activates(plan[q]) /\ plan'[q] = plan[q]
      BY <1>4, <2>2, KeptPlan
    <3> QED BY <1>4, <2>1, <3>1 DEF Orderly
  <2> QED BY <1>4, <2>1, <2>2 DEF Kept
<1> QED BY <1>1, <1>2, <1>3, <1>4 DEF Orderly
-----------------------------------------------------------------------------
(* Maintenance.                                                             *)

\* What every step of a maintenance call keeps.
Maintained(r) ==
    /\ Moves(r) /\ UNCHANGED <<artifacts, mishaps, deployment, approved>> /\ Ages(r)
    /\ {job[r].at, job'[r].at} \subseteq {"idle"} \cup Maintaining

LEMMA StepMaintained ==
    ASSUME TypeInv, NEW r \in Runtimes, UNCHANGED <<artifacts, mishaps, deployment, approved>>,
           plan' = Stale(plan) \/ UNCHANGED plan,
           OnlyJob(r), job'[r] \in Jobs, {job[r].at, job'[r].at} \subseteq {"idle"} \cup Maintaining
    PROVE  Maintained(r)
<1>1. JobFits(job'[r], plan'[r], last'[r])
  BY FitsAny DEF Maintaining, Preparing
<1>2. plan' \in [Runtimes -> Plans] /\ \A q \in Runtimes : Ages(q)
  BY AllAge DEF TypeInv
<1> QED BY <1>1, <1>2 DEF Maintained, Moves

\* What is recorded of an action d of which so much p has been carried out.
Truthful(p, d) ==
    /\ p = "done" => d \in {"authorized_pending", "outcome_unknown", "recovering", "succeeded"}
    /\ d \in {"recovering", "succeeded"} => p = "done"
    /\ d \in {"none", "blocked_active_work"} => p = "not"

LEMMA DecisionStep ==
    ASSUME TypeInv, DecisionInv, NEW r \in Runtimes, OnlyJob(r), NEW d, NEW p,
           decision' = [decision EXCEPT ![r] = d], performed' = [performed EXCEPT ![r] = p],
           Truthful(p, d),
           job'[r].at \in Maintaining => d = "authorized_pending",
           job'[r].at \in {"recheck", "perform"} => p = "not",
           job'[r].at = "record" => p = "done"
    PROVE  DecisionInv'
<1>1. /\ decision = [q \in Runtimes |-> decision[q]] /\ performed = [q \in Runtimes |-> performed[q]]
      /\ \A q \in Runtimes : Pending(q) /\ Truthful(performed[q], decision[q])
  BY DEF DecisionInv, DecisionIsTrue, Truthful
<1>2. /\ decision' = [q \in Runtimes |-> decision'[q]] /\ performed' = [q \in Runtimes |-> performed'[q]]
      /\ decision'[r] = d /\ performed'[r] = p
      /\ \A q \in Runtimes \ {r} : decision'[q] = decision[q] /\ performed'[q] = performed[q]
  BY <1>1
<1>3. \A q \in Runtimes \ {r} : job'[q] = job[q]
  BY JobsTyped DEF OnlyJob, TypeInv
<1>4. \A q \in Runtimes : Pending(q)'
  <2>1. ASSUME NEW q \in Runtimes \ {r} PROVE Pending(q)'
    <3>1. job'[q] = job[q] /\ decision'[q] = decision[q] /\ performed'[q] = performed[q] /\ Pending(q)
      BY <1>1, <1>2, <1>3
    <3> QED BY <3>1 DEF Pending
  <2>2. Pending(r)'
    BY <1>2 DEF Pending
  <2> QED BY <2>1, <2>2
<1>5. \A q \in Runtimes : Truthful(performed'[q], decision'[q])
  BY <1>1, <1>2
<1>6. DecisionIsTrue'
  BY <1>5 DEF DecisionIsTrue, Truthful
<1> QED BY <1>2, <1>4, <1>6 DEF DecisionInv

\* A step beside the maintenance calls.
LEMMA DecisionKept ==
    ASSUME DecisionInv, UNCHANGED <<decision, performed>>,
           \A q \in Runtimes : job'[q] = job[q] \/ job'[q].at \notin Maintaining
    PROVE  DecisionInv'
<1>1. \A q \in Runtimes : Pending(q)'
  BY DEF DecisionInv, Pending, Maintaining
<1> QED BY <1>1 DEF DecisionInv, DecisionIsTrue

\* A row is saved or not.
LEMMA Saved ==
    ASSUME DecisionInv, NEW r \in Runtimes, NEW outcome, Save(r, outcome)
    PROVE  \E d \in {decision[r], outcome} : decision' = [decision EXCEPT ![r] = d]
<1>1. decision = [decision EXCEPT ![r] = decision[r]]
  BY DEF DecisionInv
<1> QED BY <1>1 DEF Save

LEMMA Unsaved ==
    ASSUME DecisionInv, NEW r \in Runtimes
    PROVE  /\ UNCHANGED decision => decision' = [decision EXCEPT ![r] = decision[r]]
           /\ UNCHANGED performed => performed' = [performed EXCEPT ![r] = performed[r]]
  BY DEF DecisionInv

LEMMA BeginMaintained ==
    ASSUME TypeInv, NEW r \in Runtimes, NEW action \in Maintenances, BeginMaintenance(r, action)
    PROVE  Maintained(r) /\ (DecisionInv => DecisionInv')
<1>1. /\ job[r].at = "idle" /\ UNCHANGED <<artifacts, mishaps, deployment, approved>>
      /\ performed' = [performed EXCEPT ![r] = "not"]
      /\ \/ /\ decision' = [decision EXCEPT ![r] = "authorized_pending"]
            /\ Begin(r, "recheck", action) /\ plan' = Stale(plan)
         \/ decision' = [decision EXCEPT ![r] = "none"] /\ UNCHANGED <<job, plan>>
  BY DEF BeginMaintenance
<1>2. r \in Actors /\ job[r] \in Jobs /\ "recheck" \in Steps
  BY JobsTyped DEF TypeInv, Steps, Maintaining
<1>3. CASE /\ decision' = [decision EXCEPT ![r] = "authorized_pending"]
           /\ Begin(r, "recheck", action) /\ plan' = Stale(plan)
  <2>1. OnlyJob(r) /\ job'[r] \in Jobs /\ job'[r].at = "recheck"
    BY <1>2, <1>3, Began DEF TypeInv
  <2>2. Maintained(r)
    BY <1>1, <1>3, <2>1, StepMaintained DEF Maintaining
  <2>3. Truthful("not", "authorized_pending")
    BY DEF Truthful
  <2> QED BY <1>1, <1>3, <2>1, <2>2, <2>3, DecisionStep
<1>4. CASE decision' = [decision EXCEPT ![r] = "none"] /\ UNCHANGED <<job, plan>>
  <2>1. OnlyJob(r) /\ job'[r] = job[r]
    BY <1>4 DEF OnlyJob, TypeInv, CallTypes
  <2>2. Maintained(r)
    BY <1>1, <1>2, <1>4, <2>1, StepMaintained
  <2>3. Truthful("not", "none")
    BY DEF Truthful
  <2> QED BY <1>1, <1>4, <2>1, <2>2, <2>3, DecisionStep DEF Maintaining
<1> QED BY <1>1, <1>3, <1>4

LEMMA Ended ==
    ASSUME TypeInv, NEW r \in Runtimes, UNCHANGED <<artifacts, mishaps, deployment, approved>>, Ends(r),
           job[r].at \in Maintaining
    PROVE  Maintained(r) /\ OnlyJob(r) /\ job'[r].at = "idle"
<1>1. OnlyJob(r) /\ job'[r] = Idle
  BY JobsTyped, Over DEF Ends, TypeInv
<1> QED BY <1>1, IdleFits, StepMaintained DEF Ends

LEMMA RecheckMaintained ==
    ASSUME TypeInv, NEW r \in Runtimes, RecheckBlockers(r)
    PROVE  Maintained(r) /\ (DecisionInv => DecisionInv')
<1>1. /\ job[r].at = "recheck" /\ UNCHANGED <<artifacts, mishaps, deployment, approved, performed>>
      /\ \/ Save(r, "blocked_active_work") /\ Ends(r)
         \/ Goto(r, "perform") /\ plan' = Stale(plan) /\ UNCHANGED decision
         \/ Ends(r) /\ UNCHANGED decision
  BY DEF RecheckBlockers
<1>2. /\ job[r].at \in Maintaining /\ r \in Actors /\ "perform" \in Steps \cap Maintaining
  BY <1>1, JobsTyped DEF TypeInv, Steps, Maintaining
<1>3. ASSUME DecisionInv PROVE decision[r] = "authorized_pending" /\ performed[r] = "not"
  BY <1>1, <1>2, <1>3 DEF DecisionInv, Pending
<1>4. \A d \in {"authorized_pending", "blocked_active_work"} : Truthful("not", d)
  BY DEF Truthful
<1>5. CASE Ends(r) /\ (Save(r, "blocked_active_work") \/ UNCHANGED decision)
  <2>1. Maintained(r) /\ OnlyJob(r) /\ job'[r].at = "idle"
    BY <1>1, <1>2, <1>5, Ended
  <2>2. ASSUME DecisionInv PROVE DecisionInv'
    <3>1. performed' = [performed EXCEPT ![r] = "not"]
      BY <1>1, <1>3, <2>2, Unsaved
    <3>2. \E d \in {"authorized_pending", "blocked_active_work"} : decision' = [decision EXCEPT ![r] = d]
      BY <1>3, <1>5, <2>2, Saved, Unsaved
    <3> QED BY <1>4, <2>1, <2>2, <3>1, <3>2, DecisionStep DEF Maintaining
  <2> QED BY <2>1, <2>2
<1>6. CASE Goto(r, "perform") /\ plan' = Stale(plan) /\ UNCHANGED decision
  <2>1. OnlyJob(r) /\ job'[r] \in Jobs /\ job'[r].at = "perform"
    BY <1>2, <1>6, Went DEF TypeInv
  <2>2. Maintained(r)
    BY <1>1, <1>2, <1>6, <2>1, StepMaintained
  <2>3. ASSUME DecisionInv PROVE DecisionInv'
    <3>1. /\ performed' = [performed EXCEPT ![r] = "not"]
          /\ decision' = [decision EXCEPT ![r] = "authorized_pending"]
      BY <1>1, <1>3, <1>6, <2>3, Unsaved
    <3> QED BY <1>4, <2>1, <2>3, <3>1, DecisionStep
  <2> QED BY <2>2, <2>3
<1> QED BY <1>1, <1>5, <1>6
\* The action is done, or has failed with so much of it done.
LEMMA PerformMaintained ==
    ASSUME TypeInv, NEW r \in Runtimes, job[r].at = "perform",
           UNCHANGED <<artifacts, mishaps, deployment, approved>>,
           \/ Done(r)
           \/ \E much \in {"not", "partly", "done"} : Fails(r, FALSE, much)
           \/ \E much \in {"not", "partly"} : Fails(r, TRUE, much)
    PROVE  Maintained(r) /\ (DecisionInv => DecisionInv')
<1>1. job[r].at \in Maintaining /\ r \in Actors /\ "record" \in Steps \cap Maintaining
  BY JobsTyped DEF TypeInv, Steps, Maintaining
<1>2. ASSUME DecisionInv PROVE decision[r] = "authorized_pending"
  BY <1>1, <1>2 DEF DecisionInv, Pending
<1>3. CASE Done(r)
  <2>1. performed' = [performed EXCEPT ![r] = "done"] /\ Goto(r, "record") /\ UNCHANGED <<decision, plan>>
    BY <1>3 DEF Done
  <2>2. OnlyJob(r) /\ job'[r] \in Jobs /\ job'[r].at = "record"
    BY <1>1, <2>1, Went DEF TypeInv
  <2>3. Maintained(r)
    BY <1>1, <2>1, <2>2, StepMaintained
  <2>4. ASSUME DecisionInv PROVE DecisionInv'
    <3>1. decision' = [decision EXCEPT ![r] = "authorized_pending"]
      BY <1>2, <2>1, <2>4, Unsaved
    <3>2. Truthful("done", "authorized_pending")
      BY DEF Truthful
    <3> QED BY <2>1, <2>2, <2>4, <3>1, <3>2, DecisionStep
  <2> QED BY <2>3, <2>4
<1>4. ASSUME NEW known \in BOOLEAN, NEW much \in {"not", "partly", "done"}, Fails(r, known, much),
             known => much # "done"
      PROVE  Maintained(r) /\ (DecisionInv => DecisionInv')
  <2> PICK outcome : outcome = FailureOutcome(known)
    OBVIOUS
  <2>1. performed' = [performed EXCEPT ![r] = much] /\ Save(r, outcome) /\ Ends(r)
    BY <1>4 DEF Fails
  <2>2. Maintained(r) /\ OnlyJob(r) /\ job'[r].at = "idle"
    BY <1>1, <2>1, Ended
  <2>3. Truthful(much, outcome) /\ Truthful(much, "authorized_pending")
    BY <1>4 DEF FailureOutcome, Truthful
  <2>4. ASSUME DecisionInv PROVE DecisionInv'
    <3>1. \E d \in {"authorized_pending", outcome} : decision' = [decision EXCEPT ![r] = d]
      BY <1>2, <2>1, <2>4, Saved
    <3> QED BY <2>1, <2>2, <2>3, <2>4, <3>1, DecisionStep DEF Maintaining
  <2> QED BY <2>2, <2>4
<1> QED BY <1>3, <1>4

LEMMA RecordMaintained ==
    ASSUME TypeInv, NEW r \in Runtimes, RecordMaintenance(r)
    PROVE  Maintained(r) /\ (DecisionInv => DecisionInv')
<1> PICK outcome : outcome = IF job[r].root = "restart" THEN "recovering" ELSE "succeeded"
  OBVIOUS
<1>1. /\ job[r].at = "record" /\ UNCHANGED <<artifacts, mishaps, deployment, approved, performed>>
      /\ Save(r, outcome) /\ Ends(r)
  BY DEF RecordMaintenance
<1>2. job[r].at \in Maintaining
  BY <1>1 DEF Maintaining
<1>3. Maintained(r) /\ OnlyJob(r) /\ job'[r].at = "idle"
  BY <1>1, <1>2, Ended
<1>4. Truthful("done", outcome) /\ Truthful("done", "authorized_pending")
  BY DEF Truthful
<1>5. ASSUME DecisionInv PROVE DecisionInv'
  <2>1. decision[r] = "authorized_pending" /\ performed[r] = "done"
    BY <1>1, <1>2, <1>5 DEF DecisionInv, Pending
  <2>2. performed' = [performed EXCEPT ![r] = "done"]
    BY <1>1, <1>5, <2>1, Unsaved
  <2>3. \E d \in {"authorized_pending", outcome} : decision' = [decision EXCEPT ![r] = d]
    BY <1>1, <1>5, <2>1, Saved
  <2> QED BY <1>3, <1>4, <1>5, <2>2, <2>3, DecisionStep DEF Maintaining
<1> QED BY <1>3, <1>5

LEMMA MaintainsMaintained ==
    ASSUME TypeInv, NEW r \in Runtimes, Maintains(r)
    PROVE  Maintained(r) /\ (DecisionInv => DecisionInv')
<1>1. CASE QueueRestart(r)
  BY <1>1, PerformMaintained DEF QueueRestart, At
<1>2. CASE WriteShortcut(r)
  BY <1>2, PerformMaintained DEF WriteShortcut, At
<1>3. CASE InstallToolchain(r)
  BY <1>3, PerformMaintained DEF InstallToolchain, At
<1> QED BY <1>1, <1>2, <1>3, BeginMaintained, RecheckMaintained, RecordMaintained DEF Maintains
-----------------------------------------------------------------------------
(* Every step keeps every invariant.                                        *)

Preserved ==
    /\ TypeInv' /\ (BackedInv => BackedInv') /\ (ApprovedInv => ApprovedInv')
    /\ (DeployInv => DeployInv') /\ (DecisionInv => DecisionInv')

LEMMA BackedKept ==
    ASSUME TypeInv, BackedInv, Grows, UNCHANGED <<states, receipts>>,
           \A q \in Runtimes : job'[q] = job[q] \/ job'[q].at \notin Preparing
    PROVE  BackedInv'
<1>1. ReceiptIsBacked'
  BY DEF BackedInv, ReceiptIsBacked, Grows, TypeInv, ArtifactTypes, Roots, Exists
<1>2. ASSUME NEW q \in Runtimes PROVE Moved(job[q])'
  <2>1. CASE job'[q].at \notin Preparing
    BY <2>1 DEF Moved, Preparing
  <2>2. CASE job'[q] = job[q]
    <3>1. Moved(job[q]) /\ JobFits(job[q], plan[q], last[q])
      BY DEF BackedInv, TypeInv, CallTypes
    <3>2. job[q].at \in {"state", "seal", "persist"} => job[q].root \in Roots
      BY <3>1 DEF JobFits, Preparing, Roots
    <3> QED BY <2>2, <3>1, <3>2 DEF Moved, Grows, Exists
  <2> QED BY <2>1, <2>2
<1> QED BY <1>1, <1>2 DEF BackedInv

LEMMA FilesKept ==
    ASSUME TypeInv, ArtifactTypes', Grows, UNCHANGED <<wrapper, manifest, running>>,
           last' \in [Runtimes -> {None} \cup Snapshots],
           excused' \in BOOLEAN, approved' \subseteq Roots \X Contents
    PROVE  FileTypes'
<1>1. running # None => running.root \in Roots
  BY DEF TypeInv, FileTypes, Started, Managed
<1> QED BY <1>1 DEF TypeInv, FileTypes, Grows, Exists

\* A new plan is about contents that are there and what is deployed.
Timely(q) == Grounded(tree', plan'[q]) /\ (Quiet /\ Orderly => Before(plan'[q], wrapper))

\* A call of r outside of a deployment, which leaves the files alone.
LEMMA AsidePreserves ==
    ASSUME TypeInv, NEW r \in Runtimes, Moves(r), ArtifactTypes', Grows,
           UNCHANGED <<deployment, approved>>,
           job[r].at \notin Deploying, job'[r].at \notin Deploying,
           Ages(r) \/ Timely(r) \/ ~Activates(plan'[r])
    PROVE  TypeInv' /\ (ApprovedInv => ApprovedInv') /\ (DeployInv => DeployInv')
<1>1. UNCHANGED <<wrapper, manifest, running, last, excused, approved>>
  BY DEF deployment
<1>2. Aside(r)
  BY <1>1 DEF Aside, Apart
<1>3. \A q \in Runtimes \ {r} : Kept(q)
  BY <1>1, JobsTyped DEF Kept, Moves, OnlyJob, TypeInv
<1>4. job'[Operator] = job[Operator]
  BY JobsTyped DEF Moves, OnlyJob, TypeInv
<1>5. TypeInv'
  <2>1. CallTypes'
    BY <1>1, CallsTyped DEF TypeInv
  <2>2. FileTypes'
    BY <1>1, FilesKept DEF TypeInv, FileTypes
  <2> QED BY <2>1, <2>2 DEF TypeInv
<1>6. ASSUME ApprovedInv PROVE ApprovedInv'
  <2>1. OnlyApprovedRuns' /\ Granted(wrapper)'
    BY <1>1, <1>6 DEF ApprovedInv, OnlyApprovedRuns, Granted
  <2> QED BY <1>1, <1>2, <1>3, <1>6, <2>1, ApprovedKept DEF Aside
<1>7. ASSUME DeployInv PROVE DeployInv'
  <2>1. Grounds'
    <3>1. job'[r].at \notin Deploying /\ (Activates(plan'[r]) => Ages(r) \/ Grounded(tree', plan'[r]))
      BY DEF Timely
    <3>2. \A q \in Runtimes :
            \/ Kept(q)
            \/ job'[q].at \notin Deploying /\ (Activates(plan'[q]) => Ages(q) \/ Grounded(tree', plan'[q]))
      BY <1>3, <3>1
    <3>3. Grounds
      BY <1>7 DEF DeployInv
    <3> QED BY <3>2, <3>3, GroundsKept
  <2>2. ASSUME ~excused PROVE Orderly'
    <3>1. Orderly
      BY <1>7, <2>2 DEF DeployInv
    <3>2. job'[Operator].at \in {"idle", "repin wrapper"}
      BY <1>4, <3>1 DEF Orderly
    <3>3. \A q \in Runtimes :
            \/ Kept(q)
            \/ Aside(q) /\ (Activates(plan'[q]) => Ages(q) \/ (Quiet => Before(plan'[q], wrapper)))
      <4>1. Activates(plan'[r]) => Ages(r) \/ (Quiet => Before(plan'[r], wrapper))
        BY <3>1 DEF Timely
      <4> QED BY <1>2, <1>3, <4>1
    <3> QED BY <1>1, <3>1, <3>2, <3>3, OrderlyKept
  <2> QED BY <1>1, <2>1, <2>2 DEF DeployInv
<1> QED BY <1>5, <1>6, <1>7

LEMMA PreparesPreserve ==
    ASSUME TypeInv, NEW r \in Runtimes, Prepares(r)
    PROVE  Preserved
<1>1. Prepared(r) /\ (BackedInv => BackedInv') /\ UNCHANGED <<deployment, approved, decision, performed>>
  BY PreparesPrepared DEF Prepares, maintenance
<1>2. job[r].at \notin Deploying /\ job'[r].at \notin Deploying \cup Maintaining
  BY <1>1 DEF Prepared, Preparing, Deploying, Maintaining
<1>3. TypeInv' /\ (ApprovedInv => ApprovedInv') /\ (DeployInv => DeployInv')
  BY <1>1, <1>2, AsidePreserves DEF Prepared
<1>4. ASSUME DecisionInv PROVE DecisionInv'
  <2>1. \A q \in Runtimes : job'[q] = job[q] \/ job'[q].at \notin Maintaining
    BY <1>1, <1>2, JobsTyped DEF Prepared, Moves, OnlyJob, TypeInv
  <2> QED BY <1>1, <1>4, <2>1, DecisionKept
<1> QED BY <1>1, <1>3, <1>4 DEF Preserved

LEMMA MaintainsPreserve ==
    ASSUME TypeInv, NEW r \in Runtimes, Maintains(r)
    PROVE  Preserved
<1>1. Maintained(r) /\ (DecisionInv => DecisionInv')
  BY MaintainsMaintained
<1>2. job[r].at \notin Deploying /\ job'[r].at \notin Deploying \cup Preparing
  BY <1>1 DEF Maintained, Preparing, Deploying, Maintaining
<1>3. UNCHANGED <<canonical, db, tree, states, receipts, mishaps>>
  BY <1>1 DEF Maintained, artifacts
<1>4. ArtifactTypes' /\ Grows
  BY <1>3, StaysGrown DEF TypeInv, ArtifactTypes, Exists
<1>5. TypeInv' /\ (ApprovedInv => ApprovedInv') /\ (DeployInv => DeployInv')
  BY <1>1, <1>2, <1>4, AsidePreserves DEF Maintained
<1>6. ASSUME BackedInv PROVE BackedInv'
  <2>1. \A q \in Runtimes : job'[q] = job[q] \/ job'[q].at \notin Preparing
    BY <1>1, <1>2, JobsTyped DEF Maintained, Moves, OnlyJob, TypeInv
  <2> QED BY <1>3, <1>4, <1>6, <2>1, BackedKept
<1> QED BY <1>1, <1>5, <1>6 DEF Preserved

LEMMA DeploysPreserve ==
    ASSUME TypeInv, NEW r \in Runtimes, Deploys(r) \/ PostReadback(r)
    PROVE  Preserved
<1>0. UNCHANGED mishaps
  BY DEF Deploys, PostReadback, ReadSnapshot, WriteWrapper, WriteManifest, ReadBack, Restart, Kickstart,
         RestoreWrapper, RestoreManifest, RestoreReadBack, Rollback, RestartRolledBack, budgets
<1>1. Deployed(r) /\ (ApprovedInv => ApprovedInv') /\ (DeployInv => DeployInv')
  BY DeploysDeployed, PostReadbackDeployed
<1>2. UNCHANGED <<decision, performed>>
  BY DEF Deploys, PostReadback, maintenance
<1>3. UNCHANGED <<canonical, db, tree, states, receipts>>
  BY <1>1 DEF Deployed, artifacts
<1>4. ArtifactTypes' /\ Grows
  BY <1>0, <1>3, StaysGrown DEF TypeInv, ArtifactTypes, Exists
<1>5. \A q \in Runtimes : job'[q] = job[q] \/ job'[q].at \notin Preparing \cup Maintaining
  BY <1>1, JobsTyped DEF Deployed, Moves, OnlyJob, TypeInv, Deploying, Preparing, Maintaining
<1>6. CallTypes'
  BY <1>1, CallsTyped DEF Deployed, TypeInv
<1>7. TypeInv'
  BY <1>1, <1>4, <1>6 DEF Deployed, TypeInv
<1> QED BY <1>1, <1>2, <1>3, <1>4, <1>5, <1>7, BackedKept, DecisionKept DEF Preserved
LEMMA PreflightPreserves ==
    ASSUME TypeInv, NEW r \in Runtimes, NEW root \in Roots, ActivationPreflight(r, root)
    PROVE  Preserved
<1> PICK c : c = Current
  OBVIOUS
<1> PICK p : p = [kind |-> "activate", root |-> root, at |-> tree[root].at,
                  db |-> DatabaseIdentity, fresh |-> TRUE, current |-> c]
  OBVIOUS
<1>1. /\ job[r].at = "idle" /\ running # None /\ root # Main /\ Exists(root)
      /\ plan' = [plan EXCEPT ![r] = p]
      /\ UNCHANGED <<artifacts, job, mishaps, deployment, approved, maintenance>>
  BY DEF ActivationPreflight, budgets
<1>2. /\ tree \in [Roots -> {None} \cup Sources] /\ db \in Nat
      /\ running \in Started /\ Exists(running.root)
  BY <1>1, ArtifactAssumption DEF TypeInv, ArtifactTypes, FileTypes
<1>3. running.root \in Managed /\ running.root \in Roots /\ root \in Managed
  BY <1>1, <1>2 DEF Started, Managed
<1>4. tree[root] \in Sources /\ tree[running.root] \in Sources
  BY <1>1, <1>2, <1>3 DEF Exists
<1>5. tree[root].at \in Contents /\ tree[running.root].at \in Contents
  BY <1>4 DEF Sources
<1>6. /\ c \in [root : Managed, at : Contents, base : Bases, db : Nat]
      /\ c.root = running.root /\ c.at = tree[running.root].at
  BY <1>2, <1>3, <1>5, BaseTyped DEF Current, DatabaseIdentity
<1>7. p \in Activations /\ p.root = root /\ p.at = tree[root].at /\ p.current = c
  BY <1>2, <1>3, <1>5, <1>6 DEF Activations, DatabaseIdentity
<1>8. plan' \in [Runtimes -> Plans] /\ plan'[r] = p /\ \A q \in Runtimes \ {r} : plan'[q] = plan[q]
  BY <1>1, <1>7 DEF Plans, TypeInv, CallTypes
<1>9. Moves(r)
  <2>1. job[r] \in Jobs /\ OnlyJob(r)
    BY <1>1, JobsTyped DEF TypeInv, CallTypes, OnlyJob
  <2>2. JobFits(job'[r], plan'[r], last'[r])
    BY <1>1, <2>1, FitsAny DEF Preparing
  <2> QED BY <1>8, <2>1, <2>2 DEF Moves, Ages
<1>10. ArtifactTypes' /\ Grows
  BY <1>1, StaysGrown DEF TypeInv, ArtifactTypes, artifacts, Exists
<1>11. Timely(r)
  <2>1. Grounded(tree, p)
    BY <1>1, <1>2, <1>5, <1>6, <1>7, ArtifactAssumption DEF Grounded, Exists, Contents
  <2>2. ASSUME Quiet, Orderly PROVE Before(p, wrapper)
    <3>1. Sound(tree, wrapper, manifest) /\ wrapper \in Pinnings /\ manifest \in Manifests
      BY <2>2 DEF Orderly, TypeInv, FileTypes
    <3>2. wrapper.patch \in Nat /\ manifest.head \in Nat
      BY <3>1, ArtifactAssumption DEF Pinnings, Manifests, Contents, Diff
    <3>3. p.current.at \in Nat
      BY <1>5, <1>6, <1>7, ArtifactAssumption DEF Contents
    <3>4. wrapper.root = p.current.root => manifest.head <= p.current.at /\ wrapper.patch <= manifest.head
      BY <1>6, <1>7, <3>1 DEF Sound
    <3> QED BY <3>2, <3>3, <3>4 DEF Before
  <2>3. tree' = tree
    BY <1>1 DEF artifacts
  <2> QED BY <1>8, <2>1, <2>2, <2>3 DEF Timely
<1>12. TypeInv' /\ (ApprovedInv => ApprovedInv') /\ (DeployInv => DeployInv')
  <2>1. job[r].at \notin Deploying /\ job'[r].at \notin Deploying
    BY <1>1 DEF Deploying
  <2> QED BY <1>1, <1>9, <1>10, <1>11, <2>1, AsidePreserves
<1>13. (BackedInv => BackedInv') /\ (DecisionInv => DecisionInv')
  BY <1>1, <1>10, BackedKept, DecisionKept DEF maintenance, artifacts
<1> QED BY <1>12, <1>13 DEF Preserved

LEMMA ExecutePreserves ==
    ASSUME TypeInv, NEW r \in Runtimes, ExecuteActivation(r)
    PROVE  Preserved
<1> PICK p : p = plan[r]
  OBVIOUS
<1>1. /\ job[r].at = "idle" /\ Activates(p)
      /\ UNCHANGED <<artifacts, mishaps, wrapper, manifest, running, last, decision, performed>>
      /\ \/ /\ StillPinned(p) /\ approved' = approved \cup {<<p.root, p.at>>}
            /\ excused' = (excused \/ \E q \in Runtimes \ {r} : job[q].at \in Deploying)
            /\ Begin(r, "snapshot", p.root) /\ UNCHANGED plan
         \/ Finish(r) /\ UNCHANGED <<approved, excused>>
  BY DEF ExecuteActivation, Activates, maintenance
<1>2. p \in Activations /\ r \in Actors /\ job[r].at \notin Deploying
  BY <1>1, JobsTyped DEF TypeInv, CallTypes, Plans, Preparations, Activates, Deploying
<1>3. ArtifactTypes' /\ Grows /\ UNCHANGED <<states, receipts, tree>>
  BY <1>1, StaysGrown DEF TypeInv, ArtifactTypes, artifacts, Exists
<1>4. CASE Finish(r) /\ UNCHANGED <<approved, excused>>
  <2>1. Moves(r) /\ job'[r].at = "idle" /\ ~Activates(plan'[r])
    BY <1>4, Finished, IdleFits DEF TypeInv
  <2>2. TypeInv' /\ (ApprovedInv => ApprovedInv') /\ (DeployInv => DeployInv')
    BY <1>1, <1>2, <1>3, <1>4, <2>1, AsidePreserves DEF deployment, Deploying
  <2>3. \A q \in Runtimes : job'[q] = job[q] \/ job'[q].at \notin Preparing \cup Maintaining
    BY <2>1, JobsTyped DEF Moves, OnlyJob, TypeInv, Preparing, Maintaining
  <2> QED BY <1>1, <1>3, <2>2, <2>3, BackedKept, DecisionKept DEF Preserved
<1>5. CASE /\ StillPinned(p) /\ approved' = approved \cup {<<p.root, p.at>>}
           /\ excused' = (excused \/ \E q \in Runtimes \ {r} : job[q].at \in Deploying)
           /\ Begin(r, "snapshot", p.root) /\ UNCHANGED plan
  <2>1. p.root \in Roots /\ p.at \in Contents
    BY <1>2 DEF Activations, Managed
  <2>2. OnlyJob(r) /\ job'[r] \in Jobs /\ job'[r].at = "snapshot"
    BY <1>2, <1>5, <2>1, Began DEF TypeInv, Steps, Deploying
  <2>3. "snapshot" \in Deploying /\ "snapshot" \in Settled
        /\ "snapshot" \notin Snapped \cup Preparing \cup Maintaining \cup Repinning
    BY DEF Deploying, Settled, Snapped, Restores, Preparing, Maintaining, Repinning
  <2>4. Moves(r) /\ \A q \in Runtimes \ {r} : Kept(q)
    <3>1. JobFits(job'[r], plan'[r], last'[r])
      BY <1>2, <1>5, <2>2, <2>3 DEF JobFits, Restores, Snapped
    <3> QED BY <1>1, <1>5, <2>2, <3>1, JobsTyped DEF Moves, Ages, OnlyJob, Kept, TypeInv, CallTypes
  <2>5. TypeInv'
    <3>1. excused' \in BOOLEAN /\ approved' \subseteq Roots \X Contents
          /\ last' \in [Runtimes -> {None} \cup Snapshots]
      BY <1>1, <1>5, <2>1 DEF TypeInv, FileTypes
    <3>2. FileTypes'
      BY <1>1, <1>3, <3>1, FilesKept
    <3>3. CallTypes'
      BY <1>1, <2>4, CallsTyped DEF TypeInv
    <3> QED BY <1>3, <3>2, <3>3 DEF TypeInv
  <2>6. ASSUME ApprovedInv PROVE ApprovedInv'
    <3>1. Assured(r)'
      BY <1>1, <1>5, <2>2, <2>3, <2>6 DEF ApprovedInv, Assured, Granted
    <3>2. OnlyApprovedRuns' /\ Granted(wrapper)'
      BY <1>1, <1>5, <2>6 DEF ApprovedInv, OnlyApprovedRuns, Granted
    <3> QED BY <1>5, <2>4, <2>6, <3>1, <3>2, ApprovedKept
  <2>7. ASSUME DeployInv PROVE DeployInv'
    <3>1. Grounds'
      BY <1>1, <1>3, <1>5, <2>4, <2>7 DEF DeployInv, Grounds, Kept
    <3>2. ASSUME ~excused' PROVE Orderly'
      <4>1. Orderly /\ Quiet
        BY <1>2, <1>5, <2>7, <3>2 DEF DeployInv, Quiet
      <4>2. Sound(tree, wrapper, manifest) /\ Before(p, wrapper)
        BY <1>1, <1>5, <4>1 DEF Orderly, StillPinned
      <4>3. \A q \in Runtimes \ {r} : job'[q].at \notin Deploying
        BY <2>4, <4>1 DEF Quiet, Kept
      <4>4. ~Quiet'
        BY <2>2, <2>3 DEF Quiet
      <4>5. job'[Operator] = job[Operator]
        BY <2>2, JobsTyped DEF OnlyJob, TypeInv
      <4>6. Backup(r)' /\ Stage(r)'
        <5>1. Backup(r)
          BY <4>1 DEF Orderly
        <5>2. Backup(r)'
          BY <1>1, <1>3, <2>2, <2>3, <5>1 DEF Backup
        <5>3. Stage(r)'
          BY <1>1, <1>3, <1>5, <2>2, <4>2 DEF Stage
        <5> QED BY <5>2, <5>3
      <4>7. \A q \in Runtimes \ {r} : Backup(q)' /\ Stage(q)'
        BY <1>1, <1>3, <2>4, <4>1, KeptStage DEF Orderly
      <4>8. \A q \in Runtimes : Backup(q)' /\ Stage(q)'
        BY <4>6, <4>7
      <4> QED BY <4>1, <4>3, <4>4, <4>5, <4>8 DEF Orderly
    <3> QED BY <3>1, <3>2 DEF DeployInv
  <2>8. \A q \in Runtimes : job'[q] = job[q] \/ job'[q].at \notin Preparing \cup Maintaining
    BY <2>2, <2>3, <2>4 DEF Kept
  <2> QED BY <1>1, <1>3, <2>5, <2>6, <2>7, <2>8, BackedKept, DecisionKept DEF Preserved
<1> QED BY <1>1, <1>4, <1>5
LEMMA AnswerPreserves ==
    ASSUME TypeInv, NEW r \in Runtimes, Answer(r)
    PROVE  Preserved
<1>1. /\ job[r].at \in {"answered", "unknown"} /\ Finish(r)
      /\ excused' = (excused \/ job[r].at = "unknown")
      /\ UNCHANGED <<artifacts, mishaps, wrapper, manifest, running, last, approved, decision, performed>>
  BY DEF Answer, budgets, maintenance
<1>2. Moves(r) /\ job'[r].at = "idle" /\ plan'[r] = None /\ ~Activates(plan'[r])
  BY <1>1, Finished, IdleFits DEF TypeInv
<1>3. \A q \in Runtimes \ {r} : Kept(q) /\ plan'[q] = Aged(plan[q]) /\ plan[q] \in Plans
  <2>1. \A q \in Runtimes \ {r} : plan'[q] = Aged(plan[q]) /\ plan[q] \in Plans
    BY <1>1, StaleWithout DEF Finish, TypeInv, CallTypes
  <2> QED BY <1>1, <1>2, <2>1, JobsTyped DEF Kept, Ages, Moves, OnlyJob, TypeInv
<1>4. ArtifactTypes' /\ Grows /\ UNCHANGED <<states, receipts, tree>>
  BY <1>1, StaysGrown DEF TypeInv, ArtifactTypes, artifacts, Exists
<1>5. job[r].at \in Deploying /\ job'[r].at \notin Deploying \cup Preparing \cup Maintaining
      /\ job'[r].at \notin Snapped \cup Settled \cup {"snapshot", "manifest", "restore manifest"}
  BY <1>1, <1>2 DEF Deploying, Preparing, Maintaining, Snapped, Restores, Settled
<1>6. TypeInv'
  <2>1. excused' \in BOOLEAN /\ approved' \subseteq Roots \X Contents
        /\ last' \in [Runtimes -> {None} \cup Snapshots]
    BY <1>1 DEF TypeInv, FileTypes
  <2>2. FileTypes'
    BY <1>1, <1>4, <2>1, FilesKept
  <2>3. CallTypes'
    BY <1>1, <1>2, CallsTyped DEF TypeInv
  <2> QED BY <1>4, <2>2, <2>3 DEF TypeInv
<1>7. ASSUME ApprovedInv PROVE ApprovedInv'
  <2>1. OnlyApprovedRuns' /\ Granted(wrapper)' /\ Apart(r)
    BY <1>1, <1>5, <1>7 DEF ApprovedInv, OnlyApprovedRuns, Granted, Apart
  <2> QED BY <1>1, <1>3, <1>7, <2>1, ApprovedKept
<1>8. ASSUME DeployInv PROVE DeployInv'
  <2>1. Grounds'
    <3>1. \A q \in Runtimes :
            \/ Kept(q)
            \/ job'[q].at \notin Deploying /\ (Activates(plan'[q]) => Ages(q) \/ Grounded(tree', plan'[q]))
      BY <1>2, <1>3, <1>5
    <3> QED BY <1>4, <1>8, <3>1, GroundsKept DEF DeployInv
  <2>2. ASSUME ~excused' PROVE Orderly'
    <3>1. Orderly /\ job[r].at = "answered"
      BY <1>1, <1>8, <2>2 DEF DeployInv
    <3>2. Sound(tree, wrapper, manifest)
      BY <3>1 DEF Orderly, Stage, Settled
    <3>3. \A q \in Runtimes : Activates(plan'[q]) => ~plan'[q].fresh
      BY <1>2, <1>3, Aging
    <3>4. job'[Operator] = job[Operator]
      BY <1>2, JobsTyped DEF Moves, OnlyJob, TypeInv
    <3>5. \A q \in Runtimes \ {r} : job'[q] = job[q]
      BY <1>3 DEF Kept
    <3>6. \A q, s \in Runtimes : job'[q].at \in Deploying /\ job'[s].at \in Deploying => q = s
      BY <1>5, <3>1, <3>5 DEF Orderly
    <3>7. Backup(r)' /\ Stage(r)'
      <4>1. Backup(r)
        BY <3>1 DEF Orderly
      <4>2. Backup(r)'
        BY <1>1, <1>4, <1>5, <4>1 DEF Backup
      <4>3. Stage(r)'
        BY <1>5 DEF Stage
      <4> QED BY <4>2, <4>3
    <3>8. \A q \in Runtimes \ {r} : Backup(q)' /\ Stage(q)'
      BY <1>1, <1>3, <1>4, <3>1, KeptStage DEF Orderly
    <3>9. Sound(tree, wrapper, manifest)'
      BY <1>1, <1>4, <3>2
    <3>10. \A q \in Runtimes : Backup(q)' /\ Stage(q)'
      BY <3>7, <3>8
    <3>11. job'[Operator].at \in {"idle", "repin wrapper"}
      BY <3>1, <3>4 DEF Orderly
    <3> QED BY <3>3, <3>6, <3>9, <3>10, <3>11 DEF Orderly
  <2> QED BY <2>1, <2>2 DEF DeployInv
<1>9. \A q \in Runtimes : job'[q] = job[q] \/ job'[q].at \notin Preparing \cup Maintaining
  BY <1>3, <1>5 DEF Kept
<1> QED BY <1>1, <1>4, <1>6, <1>7, <1>8, <1>9, BackedKept, DecisionKept DEF Preserved

LEMMA DiePreserves ==
    ASSUME TypeInv, NEW some \in SUBSET Runtimes, Die(some), mishaps' \in {mishaps, mishaps + 1},
           mishaps' <= MaxMishaps
    PROVE  Preserved
<1>1. /\ job' = [a \in Actors |-> IF a \in some THEN Idle ELSE job[a]]
      /\ plan' = [r \in Runtimes |-> IF r \in some THEN None ELSE plan[r]]
      /\ last' = [r \in Runtimes |-> IF r \in some THEN None ELSE last[r]]
      /\ excused' = (excused \/ \E r \in some : job[r].at \in Deploying)
      /\ UNCHANGED <<artifacts, wrapper, manifest, running, approved, decision, performed>>
  BY DEF Die
<1>2. \A q \in Runtimes : q \in Actors
  BY JobsTyped DEF TypeInv
<1>3. \A q \in Runtimes \ some : job'[q] = job[q] /\ plan'[q] = plan[q] /\ last'[q] = last[q] /\ Kept(q)
  BY <1>1, <1>2 DEF Kept, Ages
<1>4. \A q \in some : job'[q] = Idle /\ plan'[q] = None /\ last'[q] = None /\ ~Activates(plan'[q])
  BY <1>1, <1>2 DEF Activates
<1>5. Idle.at \notin Deploying \cup Preparing \cup Maintaining
  BY IdleFits DEF Deploying, Preparing, Maintaining
<1>6. job'[Operator] = job[Operator]
  BY <1>1, JobsTyped DEF TypeInv
<1>7. ArtifactTypes' /\ Grows /\ UNCHANGED <<states, receipts, tree>>
  <2>1. UNCHANGED <<canonical, db, tree, states, receipts>>
    BY <1>1 DEF artifacts
  <2>2. mishaps' \in 0..MaxMishaps /\ db' \in 0..mishaps'
    BY <2>1, ArtifactAssumption DEF TypeInv, ArtifactTypes
  <2>3. \A root \in Roots : Exists(root) => tree[root].at \in Nat /\ tree[root].at <= mishaps
    BY ArtifactAssumption DEF TypeInv, ArtifactTypes, Exists, Sources, Contents
  <2>4. \A root \in Roots : tree[root] # None => tree[root].at <= mishaps'
    BY <2>3, ArtifactAssumption DEF TypeInv, ArtifactTypes, Exists
  <2> QED BY <2>1, <2>2, <2>4, StaysGrown DEF TypeInv, ArtifactTypes, Exists
<1>8. TypeInv'
  <2>1. plan' \in [Runtimes -> Plans] /\ last' \in [Runtimes -> {None} \cup Snapshots]
    BY <1>1 DEF TypeInv, CallTypes, FileTypes, Plans
  <2>2. \A q \in Runtimes : JobFits(job'[q], plan'[q], last'[q])
    BY <1>3, <1>4, IdleFits DEF TypeInv, CallTypes
  <2>3. RepinFits(job'[Operator]) /\ job' = [a \in Actors |-> job'[a]]
    BY <1>1, <1>6 DEF TypeInv, CallTypes
  <2>4. excused' \in BOOLEAN /\ approved' \subseteq Roots \X Contents
    BY <1>1 DEF TypeInv, FileTypes
  <2>5. FileTypes'
    BY <1>1, <1>7, <2>1, <2>4, FilesKept
  <2> QED BY <1>7, <2>1, <2>2, <2>3, <2>5 DEF TypeInv, CallTypes
<1>9. ASSUME ApprovedInv PROVE ApprovedInv'
  <2>1. OnlyApprovedRuns' /\ Granted(wrapper)' /\ \A q \in Runtimes : Kept(q) \/ Apart(q)
    BY <1>1, <1>3, <1>4, <1>5, <1>9 DEF ApprovedInv, OnlyApprovedRuns, Granted, Apart
  <2> QED BY <1>1, <1>9, <2>1, ApprovedKept
<1>10. ASSUME DeployInv PROVE DeployInv'
  <2>1. Grounds'
    <3>1. \A q \in Runtimes :
            \/ Kept(q)
            \/ job'[q].at \notin Deploying /\ (Activates(plan'[q]) => Ages(q) \/ Grounded(tree', plan'[q]))
      BY <1>3, <1>4, <1>5
    <3> QED BY <1>7, <1>10, <3>1, GroundsKept DEF DeployInv
  <2>2. ASSUME ~excused' PROVE Orderly'
    <3>1. Orderly /\ \A q \in some : job[q].at \notin Deploying
      BY <1>1, <1>10, <2>2 DEF DeployInv
    <3>2. \A q \in Runtimes :
            \/ Kept(q)
            \/ Aside(q) /\ (Activates(plan'[q]) => Ages(q) \/ (Quiet => Before(plan'[q], wrapper)))
      BY <1>3, <1>4, <1>5, <3>1 DEF Aside, Apart
    <3>3. job'[Operator].at \in {"idle", "repin wrapper"}
      BY <1>6, <3>1 DEF Orderly
    <3> QED BY <1>1, <1>7, <3>1, <3>2, <3>3, OrderlyKept
  <2> QED BY <2>1, <2>2 DEF DeployInv
<1>11. \A q \in Runtimes : job'[q] = job[q] \/ job'[q].at \notin Preparing \cup Maintaining
  BY <1>3, <1>4, <1>5
<1> QED BY <1>1, <1>7, <1>8, <1>9, <1>10, <1>11, BackedKept, DecisionKept DEF Preserved
\* A step of nobody's call.
LEMMA StillPreserves ==
    ASSUME TypeInv, ArtifactTypes', Grows,
           UNCHANGED <<job, plan, wrapper, manifest, last, excused, approved, states, receipts,
                       decision, performed>>,
           running' # None => running' \in Started /\ tree'[running'.root] # None,
           ApprovedInv => OnlyApprovedRuns'
    PROVE  Preserved
<1>1. \A q \in Runtimes : Kept(q)
  BY DEF Kept, Ages
<1>2. TypeInv'
  BY DEF TypeInv, CallTypes, FileTypes, Exists
<1>3. ASSUME ApprovedInv PROVE ApprovedInv'
  BY <1>1, <1>3, ApprovedKept DEF ApprovedInv, Granted
<1>4. ASSUME DeployInv PROVE DeployInv'
  <2>1. Grounds'
    BY <1>1, <1>4, GroundsKept DEF DeployInv
  <2>2. ASSUME ~excused PROVE Orderly'
    <3>1. Orderly /\ job'[Operator].at \in {"idle", "repin wrapper"}
      BY <1>4, <2>2 DEF DeployInv, Orderly
    <3> QED BY <1>1, <3>1, OrderlyKept
  <2> QED BY <2>1, <2>2 DEF DeployInv
<1>5. (BackedInv => BackedInv') /\ (DecisionInv => DecisionInv')
  BY BackedKept, DecisionKept
<1> QED BY <1>2, <1>3, <1>4, <1>5 DEF Preserved

LEMMA StartPreserves ==
    ASSUME TypeInv, Start, UNCHANGED <<approved, maintenance>>
    PROVE  Preserved
<1> PICK root : root = wrapper.root
  OBVIOUS
<1>1. /\ BootstrapAccepts /\ running' = [root |-> root, at |-> tree[root].at]
      /\ UNCHANGED <<canonical, db, tree, states, receipts, mishaps, plan, job, wrapper, manifest, last,
                     excused, approved, decision, performed>>
  BY DEF Start, artifacts, budgets, maintenance
<1>2. root # Main /\ Exists(root) /\ wrapper.patch = tree[root].at
  BY <1>1 DEF BootstrapAccepts
<1>3. root \in Managed /\ tree[root] \in Sources
  BY <1>2 DEF TypeInv, ArtifactTypes, FileTypes, Pinnings, Managed, Exists
<1>4. tree[root].at \in Contents
  BY <1>3 DEF Sources
<1>5. running' \in Started /\ running'.root = root /\ running'.at = tree[root].at
  BY <1>1, <1>3, <1>4 DEF Started
<1>6. ArtifactTypes' /\ Grows
  BY <1>1, StaysGrown DEF TypeInv, ArtifactTypes, Exists
<1>7. ASSUME ApprovedInv PROVE OnlyApprovedRuns'
  BY <1>1, <1>2, <1>4, <1>5, <1>7 DEF ApprovedInv, Granted, OnlyApprovedRuns
<1>8. tree'[running'.root] # None
  BY <1>1, <1>2, <1>5 DEF Exists
<1> QED BY <1>1, <1>5, <1>6, <1>7, <1>8, StillPreserves

LEMMA WorkPreserves ==
    ASSUME TypeInv, UNCHANGED <<artifacts, mishaps, plan, job, deployment, approved, decision, performed>>
    PROVE  Preserved
<1>1. UNCHANGED <<canonical, db, tree, states, receipts, mishaps, plan, job, wrapper, manifest, running,
                  last, excused, approved, decision, performed>>
  BY DEF artifacts, deployment
<1>2. ArtifactTypes' /\ Grows
  BY <1>1, StaysGrown DEF TypeInv, ArtifactTypes, Exists
<1>3. running' # None => running' \in Started /\ tree'[running'.root] # None
  BY <1>1 DEF TypeInv, FileTypes, Exists
<1>4. ApprovedInv => OnlyApprovedRuns'
  BY <1>1 DEF ApprovedInv, OnlyApprovedRuns
<1> QED BY <1>1, <1>2, <1>3, <1>4, StillPreserves

\* Someone edits a source, goes on with the canonical one or replaces the database.
LEMMA PeoplePreserve ==
    ASSUME TypeInv, People
    PROVE  Preserved
<1>1. UNCHANGED <<states, receipts, plan, job, wrapper, manifest, running, last, excused, approved,
                  decision, performed>>
  BY DEF People, NewRevision, ReplaceDatabase, Edit, deployment, maintenance
<1>2. ArtifactTypes' /\ Grows
  <2>1. CASE NewRevision
    <3>1. canonical' \in 1..MaxRevision /\ UNCHANGED <<db, tree, mishaps>>
      BY <2>1, ArtifactAssumption DEF NewRevision, TypeInv, ArtifactTypes, budgets
    <3> QED BY <1>1, <3>1, StaysGrown DEF TypeInv, ArtifactTypes, Exists
  <2>2. ASSUME ReplaceDatabase \/ \E root \in Roots : Edit(root)
        PROVE  /\ mishaps' = mishaps + 1 /\ mishaps' \in 0..MaxMishaps /\ UNCHANGED canonical
               /\ db' \in {db, db + 1} /\ db' \in 0..mishaps'
               /\ \A root \in Roots : Exists(root) => tree[root].at <= mishaps'
    <3>1. /\ mishaps' = mishaps + 1 /\ mishaps < MaxMishaps /\ UNCHANGED canonical
          /\ db' \in {db, db + 1}
      BY <2>2 DEF ReplaceDatabase, Edit, Mishap
    <3>2. mishaps \in Nat /\ db \in 0..mishaps /\ MaxMishaps \in Nat
      BY ArtifactAssumption DEF TypeInv, ArtifactTypes
    <3>3. \A root \in Roots : Exists(root) => tree[root].at \in Nat /\ tree[root].at <= mishaps
      BY ArtifactAssumption DEF TypeInv, ArtifactTypes, Exists, Sources, Contents
    <3>4. mishaps' \in 0..MaxMishaps /\ db' \in 0..mishaps'
      BY <3>1, <3>2
    <3>5. \A root \in Roots : Exists(root) => tree[root].at <= mishaps'
      BY <3>1, <3>2, <3>3
    <3> QED BY <3>1, <3>4, <3>5
  <2>3. CASE ReplaceDatabase
    <3>1. UNCHANGED tree
      BY <2>3 DEF ReplaceDatabase
    <3> QED BY <1>1, <2>2, <2>3, <3>1, StaysGrown DEF TypeInv, ArtifactTypes, Exists
  <2>4. ASSUME NEW root \in Roots, Edit(root) PROVE ArtifactTypes' /\ Grows
    <3>1. /\ Exists(root) /\ tree[root] \in Sources /\ mishaps' = mishaps + 1 /\ mishaps < MaxMishaps
          /\ mishaps \in Nat /\ MaxMishaps \in Nat
      BY <2>4, ArtifactAssumption DEF Edit, Mishap, TypeInv, ArtifactTypes, Exists
    <3>2. tree[root].at \in Nat /\ tree[root].at <= mishaps
      BY <3>1, ArtifactAssumption DEF TypeInv, ArtifactTypes, Sources, Contents
    <3>3. ASSUME NEW u, u = [tree[root] EXCEPT !.clean = FALSE] \/ u = [tree[root] EXCEPT !.at = @ + 1]
          PROVE  /\ u \in Sources /\ u # None /\ u.at \in {tree[root].at, tree[root].at + 1}
      <4>1. tree[root].at + 1 \in Contents
        BY <3>1, <3>2 DEF Contents
      <4>2. u \in Sources /\ u.at \in {tree[root].at, tree[root].at + 1}
        BY <3>1, <3>3, <4>1 DEF Sources
      <4> QED BY <4>2, ArtifactAssumption DEF Sources, Contents
    <3>4. tree' = [tree EXCEPT ![root].clean = FALSE] \/ tree' = [tree EXCEPT ![root].at = @ + 1]
      BY <2>4 DEF Edit
    <3>5. \E u : /\ u = [tree[root] EXCEPT !.clean = FALSE] \/ u = [tree[root] EXCEPT !.at = @ + 1]
                 /\ tree' = [tree EXCEPT ![root] = u]
      BY <3>4
    <3> PICK u : /\ u = [tree[root] EXCEPT !.clean = FALSE] \/ u = [tree[root] EXCEPT !.at = @ + 1]
                 /\ tree' = [tree EXCEPT ![root] = u]
      BY <3>5
    <3>6. u \in Sources /\ u # None /\ u.at \in {tree[root].at, tree[root].at + 1}
      BY <3>3
    <3>7. /\ tree' \in [Roots -> {None} \cup Sources] /\ tree'[root] = u
          /\ \A other \in Roots \ {root} : tree'[other] = tree[other]
      BY <3>6 DEF TypeInv, ArtifactTypes
    <3>8. u.at <= mishaps' /\ tree[root].at <= u.at
      BY <3>1, <3>2, <3>6
    <3>9. \A other \in Roots : tree'[other] # None => tree'[other].at <= mishaps'
      BY <2>2, <2>4, <3>7, <3>8 DEF Exists
    <3>10. ArtifactTypes'
      BY <1>1, <2>2, <2>4, <3>7, <3>9 DEF TypeInv, ArtifactTypes, Exists
    <3>11. Grows
      BY <3>6, <3>7, <3>8, ArtifactAssumption
         DEF Grows, Exists, TypeInv, ArtifactTypes, Sources, Contents
    <3> QED BY <3>10, <3>11
  <2> QED BY <2>1, <2>3, <2>4 DEF People
<1>3. running' # None => running' \in Started /\ tree'[running'.root] # None
  BY <1>1, <1>2 DEF TypeInv, FileTypes, Exists, Grows, Started, Managed
<1>4. ApprovedInv => OnlyApprovedRuns'
  BY <1>1 DEF ApprovedInv, OnlyApprovedRuns
<1> QED BY <1>1, <1>2, <1>3, <1>4, StillPreserves
\* A step of a repin: once it has touched the files, everything is excused.
LEMMA OperatorPreserves ==
    ASSUME TypeInv, UNCHANGED <<artifacts, mishaps, plan, last, approved, decision, performed>>,
           OnlyJob(Operator), RepinFits(job'[Operator]),
           wrapper' \in Pinnings, manifest' \in Manifests, running' \in {None, running},
           excused' \in BOOLEAN,
           Granted(wrapper) => Granted(wrapper'),
           \/ excused'
           \/ job[Operator].at \notin {"idle", "repin wrapper"} /\ excused' = excused
           \/ UNCHANGED <<wrapper, manifest, excused>> /\ job'[Operator].at \in {"idle", "repin wrapper"}
    PROVE  Preserved
<1>1. UNCHANGED <<canonical, db, tree, states, receipts, mishaps>>
  BY DEF artifacts
<1>2. ArtifactTypes' /\ Grows
  BY <1>1, StaysGrown DEF TypeInv, ArtifactTypes, Exists
<1>3. \A q \in Runtimes : job'[q] = job[q] /\ Kept(q)
  BY JobsTyped DEF OnlyJob, Kept, Ages, TypeInv
<1>4. TypeInv'
  <2>1. FileTypes'
    BY <1>1 DEF TypeInv, FileTypes, Exists
  <2>2. CallTypes'
    BY <1>3 DEF TypeInv, CallTypes, OnlyJob
  <2> QED BY <1>2, <2>1, <2>2 DEF TypeInv
<1>5. ASSUME ApprovedInv PROVE ApprovedInv'
  <2>1. Granted(wrapper)' /\ OnlyApprovedRuns'
    BY <1>5 DEF ApprovedInv, OnlyApprovedRuns, Granted
  <2> QED BY <1>3, <1>5, <2>1, ApprovedKept
<1>6. ASSUME DeployInv PROVE DeployInv'
  <2>1. Grounds'
    BY <1>2, <1>3, <1>6, GroundsKept DEF DeployInv
  <2>2. ASSUME ~excused' PROVE Orderly'
    <3>1. /\ Orderly /\ UNCHANGED <<wrapper, manifest>>
          /\ job'[Operator].at \in {"idle", "repin wrapper"}
      BY <1>6, <2>2 DEF DeployInv, Orderly
    <3> QED BY <1>2, <1>3, <3>1, OrderlyKept
  <2> QED BY <2>1, <2>2 DEF DeployInv
<1>7. (BackedInv => BackedInv') /\ (DecisionInv => DecisionInv')
  BY <1>1, <1>2, <1>3, BackedKept, DecisionKept
<1> QED BY <1>4, <1>5, <1>6, <1>7 DEF Preserved

\* What repin writes: a difference that no source has as its content.
LEMMA RepinnedTyped ==
    ASSUME TypeInv, job[Operator].at \in Repinning
    PROVE  /\ Repinned \in Manifests /\ Pins(Repinned) \in Pinnings /\ Granted(Pins(Repinned))
           /\ job[Operator] \in Jobs /\ job[Operator].read \in Manifests /\ job[Operator].root \in Roots
<1> PICK root : root = job[Operator].root
  OBVIOUS
<1> PICK m : m = job[Operator].read
  OBVIOUS
<1>1. job[Operator] \in Jobs /\ m \in Manifests /\ root \in Roots
  BY DEF TypeInv, CallTypes, RepinFits, Repinning
<1>2. HeadOf(root) \in Bases
  BY ArtifactAssumption DEF HeadOf, Bases, TypeInv, ArtifactTypes
<1>3. Diff \notin Contents
  BY ArtifactAssumption DEF Diff, Contents
<1> PICK m1 : m1 = [m EXCEPT !.root = root]
  OBVIOUS
<1> PICK m2 : m2 = [m1 EXCEPT !.base = HeadOf(root)]
  OBVIOUS
<1> PICK m3 : m3 = [m2 EXCEPT !.patch = Diff]
  OBVIOUS
<1>4. m1 \in Manifests
  BY <1>1 DEF Manifests
<1>5. m2 \in Manifests
  BY <1>2, <1>4 DEF Manifests
<1>6. m3 \in Manifests /\ m3.patch = Diff
  BY <1>5 DEF Manifests
<1>7. Repinned = m3
  BY DEF Repinned
<1>8. Pins(m3) \in Pinnings /\ Pins(m3).patch = Diff
  BY <1>6, PinsTyped
<1> QED BY <1>1, <1>3, <1>6, <1>7, <1>8 DEF Granted

LEMMA BeginRepinPreserves ==
    ASSUME TypeInv, NEW root \in Roots, BeginRepin(root), UNCHANGED <<approved, maintenance>>
    PROVE  Preserved
<1> PICK k : k = [Idle EXCEPT !.at = "repin wrapper", !.root = root, !.read = manifest]
  OBVIOUS
<1>1. /\ job' = [job EXCEPT ![Operator] = k]
      /\ UNCHANGED <<artifacts, mishaps, plan, last, approved, decision, performed, wrapper, manifest,
                     running, excused>>
  BY DEF BeginRepin, deployment, maintenance
<1>2. manifest \in Manifests /\ wrapper \in Pinnings /\ excused \in BOOLEAN
  BY DEF TypeInv, FileTypes
<1>3. k \in Jobs /\ k.at = "repin wrapper" /\ k.root = root /\ k.read = manifest
  BY <1>2 DEF Idle, Jobs, Steps, Repinning
<1>4. RepinFits(k)
  BY <1>2, <1>3 DEF RepinFits, Repinning
<1>5. OnlyJob(Operator) /\ job'[Operator] = k
  BY <1>1, JobsTyped DEF OnlyJob, TypeInv, CallTypes
<1> QED BY <1>1, <1>2, <1>3, <1>4, <1>5, OperatorPreserves

\* Repin goes on to its next step, or ends.
LEMMA RepinGoes ==
    ASSUME TypeInv, job[Operator].at \in Repinning,
           \/ job' = [job EXCEPT ![Operator] = Idle]
           \/ \E step \in Repinning : Goto(Operator, step)
    PROVE  OnlyJob(Operator) /\ RepinFits(job'[Operator])
<1>1. Operator \in Actors /\ Repinning \subseteq Steps
  BY JobsTyped DEF TypeInv, Steps
<1>2. CASE job' = [job EXCEPT ![Operator] = Idle]
  BY <1>1, <1>2, Over, IdleFits DEF TypeInv
<1>3. ASSUME NEW step \in Repinning, Goto(Operator, step)
      PROVE  OnlyJob(Operator) /\ RepinFits(job'[Operator])
  <2>1. /\ OnlyJob(Operator) /\ job'[Operator] \in Jobs /\ job'[Operator].at = step
        /\ job'[Operator].root = job[Operator].root /\ job'[Operator].read = job[Operator].read
    BY <1>1, <1>3, Went DEF TypeInv
  <2>2. job[Operator].read \in Manifests /\ job[Operator].root \in Roots
    BY RepinnedTyped
  <2> QED BY <2>1, <2>2 DEF RepinFits
<1> QED BY <1>2, <1>3

LEMMA RepinPreserves ==
    ASSUME TypeInv, Repin
    PROVE  Preserved
<1>1. UNCHANGED <<approved, decision, performed>>
  BY DEF Repin, maintenance
<1>2. manifest \in Manifests /\ wrapper \in Pinnings /\ excused \in BOOLEAN
  BY DEF TypeInv, FileTypes
<1>3. CASE RepinWrapper
  <2>1. /\ job[Operator].at \in Repinning /\ excused' = TRUE
        /\ UNCHANGED <<artifacts, mishaps, plan, last, manifest, running>>
        /\ wrapper' \in {wrapper, Pins(Repinned)}
        /\ \/ job' = [job EXCEPT ![Operator] = Idle]
           \/ \E step \in Repinning : Goto(Operator, step)
    BY <1>3 DEF RepinWrapper, Repinning
  <2>2. OnlyJob(Operator) /\ RepinFits(job'[Operator])
    BY <2>1, RepinGoes
  <2>3. wrapper' \in Pinnings /\ (Granted(wrapper) => Granted(wrapper'))
    BY <1>2, <2>1, RepinnedTyped
  <2> QED BY <1>1, <1>2, <2>1, <2>2, <2>3, OperatorPreserves
<1>4. CASE RepinManifest
  <2>1. /\ job[Operator].at \in Repinning /\ job[Operator].at \notin {"idle", "repin wrapper"}
        /\ UNCHANGED <<artifacts, mishaps, plan, last, wrapper, running, excused>>
        /\ manifest' \in {manifest, Repinned}
        /\ \/ job' = [job EXCEPT ![Operator] = Idle]
           \/ \E step \in Repinning : Goto(Operator, step)
    BY <1>4 DEF RepinManifest, Repinning
  <2>2. OnlyJob(Operator) /\ RepinFits(job'[Operator])
    BY <2>1, RepinGoes
  <2>3. manifest' \in Manifests
    BY <1>2, <2>1, RepinnedTyped
  <2> QED BY <1>1, <1>2, <2>1, <2>2, <2>3, OperatorPreserves
<1>5. CASE RepinRestart
  <2>1. /\ job[Operator].at \in Repinning /\ job[Operator].at \notin {"idle", "repin wrapper"}
        /\ UNCHANGED <<artifacts, mishaps, plan, last, wrapper, manifest, excused>>
        /\ running' \in {None, running} /\ job' = [job EXCEPT ![Operator] = Idle]
    BY <1>5 DEF RepinRestart, Repinning
  <2>2. OnlyJob(Operator) /\ RepinFits(job'[Operator])
    BY <2>1, RepinGoes
  <2> QED BY <1>1, <1>2, <2>1, <2>2, OperatorPreserves
<1>6. ASSUME NEW root \in Roots, BeginRepin(root) PROVE Preserved
  <2>1. UNCHANGED <<approved, maintenance>>
    BY DEF Repin
  <2> QED BY <1>6, <2>1, BeginRepinPreserves
<1> QED BY <1>3, <1>4, <1>5, <1>6 DEF Repin
LEMMA StepPreserves ==
    ASSUME TypeInv, [Next]_vars
    PROVE  Preserved
<1>1. ASSUME NEW r \in Runtimes, Crash(r) PROVE Preserved
  <2>1. /\ Die({r}) /\ mishaps' = mishaps + 1 /\ mishaps < MaxMishaps
        /\ mishaps \in Nat /\ MaxMishaps \in Nat
    BY <1>1, ArtifactAssumption DEF Crash, Mishap, TypeInv, ArtifactTypes
  <2>2. mishaps' <= MaxMishaps
    BY <2>1
  <2>3. {r} \in SUBSET Runtimes
    OBVIOUS
  <2> QED BY <2>1, <2>2, <2>3, DiePreserves
<1>2. CASE DetachedRestart
  <2>1. Die(Runtimes) /\ mishaps' = mishaps /\ mishaps <= MaxMishaps
    BY <1>2, ArtifactAssumption DEF DetachedRestart, TypeInv, ArtifactTypes
  <2>2. Runtimes \in SUBSET Runtimes
    OBVIOUS
  <2> QED BY <2>1, <2>2, DiePreserves
<1>3. CASE Work \/ UNCHANGED vars
  BY <1>3, WorkPreserves DEF Work, vars, budgets, maintenance
<1>4. CASE Start /\ UNCHANGED <<approved, maintenance>>
  BY <1>4, StartPreserves
<1> QED BY <1>1, <1>2, <1>3, <1>4, PreparesPreserve, DeploysPreserve, MaintainsPreserve,
           PreflightPreserves, ExecutePreserves, AnswerPreserves, RepinPreserves, PeoplePreserve DEF Next

LEMMA InitHolds ==
    ASSUME Init
    PROVE  TypeInv /\ BackedInv /\ ApprovedInv /\ DeployInv /\ DecisionInv
<1> PICK new : new = [at |-> 0, clean |-> TRUE]
  OBVIOUS
<1>1. new \in Sources /\ new # None /\ new.at = 0
  <2>1. new \in [at : 0..MaxMishaps, clean : BOOLEAN] /\ new.at = 0
    BY ArtifactAssumption
  <2> QED BY <2>1, ArtifactAssumption DEF Sources, Contents
<1>2. /\ canonical = 1 /\ db = 0 /\ mishaps = 0 /\ states = receipts
      /\ receipts \in SUBSET {<<"candidate", 1, 0>>}
      /\ tree = [root \in Roots |-> IF root \in receipts \cup {Old, Main} THEN new ELSE None]
      /\ plan = [r \in Runtimes |-> None] /\ job = [a \in Actors |-> Idle]
      /\ manifest = [root |-> Old, base |-> 1, patch |-> 0, head |-> 0, db |-> 0]
      /\ wrapper = Pins(manifest) /\ running = [root |-> Old, at |-> 0]
      /\ last = [r \in Runtimes |-> None] /\ excused = FALSE /\ approved = {<<Old, 0>>}
      /\ decision = [r \in Runtimes |-> "none"] /\ performed = [r \in Runtimes |-> "not"]
  BY DEF Init
<1>3. receipts \subseteq Identities
  BY <1>2, ArtifactAssumption DEF Identities, Roles
<1>4. Old \in Managed /\ Old \in Roots /\ 0 \in Contents /\ 1 \in Bases
  BY ArtifactAssumption DEF Managed, Roots, Contents, Bases
<1>5. tree \in [Roots -> {None} \cup Sources] /\ tree[Old] = new
  BY <1>1, <1>2, <1>4
<1>6. ArtifactTypes
  <2>1. canonical \in 1..MaxRevision /\ mishaps \in 0..MaxMishaps /\ db \in 0..mishaps
    BY <1>2, ArtifactAssumption
  <2>2. \A root \in Roots : Exists(root) => tree[root].at <= mishaps
    BY <1>1, <1>2 DEF Exists
  <2> QED BY <1>2, <1>3, <1>5, <2>1, <2>2 DEF ArtifactTypes
<1>7. manifest \in Manifests /\ manifest.root = Old /\ manifest.patch = 0 /\ manifest.head = 0
  BY <1>2, <1>4 DEF Manifests
<1>8. wrapper \in Pinnings /\ wrapper.root = Old /\ wrapper.patch = 0
  BY <1>2, <1>7, PinsTyped
<1>9. running \in Started /\ running.root = Old /\ running.at = 0
  BY <1>2, <1>4 DEF Started
<1>10. FileTypes
  <2>1. Exists(running.root)
    BY <1>1, <1>5, <1>9 DEF Exists
  <2>2. last \in [Runtimes -> {None} \cup Snapshots]
    BY <1>2
  <2>3. excused \in BOOLEAN
    BY <1>2
  <2>4. <<Old, 0>> \in Roots \X Contents
    BY <1>4
  <2>5. approved \subseteq Roots \X Contents
    BY <1>2, <2>4
  <2> QED BY <2>5, <1>7, <1>8, <1>9, <2>1, <2>2, <2>3 DEF FileTypes
<1>11. \A a \in Actors : job[a] = Idle /\ job[a].at = "idle"
  BY <1>2, IdleFits
<1>12. \A r \in Runtimes : r \in Actors /\ plan[r] = None /\ last[r] = None
  BY <1>2 DEF Actors
<1>13. CallTypes
  <2>1. Operator \in Actors
    BY DEF Actors
  <2> QED BY <1>2, <1>11, <1>12, <2>1, IdleFits DEF CallTypes, Plans
<1>14. BackedInv
  <2>1. ReceiptIsBacked
    BY <1>1, <1>2, <1>3 DEF ReceiptIsBacked, Exists, Roots
  <2> QED BY <1>11, <1>12, <2>1 DEF BackedInv, Moved
<1>15. \A r \in Runtimes : job[r].at \notin Deploying \cup Snapped \cup Maintaining \cup Settled
  BY <1>11, <1>12 DEF Deploying, Snapped, Restores, Maintaining, Settled
<1>16. ApprovedInv
  BY <1>2, <1>8, <1>9, <1>12, <1>15 DEF ApprovedInv, OnlyApprovedRuns, Granted, Assured
<1>17. DeployInv
  <2>1. Sound(tree, wrapper, manifest)
    BY <1>1, <1>2, <1>4, <1>5, <1>7, <1>8 DEF Sound
  <2>2. \A r \in Runtimes : Backup(r) /\ Stage(r) /\ ~Activates(plan[r])
    BY <1>11, <1>12, <1>15 DEF Backup, Stage, Activates
  <2>3. job[Operator].at = "idle"
    BY <1>11 DEF Actors
  <2> QED BY <1>15, <2>1, <2>2, <2>3 DEF DeployInv, Grounds, Orderly
<1>18. DecisionInv
  <2>1. \A r \in Runtimes : decision[r] = "none" /\ performed[r] = "not"
    BY <1>2
  <2>2. \A r \in Runtimes : Pending(r)
    BY <1>11, <1>12 DEF Pending, Maintaining
  <2>3. DecisionIsTrue
    BY <2>1 DEF DecisionIsTrue
  <2> QED BY <1>2, <2>2, <2>3 DEF DecisionInv
<1> QED BY <1>6, <1>10, <1>13, <1>14, <1>16, <1>17, <1>18 DEF TypeInv

-----------------------------------------------------------------------------
(* The theorems.                                                            *)

\* Whatever calls, faults, crashes and people do, jobs, plans, files and artifacts
\* are of their types, and a job has the plan and the snapshot that its step needs.
THEOREM TypesTheorem == Spec => []TypeInv
<1>1. Init => TypeInv
  BY InitHolds
<1>2. TypeInv /\ [Next]_vars => TypeInv'
  BY StepPreserves DEF Preserved
<1> QED BY <1>1, <1>2, PTL DEF Spec

\* CandidatePreparationController.execute: a receipt that is stored stands for an
\* artifact and a database snapshot that are both in place, however many runtimes
\* prepare it, and wherever a preparation is cut off.
THEOREM BackedTheorem == Spec => []ReceiptIsBacked
<1>1. Init => BackedInv
  BY InitHolds
<1>2. BackedInv /\ TypeInv /\ [Next]_vars => BackedInv'
  BY StepPreserves DEF Preserved
<1>3. BackedInv => ReceiptIsBacked
  BY DEF BackedInv
<1> QED BY <1>1, <1>2, <1>3, TypesTheorem, PTL DEF Spec

\* bootstrap-v26-runtime: the source that is started has the content whose
\* activation a human approved, whatever activations, rollbacks, repins and crashes
\* have written to the wrapper and the manifest.
THEOREM ApprovedTheorem == Spec => []OnlyApprovedRuns
<1>1. Init => ApprovedInv
  BY InitHolds
<1>2. ApprovedInv /\ TypeInv /\ [Next]_vars => ApprovedInv'
  BY StepPreserves DEF Preserved
<1>3. ApprovedInv => OnlyApprovedRuns
  BY DEF ApprovedInv
<1> QED BY <1>1, <1>2, <1>3, TypesTheorem, PTL DEF Spec

LEMMA SoundStarts ==
    ASSUME TypeInv, DeployInv
    PROVE  DeploymentIsSound
<1>1. TypeOK
  <2>1. wrapper \in Pinnings /\ Pins(manifest) \in Pinnings
    BY PinsTyped DEF TypeInv, FileTypes
  <2>2. running # None => running \in [root : Roots, at : Contents]
    BY DEF TypeInv, FileTypes, Started, Managed
  <2>3. \A r \in Runtimes : plan[r] # None => plan[r].kind \in {"prepare", "activate"}
    BY DEF TypeInv, CallTypes, Plans, Preparations, Activations
  <2>4. \A a \in Actors : job[a].root \in Roots \cup Maintenances \cup {None}
    BY JobsTyped DEF TypeInv, Jobs
  <2> QED BY <2>1, <2>2, <2>3, <2>4
          DEF TypeOK, TypeInv, ArtifactTypes, FileTypes, Sources, Pinnings, Bases
<1>2. ASSUME \A a \in Actors : job[a].at = "idle", ~excused,
             ~Touched(wrapper.root), manifest.db = db
      PROVE  BootstrapAccepts
  <2>1. Quiet /\ Orderly
    BY <1>2, JobsTyped DEF Quiet, Deploying, DeployInv, TypeInv
  <2>2. Sound(tree, wrapper, manifest)
    BY <2>1 DEF Orderly
  <2>3. manifest.head \in Nat
    BY ArtifactAssumption DEF TypeInv, FileTypes, Manifests, Contents
  <2>4. Exists(wrapper.root) /\ Clean(wrapper.root) /\ tree[wrapper.root].at = wrapper.patch
    BY <1>2 DEF Touched
  <2>5. wrapper.patch \in Nat
    BY ArtifactAssumption DEF TypeInv, FileTypes, Pinnings, Contents, Diff
  <2>6. manifest.head = tree[wrapper.root].at
    BY <2>2, <2>3, <2>4, <2>5 DEF Sound
  <2>7. Agree /\ wrapper.root # Main
    BY <2>2 DEF Sound, Agree, Managed
  <2> QED BY <1>2, <2>4, <2>6, <2>7 DEF BootstrapAccepts, DatabaseIdentity
<1>3. DeploymentStarts
  BY <1>2 DEF DeploymentStarts
<1> QED BY <1>1, <1>3 DEF DeploymentIsSound

\* V26RuntimeDeployment: wrapper and manifest are written one after the other and put
\* back after any failure; when no call is under way and nobody is excused, they
\* agree on a source that starts unless it was touched or the database replaced.
THEOREM DeploymentTheorem == Spec => []DeploymentIsSound
<1>1. Init => DeployInv
  BY InitHolds
<1>2. DeployInv /\ TypeInv /\ [Next]_vars => DeployInv'
  BY StepPreserves DEF Preserved
<1>3. TypeInv /\ DeployInv => DeploymentIsSound
  BY SoundStarts
<1> QED BY <1>1, <1>2, <1>3, TypesTheorem, PTL DEF Spec

\* _local_maintenance_tool: what the decision row says of a maintenance action is
\* true of what has been carried out, whichever row fails to be saved.
THEOREM DecisionTheorem == Spec => []DecisionIsTrue
<1>1. Init => DecisionInv
  BY InitHolds
<1>2. DecisionInv /\ TypeInv /\ [Next]_vars => DecisionInv'
  BY StepPreserves DEF Preserved
<1>3. DecisionInv => DecisionIsTrue
  BY DEF DecisionInv
<1> QED BY <1>1, <1>2, <1>3, TypesTheorem, PTL DEF Spec
=============================================================================
