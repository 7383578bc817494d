-------------------------- MODULE RoadUpdatesProofs --------------------------
(***************************************************************************)
(* Proofs about RoadUpdates.  For every fault: its types, that jobs only   *)
(* move on, and that nothing gets ahead of the feed.  While no two runs of *)
(* update-roads.sh overlap: that it implements FeedReplica and that a      *)
(* completed job has delivered; the worker by itself never lets two runs   *)
(* overlap.                                                                *)
(***************************************************************************)
EXTENDS RoadUpdates, TLAPS

\* Who is on the way to the queue has seen Geofabrik's version.
CallersKnow ==
    \A c \in Callers : caller[c].at \in {"looking", "adding"} => caller[c].remote \in Versions

TypeInv == TypeOK /\ CallersKnow

\* Nobody runs the script by hand, and no run outlives the worker's patience
\* or the worker.
SoleWriter ==
    /\ ~Overruns
    /\ Budget["crash"] = 0
    /\ Budget["byHand"] = 0

-----------------------------------------------------------------------------
(* Types *)

LEMMA InitTypes == Init => TypeInv
  BY BoundsAssumption
     DEF Init, TypeInv, TypeOK, CallersKnow, Versions, FreeScript, IdleWorker, IdleCaller, Settled, Completed, Faults, Nothing

\* A budget that is spent stays one.
LEMMA SpendTypes ==
    ASSUME left \in [Faults -> Nat], NEW f \in Faults, Spend(f)
    PROVE  left' \in [Faults -> Nat]
  BY DEF Spend, Faults

\* The records of runs of the script, one of which may end or be given up.
Runs ==
    [at : {"none", "fetching", "applying", "recording", "analyzing"}, target : Versions, awaited : BOOLEAN]

LEMMA RunTypes ==
    ASSUME script \in [Scripts -> Runs]
    PROVE  /\ \A q \in Scripts : [script EXCEPT ![q] = FreeScript] \in [Scripts -> Runs]
           /\ \A q : [script EXCEPT ![q].awaited = FALSE] \in [Scripts -> Runs]
           /\ \A q : [p \in Scripts |-> IF p = q THEN [script[p] EXCEPT !.awaited = FALSE] ELSE script[p]]
                    \in [Scripts -> Runs]
  <1>1. FreeScript \in Runs
    BY BoundsAssumption DEF FreeScript, Runs, Versions
  <1>2. \A p \in Scripts : [script[p] EXCEPT !.awaited = FALSE] \in Runs
    BY DEF Runs
  <1> QED
    BY <1>1, <1>2

\* The records of the worker.
Workers ==
    [at : {"down", "idle", "before", "starting", "updating", "after", "rebuilding", "verifying"},
     key : Keys \cup {NoKey}, script : Scripts \cup {NoScript}, before : Versions]

LEMMA IdleWorkerTypes ==
    /\ IdleWorker \in Workers
    /\ [IdleWorker EXCEPT !.at = "down"] \in Workers
    /\ \A k \in Keys : [IdleWorker EXCEPT !.at = "before", !.key = k] \in Workers
  <1>1. 0 \in Versions
    BY BoundsAssumption DEF Versions
  <1> QED
    BY <1>1 DEF IdleWorker, Workers

\* Settling a job frees the worker.
LEMMA SettleTypes ==
    ASSUME TypeOK, NEW outcome \in Settled, Settle(outcome)
    PROVE  /\ job' \in [Keys -> {"none", "waiting", "active"} \cup Settled]
           /\ worker' = IdleWorker
           /\ worker' \in Workers
           /\ stalls' = stalls
           /\ promised' = promised
  <1>1. worker' \in Workers
    BY IdleWorkerTypes DEF Settle
  <1> QED
    BY <1>1 DEF Settle, TypeOK

\* The steps of a request change nothing but its own record, and the queue.
LEMMA CallerTypes ==
    ASSUME TypeInv, NEW c \in Callers, CallerStep(c)
    PROVE  TypeInv'
  <1> USE DEF TypeInv, TypeOK, CallersKnow, Versions, IdleCaller
  <1>1. ASSUME NEW k \in Keys, Request(c, k) PROVE TypeInv'
    BY <1>1 DEF Request, dbVars, queueVars, Nothing
  <1>2. CASE ReadLocal(c)
    BY <1>2 DEF ReadLocal, dbVars, queueVars
  <1>3. CASE ReadRemote(c)
    BY <1>3 DEF ReadRemote, dbVars, queueVars
  <1>4. CASE Decide(c)
    BY <1>4 DEF Decide, dbVars, queueVars, Nothing
  <1>5. CASE Lookup(c)
    BY <1>5 DEF Lookup, dbVars, queueVars, Nothing
  <1>6. CASE Add(c)
    BY <1>6 DEF Add, dbVars, Nothing
  <1>7. CASE Refuse(c)
    BY <1>7 DEF Refuse, dbVars, queueVars, Nothing
  <1> QED
    BY <1>1, <1>2, <1>3, <1>4, <1>5, <1>6, <1>7 DEF CallerStep

\* The steps of a run of the script.
LEMMA ScriptTypes ==
    ASSUME TypeInv, NEW p \in Scripts, ScriptStep(p) \/ ScriptFails(p) \/ RunByHand(p)
    PROVE  TypeInv'
  <1> USE DEF TypeInv, TypeOK, CallersKnow
  <1>1. CASE Fetch(p)
    BY <1>1, BoundsAssumption DEF Fetch, dbVars, queueVars, Versions
  <1>2. CASE Apply(p)
    BY <1>2 DEF Apply, queueVars
  <1>3. CASE Record(p)
    BY <1>3 DEF Record, queueVars
  <1>4. CASE Analyze(p)
    <2>1. script' \in [Scripts -> Runs]
      BY <1>4, RunTypes DEF Analyze, Runs
    <2>2. worker' \in Workers
      BY <1>4 DEF Analyze, Workers
    <2>3. UNCHANGED <<published, dbVars, queueVars, caller, left>>
      BY <1>4 DEF Analyze
    <2> QED
      BY <2>1, <2>2, <2>3 DEF dbVars, queueVars, Workers, Runs
  <1>5. CASE ScriptFails(p)
    <2>1. left' \in [Faults -> Nat]
      BY <1>5, SpendTypes DEF ScriptFails, Faults
    <2>2. script' \in [Scripts -> [at : {"none", "fetching", "applying", "recording", "analyzing"},
                                   target : Versions, awaited : BOOLEAN]]
      BY <1>5, BoundsAssumption DEF ScriptFails, FreeScript, Versions
    <2>3. CASE script[p].awaited
      <3>1. Settle("failed")
        BY <1>5, <2>3 DEF ScriptFails
      <3> QED
        BY <1>5, <2>1, <2>2, <3>1, SettleTypes DEF ScriptFails, dbVars, Workers, Settled
    <2>4. CASE ~script[p].awaited
      BY <1>5, <2>1, <2>2, <2>4 DEF ScriptFails, dbVars, queueVars
    <2> QED
      BY <2>3, <2>4
  <1>6. CASE RunByHand(p)
    <2>1. left' \in [Faults -> Nat]
      BY <1>6, SpendTypes DEF RunByHand, Faults
    <2> QED
      BY <1>6, <2>1, BoundsAssumption DEF RunByHand, Launch, dbVars, queueVars, FreeScript, Versions
  <1> QED
    BY <1>1, <1>2, <1>3, <1>4, <1>5, <1>6 DEF ScriptStep

\* The steps of the worker.
LEMMA WorkerTypes ==
    ASSUME TypeInv, WorkerStep
    PROVE  TypeInv'
  <1> USE BoundsAssumption DEF TypeInv, TypeOK, CallersKnow
  <1>1. ASSUME NEW k \in Keys, TakeJob(k) PROVE TypeInv'
    <2>1. worker' \in Workers
      BY <1>1, IdleWorkerTypes DEF TakeJob
    <2> QED
      BY <1>1, <2>1 DEF TakeJob, dbVars, Workers
  <1>2. CASE ReadBefore
    BY <1>2 DEF ReadBefore, dbVars, queueVars
  <1>3. ASSUME NEW p \in Scripts, StartUpdate(p) PROVE TypeInv'
    BY <1>3 DEF StartUpdate, Launch, dbVars, queueVars, FreeScript, Versions
  <1>4. CASE TimeOut
    <2>1. Settle("failed") /\ UNCHANGED <<published, dbVars, caller, left>>
      BY <1>4 DEF TimeOut
    <2>2. script' \in [Scripts -> Runs]
      BY <1>4, RunTypes DEF TimeOut, Runs
    <2>3. worker' \in Workers /\ job' \in [Keys -> {"none", "waiting", "active"} \cup Settled]
          /\ UNCHANGED <<stalls, promised>>
      BY <2>1, SettleTypes DEF Settled
    <2> QED
      BY <2>1, <2>2, <2>3 DEF dbVars, Workers, Runs
  <1>5. CASE ReadAfter
    <2>1. CASE HasNewState
      BY <1>5, <2>1 DEF ReadAfter, dbVars, queueVars
    <2>2. CASE ~HasNewState
      <3>1. Settle("no_changes")
        BY <1>5, <2>2 DEF ReadAfter
      <3> QED
        BY <1>5, <3>1, SettleTypes DEF ReadAfter, dbVars, Workers, Settled, Completed
    <2> QED
      BY <2>1, <2>2
  <1>6. CASE Rebuild
    BY <1>6 DEF Rebuild, dbVars, queueVars
  <1>7. CASE Verify
    <2>1. Settle("updated")
      BY <1>7 DEF Verify
    <2> QED
      BY <1>7, <2>1, SettleTypes DEF Verify, dbVars, Workers, Settled, Completed
  <1> QED
    BY <1>1, <1>2, <1>3, <1>4, <1>5, <1>6, <1>7 DEF WorkerStep

\* Every step keeps the types.
LEMMA NextTypes == TypeInv /\ [Next]_vars => TypeInv'
  <1> SUFFICES ASSUME TypeInv, [Next]_vars PROVE TypeInv'
    OBVIOUS
  <1> USE BoundsAssumption DEF TypeInv, TypeOK, CallersKnow
  <1>1. CASE Publish
    BY <1>1 DEF Publish, dbVars, queueVars, Versions
  <1>2. ASSUME NEW c \in Callers, CallerStep(c) PROVE TypeInv'
    BY <1>2, CallerTypes
  <1>3. ASSUME NEW p \in Scripts, ScriptStep(p) \/ ScriptFails(p) \/ RunByHand(p) PROVE TypeInv'
    BY <1>3, ScriptTypes
  <1>4. CASE WorkerStep
    BY <1>4, WorkerTypes
  <1>5. CASE StepFails
    <2>1. left' \in [Faults -> Nat] /\ Settle("failed")
      BY <1>5, SpendTypes DEF StepFails, Faults
    <2> QED
      BY <1>5, <2>1, SettleTypes DEF StepFails, dbVars, Workers, Settled
  <1>6. CASE Crash
    <2>1. left' \in [Faults -> Nat]
      BY <1>6, SpendTypes DEF Crash, Faults
    <2>2. worker' \in Workers
      BY <1>6, IdleWorkerTypes DEF Crash
    <2>3. script' \in [Scripts -> Runs]
      BY <1>6, RunTypes DEF Crash, Runs
    <2>4. UNCHANGED <<published, dbVars, queueVars, caller>>
      BY <1>6 DEF Crash
    <2> QED
      BY <2>1, <2>2, <2>3, <2>4 DEF dbVars, queueVars, Workers, Runs
  <1>7. CASE Restart
    BY <1>7 DEF Restart, dbVars, queueVars, IdleWorker, Versions
  <1>8. ASSUME NEW k \in Keys, Stalled(k) PROVE TypeInv'
    BY <1>8 DEF Stalled, dbVars, Settled
  <1>9. CASE UNCHANGED vars
    BY <1>9 DEF vars, dbVars, queueVars
  <1> QED
    BY <1>1, <1>2, <1>3, <1>4, <1>5, <1>6, <1>7, <1>8, <1>9 DEF Next

\* Whatever fails, crashes or is run by hand, jobs, scripts, callers and versions
\* keep their types: who queues a job always has a version to promise.
THEOREM TypeCorrect == Spec => []TypeOK
  <1>1. Init => TypeInv
    BY InitTypes
  <1>2. TypeInv /\ [Next]_vars => TypeInv'
    BY NextTypes
  <1>3. TypeInv => TypeOK
    BY DEF TypeInv
  <1> QED
    BY <1>1, <1>2, <1>3, PTL DEF Spec

-----------------------------------------------------------------------------
(* The worker, its job and its run of the script, whatever happens *)

\* The worker has an active job while it works on one, ...
Working == worker.at \in {"before", "starting", "updating", "after", "rebuilding", "verifying"}

HoldsJob == Working => worker.key \in Keys /\ job[worker.key] = "active"

\* ... and awaits the one run of the script it started for it, and nobody else
\* awaits any: no run that was given up is credited to a later job.
Awaits ==
    /\ worker.at = "updating" => worker.script \in Scripts /\ script[worker.script].awaited
    /\ \A p \in Scripts : script[p].awaited =>
          script[p].at # "none" /\ worker.at = "updating" /\ worker.script = p

\* Nothing is promised that is not published, ...
Promises ==
    /\ \A k \in Keys : promised[k] <= published
    /\ \A c \in Callers : caller[c].remote # Nothing => caller[c].remote <= published

\* ... and nothing written or about to be.
Batches == WithinFeed /\ \A p \in Scripts : script[p].target <= published

SafeInv == TypeInv /\ HoldsJob /\ Awaits /\ Promises /\ Batches

LEMMA InitSafe == Init => SafeInv
  BY InitTypes, BoundsAssumption
     DEF Init, SafeInv, HoldsJob, Working, Awaits, Promises, Batches, WithinFeed, IdleWorker, FreeScript, IdleCaller

\* The numbers a state is made of.
LEMMA Numbers ==
    ASSUME TypeInv
    PROVE  /\ published \in Nat /\ recorded \in Nat /\ roads \in Nat
           /\ \A k \in Keys : promised[k] \in Nat /\ stalls[k] \in Nat
           /\ \A p \in Scripts : script[p].target \in Nat
  BY BoundsAssumption DEF TypeInv, TypeOK, Versions

\* The worker ends its job and awaits no run any more.
LEMMA SettleSafe ==
    ASSUME SafeInv, Working, NEW outcome \in Settled, Settle(outcome),
           UNCHANGED <<published, caller>>,
           \A p \in Scripts : ~script'[p].awaited
    PROVE  /\ HoldsJob' /\ Awaits' /\ Promises'
           /\ job[worker.key] = "active"
           /\ \A k \in Keys : /\ job'[k] = IF k = worker.key THEN outcome ELSE job[k]
                              /\ promised'[k] = promised[k]
                              /\ JobMoves(k)
  <1> USE DEF SafeInv
  <1>1. worker.key \in Keys /\ job[worker.key] = "active"
    BY DEF HoldsJob
  <1>2. \A k \in Keys : job'[k] = IF k = worker.key THEN outcome ELSE job[k]
    BY <1>1 DEF Settle, TypeInv, TypeOK
  <1>3. \A k \in Keys : JobMoves(k)
    BY <1>1, <1>2 DEF Settle, JobMoves
  <1>4. ~Working' /\ worker'.at # "updating"
    BY DEF Settle, IdleWorker, Working
  <1> QED
    BY <1>1, <1>2, <1>3, <1>4 DEF Settle, HoldsJob, Awaits, Promises

\* A new version, or a step of a request: only the request's record and the
\* queue change, and a job that is new is promised what is published.
LEMMA OutsideSafe ==
    ASSUME SafeInv, TypeInv', Publish \/ (\E c \in Callers : CallerStep(c))
    PROVE  /\ SafeInv'
           /\ UNCHANGED <<recorded, roads, script, worker, left>>
           /\ published' >= published
           /\ \A k \in Keys : \/ job'[k] = job[k] /\ promised'[k] = promised[k]
                              \/ job[k] = "none" /\ job'[k] = "waiting"
           /\ \A k \in Keys : JobMoves(k)
  <1> USE DEF SafeInv
  <1>1. UNCHANGED <<recorded, roads, script, worker, left, stalls>>
    BY DEF Publish, CallerStep, Request, ReadLocal, ReadRemote, Decide, Lookup, Add, Refuse,
           dbVars, queueVars
  <1>2. published' >= published /\ published' \in Nat
    <2>1. published' \in {published, published + 1}
      BY DEF Publish, CallerStep, Request, ReadLocal, ReadRemote, Decide, Lookup, Add, Refuse
    <2> QED
      BY <2>1, Numbers
  <1>3. \A c \in Callers : caller'[c].remote # Nothing => caller'[c].remote <= published'
    <2>1. CASE Publish
      BY <1>2, <2>1 DEF Publish, Promises, TypeInv, TypeOK, Versions, Nothing
    <2>2. ASSUME NEW c \in Callers, CallerStep(c)
          PROVE  \A d \in Callers : caller'[d].remote # Nothing => caller'[d].remote <= published'
      <3>1. published' = published
        BY <2>2 DEF CallerStep, Request, ReadLocal, ReadRemote, Decide, Lookup, Add, Refuse
      <3>2. \A d \in Callers : caller'[d].remote \in {caller[d].remote, Nothing, published}
        <4> USE DEF TypeInv, TypeOK
        <4>1. ASSUME NEW k \in Keys, Request(c, k)
              PROVE  \A d \in Callers : caller'[d].remote \in {caller[d].remote, Nothing, published}
          BY <4>1 DEF Request, IdleCaller
        <4>2. CASE ReadLocal(c)
          BY <4>2 DEF ReadLocal
        <4>3. CASE ReadRemote(c)
          BY <4>3 DEF ReadRemote
        <4>4. CASE Decide(c)
          BY <4>4 DEF Decide, IdleCaller
        <4>5. CASE Lookup(c)
          BY <4>5 DEF Lookup, IdleCaller
        <4>6. CASE Add(c) \/ Refuse(c)
          BY <4>6 DEF Add, Refuse, IdleCaller
        <4> QED
          BY <2>2, <4>1, <4>2, <4>3, <4>4, <4>5, <4>6 DEF CallerStep
      <3> QED
        BY <3>1, <3>2, Numbers DEF Promises
    <2> QED
      BY <2>1, <2>2
  <1>4. \A k \in Keys : \/ job'[k] = job[k] /\ promised'[k] = promised[k]
                        \/ job[k] = "none" /\ job'[k] = "waiting" /\ promised'[k] <= published'
    <2>1. CASE UNCHANGED <<job, promised>>
      BY <2>1
    <2>2. ASSUME NEW c \in Callers, Add(c)
          PROVE  \A k \in Keys : \/ job'[k] = job[k] /\ promised'[k] = promised[k]
                                 \/ job[k] = "none" /\ job'[k] = "waiting" /\ promised'[k] <= published'
      <3>1. caller[c].remote \in Versions /\ caller[c].remote <= published
        BY <2>2 DEF Add, TypeInv, CallersKnow, Promises, Versions, Nothing
      <3> QED
        BY <2>2, <3>1 DEF Add, TypeInv, TypeOK
    <2> QED
      BY <2>1, <2>2 DEF Publish, CallerStep, Request, ReadLocal, ReadRemote, Decide, Lookup, Refuse,
                        queueVars
  <1>5. Promises'
    BY <1>2, <1>3, <1>4, Numbers DEF Promises
  <1>6. HoldsJob' /\ Awaits'
    BY <1>1, <1>4 DEF HoldsJob, Working, Awaits
  <1>7. Batches'
    BY <1>1, <1>2, Numbers DEF Batches, WithinFeed
  <1>8. \A k \in Keys : JobMoves(k)
    BY <1>1, <1>4 DEF JobMoves
  <1> QED
    BY <1>1, <1>2, <1>4, <1>5, <1>6, <1>7, <1>8

\* A run of the script begins where there was none.
LEMMA Launched ==
    ASSUME TypeInv, NEW p \in Scripts, NEW awaited \in BOOLEAN, Launch(p, awaited)
    PROVE  /\ script[p].at = "none" /\ script[p].awaited = FALSE
           /\ script'[p].at = "fetching" /\ script'[p].awaited = awaited /\ script'[p].target = 0
           /\ \A q \in Scripts : q # p => script'[q] = script[q]
  <1>1. /\ script[p] = FreeScript
        /\ script'[p] = [FreeScript EXCEPT !.at = "fetching", !.awaited = awaited]
        /\ \A q \in Scripts : q # p => script'[q] = script[q]
    BY DEF Launch, TypeInv, TypeOK
  <1>2. script[p].at = "none" /\ script[p].awaited = FALSE
    BY <1>1 DEF FreeScript
  <1>3. script'[p].at = "fetching" /\ script'[p].awaited = awaited /\ script'[p].target = 0
    BY <1>1 DEF FreeScript
  <1> QED
    BY <1>1, <1>2, <1>3

\* A run of the script goes on, ends or is begun by hand.
LEMMA ScriptSafe ==
    ASSUME SafeInv, TypeInv', NEW p \in Scripts, ScriptStep(p) \/ ScriptFails(p) \/ RunByHand(p)
    PROVE  SafeInv' /\ \A k \in Keys : JobMoves(k)
  <1> USE DEF SafeInv, dbVars, queueVars
  <1>0. p \in DOMAIN script /\ published' = published
    BY DEF TypeInv, TypeOK, ScriptStep, Fetch, Apply, Record, Analyze, ScriptFails, RunByHand
  <1>1. CASE Fetch(p) \/ Apply(p) \/ Record(p)
    <2>1. /\ script[p].at # "none" /\ script'[p].at # "none"
          /\ script'[p].awaited = script[p].awaited
          /\ script'[p].target <= published
          /\ \A q \in Scripts : q # p => script'[q] = script[q]
      <3>1. ASSUME NEW at, script' = [script EXCEPT ![p].at = at]
            PROVE  /\ script'[p] = [script[p] EXCEPT !.at = at]
                   /\ \A q \in Scripts : q # p => script'[q] = script[q]
        BY <1>0, <3>1 DEF TypeInv, TypeOK
      <3>2. ASSUME NEW at, script'[p] = [script[p] EXCEPT !.at = at]
            PROVE  script'[p].at = at /\ script'[p].awaited = script[p].awaited /\ script'[p].target = script[p].target
        BY <3>2 DEF TypeInv, TypeOK
      <3>3. script[p].target <= published
        BY DEF Batches
      <3>4. CASE Apply(p)
        BY <3>1, <3>2, <3>3, <3>4 DEF Apply
      <3>5. CASE Record(p)
        BY <3>1, <3>2, <3>3, <3>5 DEF Record
      <3>6. CASE Fetch(p)
        <4>1. ASSUME NEW v \in (recorded + 1)..published,
                     script' = [script EXCEPT ![p].at = "applying", ![p].target = v]
              PROVE  /\ script'[p] = [script[p] EXCEPT !.at = "applying", !.target = v]
                     /\ \A q \in Scripts : q # p => script'[q] = script[q]
          BY <1>0, <4>1 DEF TypeInv, TypeOK
        <4>2. ASSUME NEW v, script'[p] = [script[p] EXCEPT !.at = "applying", !.target = v]
              PROVE  script'[p].at = "applying" /\ script'[p].awaited = script[p].awaited /\ script'[p].target = v
          BY <4>2 DEF TypeInv, TypeOK
        <4>3. \A v \in (recorded + 1)..published : v <= published
          BY Numbers
        <4>4. CASE script' = [script EXCEPT ![p].at = "analyzing"]
          BY <3>1, <3>2, <3>3, <3>6, <4>4 DEF Fetch
        <4>5. ASSUME NEW v \in (recorded + 1)..published,
                     script' = [script EXCEPT ![p].at = "applying", ![p].target = v]
              PROVE  /\ script'[p].at # "none" /\ script'[p].awaited = script[p].awaited /\ script'[p].target <= published
                     /\ \A q \in Scripts : q # p => script'[q] = script[q]
          BY <4>1, <4>2, <4>3, <4>5
        <4> QED
          BY <3>6, <4>4, <4>5 DEF Fetch
      <3> QED
        BY <1>1, <3>4, <3>5, <3>6
    <2>2. UNCHANGED <<queueVars, worker, caller>>
      BY <1>1 DEF Fetch, Apply, Record
    <2>3. Awaits' /\ HoldsJob' /\ Promises'
      BY <1>0, <2>1, <2>2 DEF Awaits, HoldsJob, Working, Promises
    <2>4. recorded' \in {recorded, script[p].target} /\ roads' \in {roads, script[p].target}
      BY <1>1 DEF Fetch, Apply, Record
    <2>5. Batches'
      BY <1>0, <2>1, <2>4 DEF Batches, WithinFeed
    <2> QED
      BY <2>2, <2>3, <2>5 DEF JobMoves
  <1>2. ASSUME script' = [script EXCEPT ![p] = FreeScript], UNCHANGED <<recorded, roads>>
        PROVE  /\ Batches'
               /\ \A q \in Scripts : script'[q].awaited => script[q].awaited /\ q # p
               /\ script[p].awaited => \A q \in Scripts : ~script'[q].awaited
    BY <1>0, <1>2, Numbers DEF Batches, WithinFeed, Awaits, FreeScript
  <1>3. CASE Analyze(p)
    <2>1. CASE script[p].awaited
      <3>1. worker'.at = "after" /\ worker'.key = worker.key /\ Working
        BY <1>3, <2>1 DEF Analyze, Awaits, Working, TypeInv, TypeOK
      <3>2. Awaits' /\ HoldsJob' /\ Promises'
        BY <1>2, <1>3, <2>1, <3>1 DEF Analyze, Awaits, HoldsJob, Working, Promises
      <3> QED
        BY <1>2, <1>3, <3>2 DEF Analyze, JobMoves
    <2>2. CASE ~script[p].awaited
      <3>1. Awaits' /\ HoldsJob' /\ Promises'
        BY <1>0, <1>3, <2>2 DEF Analyze, Awaits, HoldsJob, Working, Promises, FreeScript
      <3> QED
        BY <1>2, <1>3, <3>1 DEF Analyze, JobMoves
    <2> QED
      BY <2>1, <2>2
  <1>4. CASE ScriptFails(p)
    <2>1. CASE script[p].awaited
      <3>1. Working /\ "failed" \in Settled
        BY <2>1 DEF Awaits, Working, Settled
      <3>2. Settle("failed") /\ \A q \in Scripts : ~script'[q].awaited
        BY <1>2, <1>4, <2>1 DEF ScriptFails
      <3> QED
        BY <1>2, <1>4, <3>1, <3>2, SettleSafe DEF ScriptFails
    <2>2. CASE ~script[p].awaited
      <3>1. Awaits' /\ HoldsJob' /\ Promises'
        BY <1>0, <1>4, <2>2 DEF ScriptFails, Awaits, HoldsJob, Working, Promises, FreeScript
      <3> QED
        BY <1>2, <1>4, <2>2, <3>1 DEF ScriptFails, JobMoves
    <2> QED
      BY <2>1, <2>2
  <1>5. CASE RunByHand(p)
    <2>1. /\ script[p].at = "none" /\ script'[p].at = "fetching"
          /\ ~script[p].awaited /\ ~script'[p].awaited /\ script'[p].target = 0
          /\ \A q \in Scripts : q # p => script'[q] = script[q]
      BY <1>5, Launched DEF RunByHand
    <2>2. Awaits'
      <3>1. UNCHANGED worker /\ \A q \in Scripts : script'[q].awaited => q # p /\ script'[q] = script[q]
        BY <1>5, <2>1 DEF RunByHand
      <3>2. worker.at = "updating" => worker.script # p
        BY <2>1 DEF Awaits
      <3> QED
        BY <2>1, <3>1, <3>2 DEF Awaits
    <2>3. HoldsJob' /\ Promises'
      BY <1>5 DEF RunByHand, HoldsJob, Working, Promises
    <2>4. Batches'
      BY <1>5, <2>1, Numbers DEF RunByHand, Batches, WithinFeed
    <2> QED
      BY <1>5, <2>2, <2>3, <2>4 DEF RunByHand, JobMoves
  <1> QED
    BY <1>1, <1>3, <1>4, <1>5 DEF ScriptStep

\* A run the worker no longer awaits is awaited by nobody.
LEMMA GivenUp ==
    ASSUME SafeInv
    PROVE  \A p \in Scripts :
              /\ p # worker.script => ~script[p].awaited
              /\ [script EXCEPT ![worker.script].awaited = FALSE][p].awaited = FALSE
              /\ [script EXCEPT ![worker.script].awaited = FALSE][p].target = script[p].target
              /\ [script EXCEPT ![worker.script].awaited = FALSE][p].at = script[p].at
  BY DEF SafeInv, Awaits, TypeInv, TypeOK

\* The runs go on when the worker dies, awaited by nobody.
LEMMA CrashGivesUp ==
    ASSUME SafeInv, Crash
    PROVE  /\ worker' = [IdleWorker EXCEPT !.at = "down"] /\ worker'.at = "down"
           /\ \A p \in Scripts : /\ script'[p].awaited = FALSE
                                 /\ script'[p].target = script[p].target
                                 /\ script'[p].at = script[p].at
  <1>1. ASSUME NEW p \in Scripts
        PROVE  /\ script'[p].awaited = FALSE
               /\ script'[p].target = script[p].target
               /\ script'[p].at = script[p].at
    <2>1. CASE p = worker.script
      <3>1. script'[p] = [script[p] EXCEPT !.awaited = FALSE]
        BY <2>1 DEF Crash
      <3> QED
        BY <3>1 DEF SafeInv, TypeInv, TypeOK
    <2>2. CASE p # worker.script
      <3>1. script'[p] = script[p]
        BY <2>2 DEF Crash
      <3>2. script[p].awaited = FALSE
        BY <2>2 DEF SafeInv, Awaits, TypeInv, TypeOK
      <3> QED
        BY <3>1, <3>2
    <2> QED
      BY <2>1, <2>2
  <1> QED
    BY <1>1 DEF Crash, IdleWorker

\* A step of the worker.
LEMMA WorkerSafe ==
    ASSUME SafeInv, TypeInv', WorkerStep \/ StepFails
    PROVE  SafeInv' /\ \A k \in Keys : JobMoves(k)
  <1> USE DEF SafeInv, dbVars, queueVars
  <1>1. ASSUME NEW k \in Keys, TakeJob(k) PROVE SafeInv' /\ \A j \in Keys : JobMoves(j)
    <2>1. \A j \in Keys : job'[j] = IF j = k THEN "active" ELSE job[j]
      BY <1>1 DEF TakeJob, TypeInv, TypeOK
    <2>2. worker'.at = "before" /\ worker'.key = k
      BY <1>1 DEF TakeJob, IdleWorker
    <2>3. HoldsJob' /\ Awaits' /\ Promises' /\ Batches'
      BY <1>1, <2>1, <2>2 DEF TakeJob, HoldsJob, Working, Awaits, Promises, Batches, WithinFeed
    <2> QED
      BY <1>1, <2>1, <2>3 DEF TakeJob, JobMoves
  <1>2. CASE ReadBefore
    BY <1>2 DEF ReadBefore, HoldsJob, Working, Awaits, Promises, Batches, WithinFeed, JobMoves, TypeInv, TypeOK
  <1>3. ASSUME NEW p \in Scripts, StartUpdate(p) PROVE SafeInv' /\ \A k \in Keys : JobMoves(k)
    <2>1. /\ script'[p].at = "fetching" /\ script'[p].awaited /\ script'[p].target = 0
          /\ \A q \in Scripts : q # p => script'[q] = script[q] /\ ~script[q].awaited
      BY <1>3, Launched DEF StartUpdate, Awaits
    <2>2. worker'.at = "updating" /\ worker'.script = p /\ worker'.key = worker.key /\ Working
      BY <1>3 DEF StartUpdate, Working, TypeInv, TypeOK
    <2>3. HoldsJob' /\ Promises' /\ Awaits'
      BY <1>3, <2>1, <2>2 DEF StartUpdate, HoldsJob, Promises, Awaits
    <2>4. Batches'
      BY <1>3, <2>1, Numbers DEF StartUpdate, Batches, WithinFeed
    <2> QED
      BY <1>3, <2>3, <2>4 DEF StartUpdate, JobMoves
  <1>4. ASSUME NEW outcome \in Settled, Working, Settle(outcome),
               UNCHANGED <<published, dbVars, caller>>,
               \A p \in Scripts : ~script'[p].awaited /\ script'[p].target = script[p].target
        PROVE  SafeInv' /\ \A k \in Keys : JobMoves(k)
    BY <1>4, SettleSafe DEF Batches, WithinFeed
  <1>5. ASSUME worker.at # "updating", UNCHANGED script
        PROVE  \A p \in Scripts : ~script'[p].awaited /\ script'[p].target = script[p].target
    BY <1>5 DEF Awaits
  <1>6. CASE TimeOut
    <2>1. Working /\ Settle("failed") /\ "failed" \in Settled
      BY <1>6 DEF TimeOut, Working, Settled
    <2> QED
      BY <1>4, <1>6, <2>1, GivenUp DEF TimeOut
  <1>7. CASE ReadAfter
    <2>1. CASE HasNewState
      <3>1. worker'.at \in {"rebuilding", "verifying"} /\ worker'.key = worker.key /\ Working
        BY <1>7, <2>1 DEF ReadAfter, Working, TypeInv, TypeOK
      <3> QED
        BY <1>7, <2>1, <3>1 DEF ReadAfter, HoldsJob, Awaits, Promises, Batches, WithinFeed, JobMoves
    <2>2. CASE ~HasNewState
      <3>1. Working /\ Settle("no_changes") /\ "no_changes" \in Settled
        BY <1>7, <2>2 DEF ReadAfter, Working, Settled, Completed
      <3> QED
        BY <1>4, <1>5, <1>7, <3>1 DEF ReadAfter
    <2> QED
      BY <2>1, <2>2
  <1>8. CASE Rebuild
    BY <1>8 DEF Rebuild, HoldsJob, Working, Awaits, Promises, Batches, WithinFeed, JobMoves, TypeInv, TypeOK
  <1>9. CASE Verify
    <2>1. Working /\ Settle("updated") /\ "updated" \in Settled
      BY <1>9 DEF Verify, Working, Settled, Completed
    <2> QED
      BY <1>4, <1>5, <1>9, <2>1 DEF Verify
  <1>10. CASE StepFails
    <2>1. Working /\ Settle("failed") /\ "failed" \in Settled
      BY <1>10 DEF StepFails, Working, Settled
    <2> QED
      BY <1>4, <1>5, <1>10, <2>1 DEF StepFails
  <1> QED
    BY <1>1, <1>2, <1>3, <1>6, <1>7, <1>8, <1>9, <1>10 DEF WorkerStep

\* Every step keeps the worker, its job and its run together, and moves jobs on.
LEMMA NextSafe == SafeInv /\ [Next]_vars => SafeInv' /\ \A k \in Keys : JobMoves(k)
  <1> SUFFICES ASSUME SafeInv, [Next]_vars PROVE SafeInv' /\ \A k \in Keys : JobMoves(k)
    OBVIOUS
  <1>0. TypeInv'
    BY NextTypes DEF SafeInv
  <1> USE DEF SafeInv
  <1>1. CASE Publish \/ (\E c \in Callers : CallerStep(c))
    BY <1>0, <1>1, OutsideSafe
  <1>2. ASSUME NEW p \in Scripts, ScriptStep(p) \/ ScriptFails(p) \/ RunByHand(p)
        PROVE  SafeInv' /\ \A k \in Keys : JobMoves(k)
    BY <1>0, <1>2, ScriptSafe
  <1>3. CASE WorkerStep \/ StepFails
    BY <1>0, <1>3, WorkerSafe
  <1>4. CASE Crash
    <2>1. /\ ~Working' /\ worker'.at # "updating"
          /\ \A p \in Scripts : ~script'[p].awaited /\ script'[p].target = script[p].target
      BY <1>4, CrashGivesUp DEF Working
    <2> QED
      BY <1>0, <1>4, <2>1 DEF Crash, HoldsJob, Awaits, Promises, Batches, WithinFeed, JobMoves, dbVars, queueVars
  <1>5. CASE Restart
    BY <1>0, <1>5 DEF Restart, IdleWorker, HoldsJob, Working, Awaits, Promises, Batches, WithinFeed, JobMoves,
                      dbVars, queueVars
  <1>6. ASSUME NEW k \in Keys, Stalled(k) PROVE SafeInv' /\ \A j \in Keys : JobMoves(j)
    <2>1. \A j \in Keys : /\ j # k => job'[j] = job[j] /\ stalls'[j] = stalls[j]
                          /\ j = k => /\ job[j] = "active"
                                      /\ \/ stalls[j] = 0 /\ job'[j] = "waiting" /\ stalls'[j] = 1
                                         \/ job'[j] = "failed"
      BY <1>6 DEF Stalled, TypeInv, TypeOK
    <2>2. \A j \in Keys : JobMoves(j)
      BY <1>6, <2>1 DEF Stalled, JobMoves, Settled
    <2>3. HoldsJob' /\ Awaits' /\ Promises' /\ Batches'
      BY <1>6, <2>1 DEF Stalled, HoldsJob, Working, Awaits, Promises, Batches, WithinFeed, dbVars
    <2> QED
      BY <1>0, <2>2, <2>3
  <1>7. CASE UNCHANGED vars
    BY <1>0, <1>7 DEF vars, dbVars, queueVars, HoldsJob, Working, Awaits, Promises, Batches, WithinFeed, JobMoves
  <1> QED
    BY <1>1, <1>2, <1>3, <1>4, <1>5, <1>6, <1>7 DEF Next

\* A run ends by itself or by a failure, and is awaited by the worker if by any.
LEMMA EndsAreNews ==
    ASSUME SafeInv, [Next]_vars, NEW p \in Scripts
    PROVE  EndIsNews(p)
  <1> SUFFICES ASSUME script[p].at # "none", script'[p].at = "none", worker' # worker
               PROVE  worker.at = "updating" /\ worker.script = p
    BY DEF EndIsNews
  <1>1. TypeInv /\ Awaits
    BY DEF SafeInv
  <1>2. ASSUME NEW q \in Scripts, Analyze(q) \/ ScriptFails(q)
        PROVE  worker.at = "updating" /\ worker.script = p
    <2>1. script' = [script EXCEPT ![q] = FreeScript]
      BY <1>2 DEF Analyze, ScriptFails
    <2>2. p = q
      BY <1>1, <2>1 DEF TypeInv, TypeOK
    <2>3. script[q].awaited
      BY <1>2 DEF Analyze, ScriptFails
    <2> QED
      BY <1>1, <2>2, <2>3 DEF Awaits
  <1>3. ASSUME NEW q \in Scripts, Fetch(q) \/ Apply(q) \/ Record(q) \/ RunByHand(q)
        PROVE  FALSE
    BY <1>3 DEF Fetch, Apply, Record, RunByHand
  <1>4. CASE Publish \/ Restart \/ ReadBefore \/ ReadAfter \/ Rebuild \/ Verify \/ StepFails
             \/ UNCHANGED vars \/ \E k \in Keys : TakeJob(k) \/ Stalled(k)
    BY <1>4 DEF Publish, Restart, ReadBefore, ReadAfter, Rebuild, Verify, StepFails, vars, TakeJob, Stalled
  <1>5. ASSUME NEW c \in Callers, CallerStep(c)
        PROVE  FALSE
    BY <1>5 DEF CallerStep, Request, ReadLocal, ReadRemote, Decide, Lookup, Add, Refuse
  <1>6. ASSUME NEW q \in Scripts, StartUpdate(q)
        PROVE  FALSE
    <2>1. script' = [script EXCEPT ![q] = [FreeScript EXCEPT !.at = "fetching", !.awaited = TRUE]]
          /\ script[q] = FreeScript
      BY <1>6 DEF StartUpdate, Launch
    <2> QED
      BY <1>1, <2>1 DEF TypeInv, TypeOK, FreeScript
  <1>7. CASE TimeOut
    BY <1>1, <1>7 DEF TimeOut, TypeInv, TypeOK
  <1>8. CASE Crash
    BY <1>1, <1>8 DEF Crash, TypeInv, TypeOK
  <1> QED
    BY <1>2, <1>3, <1>4, <1>5, <1>6, <1>7, <1>8 DEF Next, ScriptStep, WorkerStep

\* Whatever fails, crashes, overruns or is run by hand, an ended job stays as it
\* ended, a job is taken again only once, and no worker takes the end of another
\* run of the script for that of the one it waits for.
THEOREM JobsOnlyMoveOn == Spec => JobsMoveOn
  <1>1. Init => SafeInv
    BY InitSafe
  <1>2. SafeInv /\ [Next]_vars
            => SafeInv' /\ (\A k \in Keys : JobMoves(k)) /\ (\A p \in Scripts : EndIsNews(p))
    BY NextSafe, EndsAreNews
  <1> QED
    BY <1>1, <1>2, PTL DEF Spec, JobsMoveOn

\* Under the same faults neither the rows nor the recorded state get ahead of
\* the feed: overlapping runs can lose diffs, not invent them.
THEOREM NothingBeyondFeed == Spec => []WithinFeed
  <1>1. Init => SafeInv
    BY InitSafe
  <1>2. SafeInv /\ [Next]_vars => SafeInv'
    BY NextSafe
  <1>3. SafeInv => WithinFeed
    BY DEF SafeInv, Batches
  <1> QED
    BY <1>1, <1>2, <1>3, PTL DEF Spec

-----------------------------------------------------------------------------
(* While no two runs of the script overlap *)

\* What a batch brings the rows to lies ahead of what is recorded, and stays
\* there until it is recorded.
BatchInOrder ==
    /\ recorded <= roads
    /\ \A p \in Scripts :
          /\ script[p].at = "applying" => recorded < script[p].target
          /\ script[p].at = "recording" => script[p].target = roads /\ recorded < roads

\* The run the worker awaits has caught up with what the job was promised when
\* it finds nothing more to fetch.
CaughtUp ==
    \/ worker.at \in {"after", "rebuilding", "verifying"}
    \/ \E p \in Scripts : script[p].at = "analyzing" /\ script[p].awaited

HasCaughtUp == CaughtUp => recorded >= promised[worker.key]

OneRunInv == BatchInOrder /\ HasCaughtUp /\ JobDelivers

LEMMA InitOneRun == Init => OneRunInv
  BY DEF Init, OneRunInv, BatchInOrder, HasCaughtUp, CaughtUp, JobDelivers, IdleWorker, FreeScript, Completed

\* Jobs stay as they were promised while only the recorded state grows.
LEMMA StillDelivers ==
    ASSUME SafeInv, SafeInv', JobDelivers, recorded' >= recorded,
           \A k \in Keys : job'[k] \in Completed => job'[k] = job[k] /\ promised'[k] = promised[k]
    PROVE  JobDelivers'
  BY Numbers DEF SafeInv, TypeInv, TypeOK, Versions, JobDelivers

\* The worker ends its job and the rows and the runs of the script go on, or end.
LEMMA SettleDelivers ==
    ASSUME SafeInv, OneRunInv, Working, NEW outcome \in Settled, Settle(outcome),
           outcome \in Completed => CaughtUp,
           UNCHANGED <<published, recorded, roads, caller>>,
           \A p \in Scripts :
              /\ ~script'[p].awaited
              /\ script'[p].at \in {script[p].at, "none"} /\ script'[p].target \in {script[p].target, 0}
              /\ script'[p].at # "none" => script'[p].target = script[p].target
    PROVE  OneRunInv'
  <1>1. \A k \in Keys : /\ job'[k] = IF k = worker.key THEN outcome ELSE job[k]
                        /\ promised'[k] = promised[k]
    BY SettleSafe
  <1>2. ~CaughtUp'
    BY DEF Settle, IdleWorker, CaughtUp
  <1>3. BatchInOrder'
    BY DEF OneRunInv, BatchInOrder
  <1>4. JobDelivers'
    BY <1>1 DEF OneRunInv, HasCaughtUp, JobDelivers
  <1> QED
    BY <1>2, <1>3, <1>4 DEF OneRunInv, HasCaughtUp

\* A run of the script goes on, ends or is begun by hand.
LEMMA ScriptOneRun ==
    ASSUME SafeInv, SafeInv', OneRunInv, OneRun,
           NEW p \in Scripts, ScriptStep(p) \/ ScriptFails(p) \/ RunByHand(p)
    PROVE  OneRunInv'
  <1> USE Numbers DEF SafeInv, OneRunInv, dbVars, queueVars
  <1>0. p \in DOMAIN script /\ published' = published
    BY DEF TypeInv, TypeOK, ScriptStep, Fetch, Apply, Record, Analyze, ScriptFails, RunByHand
  <1>1. script[p].at # "none" => \A q \in Scripts : q # p => script[q].at = "none" /\ ~script[q].awaited
    BY DEF OneRun, Awaits
  <1>2. ASSUME NEW at, script' = [script EXCEPT ![p].at = at]
        PROVE  /\ script'[p] = [script[p] EXCEPT !.at = at]
               /\ \A q \in Scripts : q # p => script'[q] = script[q]
    BY <1>0, <1>2 DEF TypeInv, TypeOK
  <1>3. ASSUME NEW at, script'[p] = [script[p] EXCEPT !.at = at]
        PROVE  script'[p].at = at /\ script'[p].awaited = script[p].awaited /\ script'[p].target = script[p].target
    BY <1>3 DEF TypeInv, TypeOK
  <1>4. CASE Fetch(p)
    <2>1. ASSUME NEW v \in (recorded + 1)..published,
                 script' = [script EXCEPT ![p].at = "applying", ![p].target = v]
          PROVE  OneRunInv'
      <3>1. /\ script'[p].at = "applying" /\ script'[p].target = v
            /\ \A q \in Scripts : q # p => script'[q] = script[q]
        BY <1>0, <2>1 DEF TypeInv, TypeOK
      <3>2. BatchInOrder'
        BY <1>1, <1>4, <3>1 DEF Fetch, BatchInOrder
      <3>3. CaughtUp' => CaughtUp
        BY <1>4, <3>1 DEF Fetch, CaughtUp
      <3> QED
        BY <1>4, <3>2, <3>3 DEF Fetch, HasCaughtUp, JobDelivers
    <2>2. ASSUME published <= recorded, script' = [script EXCEPT ![p].at = "analyzing"]
          PROVE  OneRunInv'
      <3>1. /\ script'[p].at = "analyzing" /\ script'[p].awaited = script[p].awaited
            /\ \A q \in Scripts : q # p => script'[q] = script[q]
        BY <1>2, <1>3, <2>2
      <3>2. BatchInOrder'
        BY <1>1, <1>4, <3>1 DEF Fetch, BatchInOrder
      <3>3. HasCaughtUp'
        <4>1. CASE script[p].awaited
          <5>1. worker.key \in Keys
            BY <4>1 DEF Awaits, HoldsJob, Working
          <5> QED
            BY <1>4, <2>2, <5>1 DEF Fetch, Promises, HasCaughtUp
        <4>2. CASE ~script[p].awaited
          BY <1>4, <3>1, <4>2 DEF Fetch, HasCaughtUp, CaughtUp
        <4> QED
          BY <4>1, <4>2
      <3> QED
        BY <1>4, <3>2, <3>3 DEF Fetch, JobDelivers
    <2> QED
      BY <1>4, <2>1, <2>2 DEF Fetch
  <1>5. CASE Apply(p)
    <2>1. /\ script'[p].at = "recording" /\ script'[p].target = script[p].target
          /\ \A q \in Scripts : q # p => script'[q] = script[q]
      BY <1>2, <1>3, <1>5 DEF Apply
    <2>2. BatchInOrder'
      BY <1>1, <1>5, <2>1 DEF Apply, BatchInOrder
    <2>3. CaughtUp' => CaughtUp
      BY <1>5, <2>1 DEF Apply, CaughtUp
    <2> QED
      BY <1>5, <2>2, <2>3 DEF Apply, HasCaughtUp, JobDelivers
  <1>6. CASE Record(p)
    <2>1. /\ script'[p].at = "fetching"
          /\ \A q \in Scripts : q # p => script'[q] = script[q]
      BY <1>2, <1>3, <1>6 DEF Record
    <2>2. recorded' > recorded /\ recorded' = roads /\ recorded' \in Nat
      BY <1>6 DEF Record, BatchInOrder
    <2>3. BatchInOrder'
      BY <1>1, <1>6, <2>1, <2>2 DEF Record, BatchInOrder
    <2>4. CaughtUp' => CaughtUp /\ Working
      BY <1>6, <2>1 DEF Record, CaughtUp, Working, Awaits
    <2>5. HasCaughtUp'
      BY <1>6, <2>2, <2>4 DEF Record, HasCaughtUp, HoldsJob
    <2>6. JobDelivers'
      BY <1>6, <2>2, StillDelivers DEF Record
    <2> QED
      BY <2>3, <2>5, <2>6
  <1>7. ASSUME script' = [script EXCEPT ![p] = FreeScript], UNCHANGED <<recorded, roads>>
        PROVE  /\ BatchInOrder'
               /\ script'[p].at = "none" /\ script'[p].target = 0 /\ ~script'[p].awaited
               /\ \A q \in Scripts : q # p => script'[q] = script[q]
    <2>1. script'[p] = FreeScript /\ \A q \in Scripts : q # p => script'[q] = script[q]
      BY <1>0, <1>7
    <2> QED
      BY <1>7, <2>1 DEF BatchInOrder, FreeScript
  <1>8. CASE Analyze(p)
    <2>1. CASE script[p].awaited
      <3>1. CaughtUp /\ worker'.key = worker.key
        BY <1>8, <2>1 DEF Analyze, CaughtUp, TypeInv, TypeOK
      <3> QED
        BY <1>7, <1>8, <3>1 DEF Analyze, HasCaughtUp, JobDelivers
    <2>2. CASE ~script[p].awaited
      <3>1. CaughtUp' => CaughtUp
        BY <1>7, <1>8, <2>2 DEF Analyze, CaughtUp
      <3> QED
        BY <1>7, <1>8, <2>2, <3>1 DEF Analyze, HasCaughtUp, JobDelivers
    <2> QED
      BY <2>1, <2>2
  <1>9. CASE ScriptFails(p)
    <2>1. CASE script[p].awaited
      <3>1. Working /\ "failed" \in Settled /\ "failed" \notin Completed
        BY <2>1 DEF Awaits, Working, Settled, Completed
      <3>2. Settle("failed") /\ UNCHANGED <<published, recorded, roads, caller>>
        BY <1>9, <2>1 DEF ScriptFails
      <3>3. \A q \in Scripts : q # p => ~script[q].awaited
        BY <2>1 DEF Awaits
      <3> QED
        BY <1>7, <1>9, <3>1, <3>2, <3>3, SettleDelivers DEF ScriptFails
    <2>2. CASE ~script[p].awaited
      <3>1. CaughtUp' => CaughtUp
        BY <1>7, <1>9, <2>2 DEF ScriptFails, CaughtUp
      <3> QED
        BY <1>7, <1>9, <2>2, <3>1 DEF ScriptFails, HasCaughtUp, JobDelivers
    <2> QED
      BY <2>1, <2>2
  <1>10. CASE RunByHand(p)
    <2>1. script'[p].at = "fetching" /\ \A q \in Scripts : q # p => script'[q] = script[q]
      BY <1>10, Launched DEF RunByHand
    <2>2. BatchInOrder'
      BY <1>10, <2>1 DEF RunByHand, BatchInOrder
    <2>3. CaughtUp' => CaughtUp
      BY <1>10, <2>1 DEF RunByHand, CaughtUp
    <2> QED
      BY <1>10, <2>2, <2>3 DEF RunByHand, HasCaughtUp, JobDelivers
  <1> QED
    BY <1>4, <1>5, <1>6, <1>8, <1>9, <1>10 DEF ScriptStep

\* A step of the worker.
LEMMA WorkerOneRun ==
    ASSUME SafeInv, SafeInv', OneRunInv, WorkerStep \/ StepFails
    PROVE  OneRunInv'
  <1> USE DEF SafeInv, OneRunInv, dbVars, queueVars
  <1>1. ASSUME NEW k \in Keys, TakeJob(k) PROVE OneRunInv'
    <2>1. \A j \in Keys : job'[j] = IF j = k THEN "active" ELSE job[j]
      BY <1>1 DEF TakeJob, TypeInv, TypeOK
    <2>2. ~CaughtUp'
      BY <1>1 DEF TakeJob, IdleWorker, CaughtUp, Awaits
    <2>3. BatchInOrder' /\ JobDelivers'
      BY <1>1, <2>1 DEF TakeJob, BatchInOrder, JobDelivers, Completed
    <2> QED
      BY <2>2, <2>3 DEF HasCaughtUp
  <1>2. CASE ReadBefore
    <2>1. ~CaughtUp'
      BY <1>2 DEF ReadBefore, CaughtUp, Awaits, TypeInv, TypeOK
    <2> QED
      BY <1>2, <2>1 DEF ReadBefore, HasCaughtUp, BatchInOrder, JobDelivers
  <1>3. ASSUME NEW p \in Scripts, StartUpdate(p) PROVE OneRunInv'
    <2>1. script'[p].at = "fetching" /\ \A q \in Scripts : q # p => script'[q] = script[q] /\ ~script[q].awaited
      <3>1. \A q \in Scripts : ~script[q].awaited
        BY <1>3 DEF StartUpdate, Awaits
      <3> QED
        BY <1>3, <3>1, Launched DEF StartUpdate
    <2>2. ~CaughtUp'
      BY <1>3, <2>1 DEF StartUpdate, CaughtUp, TypeInv, TypeOK
    <2>3. BatchInOrder'
      BY <1>3, <2>1 DEF StartUpdate, BatchInOrder
    <2> QED
      BY <1>3, <2>2, <2>3 DEF StartUpdate, HasCaughtUp, JobDelivers
  <1>4. CASE TimeOut
    <2>1. Working /\ Settle("failed") /\ "failed" \in Settled /\ "failed" \notin Completed
      BY <1>4 DEF TimeOut, Working, Settled, Completed
    <2> QED
      BY <1>4, <2>1, GivenUp, SettleDelivers DEF TimeOut
  <1>5. ASSUME worker.at # "updating"
        PROVE  \A p \in Scripts : ~script[p].awaited
    BY <1>5 DEF Awaits
  <1>6. CASE ReadAfter
    <2>1. CASE HasNewState
      <3>1. CaughtUp /\ worker'.key = worker.key
        BY <1>6, <2>1 DEF ReadAfter, CaughtUp, TypeInv, TypeOK
      <3> QED
        BY <1>6, <2>1, <3>1 DEF ReadAfter, HasCaughtUp, BatchInOrder, JobDelivers
    <2>2. CASE ~HasNewState
      <3>1. Working /\ CaughtUp /\ Settle("no_changes") /\ "no_changes" \in Settled
        BY <1>6, <2>2 DEF ReadAfter, Working, CaughtUp, Settled, Completed
      <3> QED
        BY <1>5, <1>6, <3>1, SettleDelivers DEF ReadAfter
    <2> QED
      BY <2>1, <2>2
  <1>7. CASE Rebuild
    <2>1. CaughtUp /\ worker'.key = worker.key
      BY <1>7 DEF Rebuild, CaughtUp, TypeInv, TypeOK
    <2> QED
      BY <1>7, <2>1 DEF Rebuild, HasCaughtUp, BatchInOrder, JobDelivers
  <1>8. CASE Verify
    <2>1. Working /\ CaughtUp /\ Settle("updated") /\ "updated" \in Settled
      BY <1>8 DEF Verify, Working, CaughtUp, Settled, Completed
    <2> QED
      BY <1>5, <1>8, <2>1, SettleDelivers DEF Verify
  <1>9. CASE StepFails
    <2>1. Working /\ Settle("failed") /\ "failed" \in Settled /\ "failed" \notin Completed
      BY <1>9 DEF StepFails, Working, Settled, Completed
    <2> QED
      BY <1>5, <1>9, <2>1, SettleDelivers DEF StepFails
  <1> QED
    BY <1>1, <1>2, <1>3, <1>4, <1>6, <1>7, <1>8, <1>9 DEF WorkerStep

\* A step from a state with no two runs alive keeps the invariant, whatever
\* fails, crashes, overruns or is run by hand.
LEMMA NextOneRun == SafeInv /\ SafeInv' /\ OneRunInv /\ OneRun /\ [Next]_vars => OneRunInv'
  <1> SUFFICES ASSUME SafeInv, SafeInv', OneRunInv, OneRun, [Next]_vars PROVE OneRunInv'
    OBVIOUS
  <1> USE DEF OneRunInv
  <1>1. CASE Publish \/ (\E c \in Callers : CallerStep(c))
    <2>1. /\ UNCHANGED <<recorded, roads, script, worker>>
          /\ \A k \in Keys : \/ job'[k] = job[k] /\ promised'[k] = promised[k]
                             \/ job[k] = "none" /\ job'[k] = "waiting"
      BY <1>1, OutsideSafe DEF SafeInv
    <2>2. (CaughtUp' <=> CaughtUp) /\ (CaughtUp => Working)
      BY <2>1 DEF CaughtUp, Working, SafeInv, Awaits
    <2>3. CaughtUp => promised'[worker.key] = promised[worker.key]
      BY <2>1, <2>2 DEF SafeInv, HoldsJob
    <2>4. HasCaughtUp'
      BY <2>1, <2>2, <2>3 DEF HasCaughtUp
    <2> QED
      BY <2>1, <2>4 DEF BatchInOrder, JobDelivers, Completed
  <1>2. ASSUME NEW p \in Scripts, ScriptStep(p) \/ ScriptFails(p) \/ RunByHand(p)
        PROVE  OneRunInv'
    BY <1>2, ScriptOneRun
  <1>3. CASE WorkerStep \/ StepFails
    BY <1>3, WorkerOneRun
  <1>4. CASE Crash
    <2>1. /\ worker'.at = "down"
          /\ \A p \in Scripts : ~script'[p].awaited /\ script'[p].target = script[p].target
                                /\ script'[p].at = script[p].at
      BY <1>4, CrashGivesUp
    <2> QED
      BY <1>4, <2>1 DEF Crash, BatchInOrder, HasCaughtUp, CaughtUp, JobDelivers, dbVars, queueVars
  <1>5. CASE Restart
    <2>1. ~CaughtUp'
      BY <1>5 DEF Restart, IdleWorker, CaughtUp, SafeInv, Awaits
    <2> QED
      BY <1>5, <2>1 DEF Restart, BatchInOrder, HasCaughtUp, JobDelivers, dbVars, queueVars
  <1>6. ASSUME NEW k \in Keys, Stalled(k) PROVE OneRunInv'
    <2>1. \A j \in Keys : job'[j] = job[j] \/ job'[j] \in {"waiting", "failed"}
      BY <1>6 DEF Stalled, SafeInv, TypeInv, TypeOK
    <2> QED
      BY <1>6, <2>1 DEF Stalled, BatchInOrder, HasCaughtUp, CaughtUp, JobDelivers, Completed, dbVars
  <1>7. CASE UNCHANGED vars
    BY <1>7 DEF vars, dbVars, queueVars, BatchInOrder, HasCaughtUp, CaughtUp, JobDelivers
  <1> QED
    BY <1>1, <1>2, <1>3, <1>4, <1>5, <1>6, <1>7 DEF Next

\* A step of the pipeline from such a state is a step of the replica, or none.
LEMMA StepIsReplicaStep ==
    ASSUME SafeInv, OneRunInv, [Next]_vars
    PROVE  [Replica!Next]_(Replica!vars)
  <1> USE DEF Replica!vars
  <1>0. published \in Nat /\ recorded \in Nat /\ roads \in Nat /\ recorded <= roads /\ roads <= published
    BY Numbers DEF SafeInv, Batches, WithinFeed, OneRunInv, BatchInOrder
  <1>1. CASE Publish
    BY <1>1 DEF Publish, dbVars, Replica!Next, Replica!Publish
  <1>2. CASE \E c \in Callers : CallerStep(c)
    BY <1>2 DEF CallerStep, Request, ReadLocal, ReadRemote, Decide, Lookup, Add, Refuse, dbVars
  <1>3. ASSUME NEW p \in Scripts, ScriptStep(p) \/ ScriptFails(p) \/ RunByHand(p)
        PROVE  [Replica!Next]_(Replica!vars)
    <2>1. CASE Apply(p)
      <3>1. roads' \in recorded..published
        BY <1>0, <2>1, Numbers DEF Apply, SafeInv, Batches, OneRunInv, BatchInOrder
      <3> QED
        BY <2>1, <3>1 DEF Apply, Replica!Next, Replica!Write
    <2>2. CASE Record(p)
      <3>1. recorded' \in (recorded + 1)..roads
        BY <1>0, <2>2 DEF Record, OneRunInv, BatchInOrder
      <3> QED
        BY <2>2, <3>1 DEF Record, Replica!Next, Replica!Record
    <2>3. CASE Fetch(p) \/ Analyze(p) \/ ScriptFails(p) \/ RunByHand(p)
      BY <2>3 DEF Fetch, Analyze, ScriptFails, RunByHand, dbVars
    <2> QED
      BY <1>3, <2>1, <2>2, <2>3 DEF ScriptStep
  <1>4. CASE WorkerStep
    BY <1>4 DEF WorkerStep, TakeJob, ReadBefore, StartUpdate, TimeOut, ReadAfter, Rebuild, Verify, dbVars
  <1>5. CASE StepFails \/ Crash \/ Restart \/ (\E k \in Keys : Stalled(k))
    BY <1>5 DEF StepFails, Crash, Restart, Stalled, dbVars
  <1>6. CASE UNCHANGED vars
    BY <1>6 DEF vars, dbVars
  <1> QED
    BY <1>1, <1>2, <1>3, <1>4, <1>5, <1>6 DEF Next

\* While no two runs of the script overlap, and whatever else happens (failures,
\* crashes, runs by hand, overruns), the pipeline implements FeedReplica: its
\* recorded state only moves forward, within the feed and within its rows.
THEOREM OneRunImplementsReplica == Spec /\ []OneRun => ReplicaSpec
  <1>1. Init => SafeInv /\ OneRunInv /\ Replica!Init
    BY InitSafe, InitOneRun DEF Init, Replica!Init
  <1>2. SafeInv /\ [Next]_vars => SafeInv'
    BY NextSafe
  <1>3. SafeInv /\ SafeInv' /\ OneRunInv /\ OneRun /\ [Next]_vars => OneRunInv'
    BY NextOneRun
  <1>4. SafeInv /\ OneRunInv /\ [Next]_vars => [Replica!Next]_(Replica!vars)
    BY StepIsReplicaStep
  <1> QED
    BY <1>1, <1>2, <1>3, <1>4, PTL DEF Spec, ReplicaSpec, Replica!Spec

\* Under the same condition no diff is skipped, ...
THEOREM OneRunSkipsNoDiff == Spec /\ []OneRun => []RecordedIsApplied
  <1>1. Init => SafeInv /\ OneRunInv
    BY InitSafe, InitOneRun
  <1>2. SafeInv /\ [Next]_vars => SafeInv'
    BY NextSafe
  <1>3. SafeInv /\ SafeInv' /\ OneRunInv /\ OneRun /\ [Next]_vars => OneRunInv'
    BY NextOneRun
  <1>4. OneRunInv => RecordedIsApplied
    BY DEF OneRunInv, BatchInOrder, RecordedIsApplied
  <1> QED
    BY <1>1, <1>2, <1>3, <1>4, PTL DEF Spec

\* ... and a completed job has brought the database to the version its caller
\* was shown, even a job that was taken twice, or that ran after a run which
\* outlived its own job had ended.
THEOREM OneRunDelivers == Spec /\ []OneRun => []JobDelivers
  <1>1. Init => SafeInv /\ OneRunInv
    BY InitSafe, InitOneRun
  <1>2. SafeInv /\ [Next]_vars => SafeInv'
    BY NextSafe
  <1>3. SafeInv /\ SafeInv' /\ OneRunInv /\ OneRun /\ [Next]_vars => OneRunInv'
    BY NextOneRun
  <1>4. OneRunInv => JobDelivers
    BY DEF OneRunInv
  <1> QED
    BY <1>1, <1>2, <1>3, <1>4, PTL DEF Spec

-----------------------------------------------------------------------------
(* While the worker is the only one to run the script *)

\* Every run alive is the one the worker awaits.
Alone ==
    /\ left["crash"] = 0
    /\ left["byHand"] = 0
    /\ \A p \in Scripts : script[p].at # "none" => script[p].awaited

\* Then no two runs overlap: the worker runs one job at a time, awaits its
\* script, and starts none while it awaits one.
LEMMA AloneIsOneRun == SafeInv /\ Alone => OneRun
  BY DEF SafeInv, Awaits, Alone, OneRun

LEMMA NextAlone == ASSUME SoleWriter, SafeInv, Alone, [Next]_vars PROVE Alone'
  <1> USE DEF SafeInv, Alone, dbVars, queueVars
  <1>0. ASSUME Spend("failure") PROVE left'["crash"] = 0 /\ left'["byHand"] = 0
    BY <1>0 DEF Spend, TypeInv, TypeOK, Faults
  <1>1. CASE Publish \/ (\E c \in Callers : CallerStep(c))
    BY <1>1 DEF Publish, CallerStep, Request, ReadLocal, ReadRemote, Decide, Lookup, Add, Refuse
  <1>2. ASSUME NEW p \in Scripts, ScriptStep(p) \/ ScriptFails(p) \/ RunByHand(p) PROVE Alone'
    <2>1. CASE Fetch(p) \/ Apply(p) \/ Record(p)
      <3>1. \A q \in Scripts : q # p => script'[q] = script[q]
        BY <2>1 DEF Fetch, Apply, Record, TypeInv, TypeOK
      <3>2. script[p].at # "none" /\ left' = left
        BY <2>1 DEF Fetch, Apply, Record
      <3>3. script'[p].awaited = script[p].awaited
        <4>1. CASE Apply(p) \/ Record(p)
          BY <4>1 DEF Apply, Record, TypeInv, TypeOK
        <4>2. CASE Fetch(p)
          BY <4>2 DEF Fetch, TypeInv, TypeOK
        <4> QED
          BY <2>1, <4>1, <4>2
      <3> QED
        BY <3>1, <3>2, <3>3
    <2>2. CASE Analyze(p) \/ ScriptFails(p)
      <3>1. \A q \in Scripts : script'[q] = IF q = p THEN FreeScript ELSE script[q]
        BY <2>2 DEF Analyze, ScriptFails, TypeInv, TypeOK
      <3> QED
        BY <1>0, <2>2, <3>1 DEF Analyze, ScriptFails, FreeScript
    <2>3. CASE RunByHand(p)
      BY <2>3 DEF RunByHand, Spend
    <2> QED
      BY <1>2, <2>1, <2>2, <2>3 DEF ScriptStep
  <1>3. CASE WorkerStep \/ StepFails
    <2>1. ASSUME NEW p \in Scripts, StartUpdate(p) PROVE Alone'
      <3>1. script'[p].awaited = TRUE /\ \A q \in Scripts : q # p => script'[q] = script[q]
        BY <2>1, Launched DEF StartUpdate
      <3> QED
        BY <2>1, <3>1 DEF StartUpdate
    <2>2. CASE TimeOut
      BY <2>2 DEF TimeOut, SoleWriter
    <2>3. CASE StepFails
      BY <1>0, <2>3 DEF StepFails
    <2> QED
      BY <1>3, <2>1, <2>2, <2>3 DEF WorkerStep, TakeJob, ReadBefore, ReadAfter, Rebuild, Verify
  <1>4. CASE Crash
    BY <1>4 DEF Crash, Spend
  <1>5. CASE Restart \/ (\E k \in Keys : Stalled(k)) \/ UNCHANGED vars
    BY <1>5 DEF Restart, Stalled, vars
  <1> QED
    BY <1>1, <1>2, <1>3, <1>4, <1>5 DEF Next

\* The one worker by itself never lets two runs of the script overlap, whatever
\* fails at any step.
THEOREM SoleWriterRunsOne == ASSUME SoleWriter PROVE Spec => []OneRun
  <1>1. Init => SafeInv /\ Alone
    BY InitSafe DEF SoleWriter, Init, Alone, FreeScript
  <1>2. SafeInv /\ [Next]_vars => SafeInv'
    BY NextSafe
  <1>3. SafeInv /\ Alone /\ [Next]_vars => Alone'
    BY NextAlone
  <1>4. SafeInv /\ Alone => OneRun
    BY AloneIsOneRun
  <1> QED
    BY <1>1, <1>2, <1>3, <1>4, PTL DEF Spec

\* While the worker is the only one to run the script, whatever fails at any of
\* its steps, what is recorded as applied has been applied.
THEOREM NoDiffSkipped == ASSUME SoleWriter PROVE Spec => []RecordedIsApplied
  BY SoleWriterRunsOne, OneRunSkipsNoDiff, PTL

\* Under the same condition a completed job has brought the database to the
\* version its caller was shown, however requests, diffs and the worker's own
\* steps interleave.
THEOREM JobsDeliver == ASSUME SoleWriter PROVE Spec => []JobDelivers
  BY SoleWriterRunsOne, OneRunDelivers, PTL

\* Under the same condition the pipeline implements FeedReplica.
THEOREM ImplementsReplica == ASSUME SoleWriter PROVE Spec => ReplicaSpec
  BY SoleWriterRunsOne, OneRunImplementsReplica, PTL

=============================================================================
