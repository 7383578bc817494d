---------------------------- MODULE UpstreamGate ----------------------------
(***************************************************************************)
(* The admission gate in front of OSRM (utils/upstreamGate.js) and the     *)
(* calls the map-matching and routing services make through it             *)
(* (services/matchService.js, services/routeService.js).  A call is        *)
(* admitted only while fewer than Concurrency calls are in flight and no   *)
(* cooldown runs; a call that fails with no status or with a 5xx starts a  *)
(* cooldown; nothing queues.                                               *)
(*                                                                         *)
(* Giving up on a call does not stop the computation OSRM began for it, so *)
(* the calls in flight (running) and the computations under way            *)
(* (computing) are two sets.  Time passes in ticks of one millisecond and  *)
(* is kept as remaining or elapsed time, so the model needs no horizon:    *)
(* closedFor is blockedUntil - now(), floored at 0.                        *)
(***************************************************************************)
EXTENDS Naturals, FiniteSets

CONSTANTS Requests,     \* identities of calls; one is free again when OSRM is done with it
          Concurrency,  \* most calls in flight
          CooldownMs,   \* how long a failure closes the gate
          TimeoutMs,    \* OSRM_REQUEST_TIMEOUT_MS, the deadline of a fetch
          ComputeMs,    \* longest an OSRM computation lasts (external)
          SecondMs      \* milliseconds in the unit of Retry-After (1000)

ASSUME RequestsAssumption == IsFiniteSet(Requests)
ASSUME SettingsAssumption ==
    /\ Concurrency \in Nat \ {0}
    /\ CooldownMs \in Nat \ {0}
    /\ SecondMs \in Nat \ {0}
    /\ TimeoutMs \in Nat
    /\ ComputeMs \in Nat

VARIABLES
    active,     \* this.active
    closedFor,  \* this.blockedUntil - now(), 0 when the gate is not blocked
    running,    \* calls whose run(operation) is pending
    computing,  \* calls OSRM still computes for
    age,        \* time since the call was admitted
    advised,    \* calls told when to come back, no failure having happened since
    advice,     \* what is left of the Retry-After those calls were told
    closedAge   \* history: how long the gate has been closed without a break,
                \* counted up to one more than it may be

vars == <<active, closedFor, running, computing, age, advised, advice, closedAge>>

TypeOK ==
    /\ active \in Nat
    /\ closedFor \in 0..CooldownMs
    /\ running \in SUBSET Requests
    /\ computing \in SUBSET Requests
    /\ age \in [Requests -> Nat]
    /\ advised \in SUBSET Requests
    /\ advice \in [Requests -> Nat]
    /\ closedAge \in Nat

Init ==
    /\ active = 0
    /\ closedFor = 0
    /\ running = {}
    /\ computing = {}
    /\ age = [r \in Requests |-> 0]
    /\ advised = {}
    /\ advice = [r \in Requests |-> 0]
    /\ closedAge = 0

-----------------------------------------------------------------------------
(* Helpers *)

\* Variant: the gate forgets the cooldown.
BusyByCount == active >= Concurrency

Busy == active >= Concurrency \/ closedFor > 0

\* Variant: seconds rounded down.
FloorSeconds(ms) == ms \div SecondMs

\* Math.ceil(ms / 1000)
CeilSeconds(ms) == (ms + SecondMs - 1) \div SecondMs

AtLeastOne(n) == IF n = 0 THEN 1 ELSE n

\* What remains of a span of time when a tick has passed (external: the clock).
CountDown(ms) == IF ms > 0 THEN ms - 1 ELSE 0

\* The longest that the gate is to be closed without a break.
ClosureBound == TimeoutMs + CooldownMs

Older(ms) == IF ms <= ClosureBound THEN ms + 1 ELSE ms

\* Variant: each failure adds a cooldown to what is left of the one before.
CloseAdds(r) ==
    /\ closedFor' = closedFor + CooldownMs
    /\ advised' = {r}
    /\ advice' = [advice EXCEPT ![r] = SecondMs * CeilSeconds(CooldownMs)]
    /\ closedAge' = IF closedFor = 0 THEN 0 ELSE closedAge

\* The 5xx statuses and the errors without one close the gate; the 4xx that
\* CODE_STATUS gives to OSRM's own verdicts on a request do not.
Close(r) ==
    /\ closedFor' = CooldownMs
    /\ advised' = {r}
    /\ advice' = [advice EXCEPT ![r] = SecondMs * CeilSeconds(CooldownMs)]
    /\ closedAge' = IF closedFor = 0 THEN 0 ELSE closedAge

-----------------------------------------------------------------------------
(* The steps of run(operation) *)

\* The call passes the guard and its request goes out to OSRM.
Admit(r) ==
    /\ r \notin running \cup computing
    /\ ~Busy
    /\ active' = active + 1
    /\ running' = running \cup {r}
    /\ computing' = computing \cup {r}
    /\ age' = [age EXCEPT ![r] = 0]
    /\ UNCHANGED <<closedFor, advised, advice, closedAge>>

\* Variant: a rejection starts the cooldown again.
RejectRenews(r) ==
    /\ r \notin running \cup computing
    /\ Busy
    /\ closedFor' = CooldownMs
    /\ advised' = advised \cup {r}
    /\ advice' = [advice EXCEPT ![r] = SecondMs * CeilSeconds(CooldownMs)]
    /\ UNCHANGED <<active, running, computing, age, closedAge>>

\* The call is turned away with a 503 and a Retry-After.
Reject(r) ==
    /\ r \notin running \cup computing
    /\ Busy
    /\ advised' = advised \cup {r}
    /\ advice' = [advice EXCEPT ![r] = SecondMs * AtLeastOne(CeilSeconds(closedFor))]
    /\ UNCHANGED <<active, closedFor, running, computing, age, closedAge>>

\* Variant: no finally, the slot of an answered call is lost.
AnswerKeepsSlot(r) ==
    /\ r \in running \ computing
    /\ running' = running \ {r}
    /\ UNCHANGED <<active, closedFor, computing, age, advised, advice, closedAge>>

\* OSRM has computed and its answer is good, or is a verdict that maps to 4xx.
Answer(r) ==
    /\ r \in running \ computing
    /\ active' = active - 1
    /\ running' = running \ {r}
    /\ UNCHANGED <<closedFor, computing, age, advised, advice, closedAge>>

\* Variant: catch and finally both give the slot back.
FailReleasesTwice(r) ==
    /\ r \in running
    /\ active' = active - 2
    /\ running' = running \ {r}
    /\ Close(r)
    /\ UNCHANGED <<computing, age>>

\* The fetch fails, or the answer is unreadable or not one the code maps to 4xx.
Fail(r) ==
    /\ r \in running
    /\ active' = active - 1
    /\ running' = running \ {r}
    /\ Close(r)
    /\ UNCHANGED <<computing, age>>

\* Variant: fetch without a signal.
NoAbort(r) == r \in {} /\ Fail(r)

\* AbortSignal.timeout fires.  OSRM keeps computing.
Abort(r) ==
    /\ age[r] = TimeoutMs
    /\ Fail(r)

\* OSRM is done with the request of r, whether or not anyone still waits.
Finish(r) ==
    /\ r \in computing
    /\ computing' = computing \ {r}
    /\ UNCHANGED <<active, closedFor, running, age, advised, advice, closedAge>>

\* A millisecond passes; deadlines that are due are met first.
Tick ==
    /\ \A r \in running : age[r] < TimeoutMs
    /\ \A r \in computing : age[r] < ComputeMs
    /\ closedFor' = CountDown(closedFor)
    /\ age' = [r \in Requests |-> IF r \in running \cup computing THEN age[r] + 1 ELSE 0]
    /\ advice' = [r \in Requests |-> CountDown(advice[r])]
    /\ closedAge' = IF closedFor > 1 THEN Older(closedAge) ELSE 0
    /\ UNCHANGED <<active, running, computing, advised>>

Next ==
    \/ \E r \in Requests :
          \/ Admit(r)
          \/ Reject(r)
          \/ Answer(r)
          \/ Fail(r)
          \/ Abort(r)
          \/ Finish(r)
    \/ Tick

\* Time passes, the abort timer of a fetch fires, and OSRM ends what it began.
Fairness ==
    /\ WF_vars(Tick)
    /\ \A r \in Requests : WF_vars(Abort(r)) /\ WF_vars(Finish(r))

Spec == Init /\ [][Next]_vars

FairSpec == Spec /\ Fairness

-----------------------------------------------------------------------------
(* Properties *)

\* The counter run() compares with its limit is the number of calls in flight
\* on every path out of run(), so no failure leaks a slot and none is given
\* back twice, and the limit is kept.
ActiveIsExact ==
    /\ active = Cardinality(running)
    /\ active <= Concurrency

\* "A fetch timeout does not stop OSRM's computation.  Stop admitting new work
\* for a while so retries cannot immediately fill every worker again."  The
\* cooldown does this for computations shorter than itself: OSRM never works
\* for more than Concurrency calls, the abandoned ones included.
OsrmLoadBounded ==
    ComputeMs < CooldownMs => Cardinality(running \cup computing) <= Concurrency

\* Calls admitted before a failure may fail after it and extend the cooldown,
\* but not for ever: the gate is closed without a break for no longer than a
\* fetch may last plus one cooldown, whatever the callers who retry do.
ClosureBounded ==
    closedFor > 0 => closedAge + closedFor <= ClosureBound

\* A caller who waits out the Retry-After it was told is not turned away by
\* the cooldown it was told about: the rounding never promises too early.
AdviceCoversCooldown ==
    \A r \in advised : closedFor <= advice[r]

\* Every admitted call is answered, also when OSRM never answers.
EveryCallAnswered ==
    \A r \in Requests : (r \in running) ~> (r \notin running)

\* A closed gate opens again, whatever the callers do meanwhile.
GateReopens == (closedFor > 0) ~> (closedFor = 0)

\* The gate is a bulkhead for the calls in flight.
Slots == INSTANCE Bulkhead WITH Callers <- Requests, Limit <- Concurrency, holders <- running
SlotsSpec == Slots!Spec

\* With a cooldown longer than any computation it is one for OSRM as well: an
\* abandoned computation keeps its place until OSRM is done with it, and a call
\* comes in only if there is a place beside those.
Load == INSTANCE Bulkhead WITH Callers <- Requests, Limit <- Concurrency,
                               holders <- running \cup computing
LoadSpec == Load!Spec

=============================================================================
