------------------------- MODULE UpstreamGateProofs -------------------------
(***************************************************************************)
(* Proofs of the safety properties of UpstreamGate, for every set of calls *)
(* and every setting of the limits.                                        *)
(***************************************************************************)
EXTENDS UpstreamGate, FiniteSetTheorems, TLAPS

\* No computation outlives ComputeMs, and what is left of one that was
\* abandoned ends before the gate opens.
AbandonedEndsInTime ==
    ComputeMs < CooldownMs =>
        /\ \A r \in computing : age[r] <= ComputeMs
        /\ \A r \in computing \ running : closedFor + age[r] > ComputeMs

\* No fetch outlives its deadline, and none in flight is younger than the
\* closure, because a closed gate admits nobody.
RunningPredatesClosure ==
    /\ \A r \in running : age[r] <= TimeoutMs
    /\ closedFor > 0 => \A r \in running : closedAge <= age[r]

IInv ==
    /\ TypeOK
    /\ ActiveIsExact
    /\ AbandonedEndsInTime
    /\ OsrmLoadBounded
    /\ RunningPredatesClosure
    /\ ClosureBounded
    /\ AdviceCoversCooldown

-----------------------------------------------------------------------------
(* Arithmetic of the helpers *)

\* Rounding up to whole seconds never loses any of the time left.
LEMMA CeilCovers ==
    ASSUME NEW ms \in Nat
    PROVE  /\ CeilSeconds(ms) \in Nat
           /\ SecondMs * CeilSeconds(ms) \in Nat
           /\ ms <= SecondMs * CeilSeconds(ms)
  BY SettingsAssumption DEF CeilSeconds

\* Sets of calls are finite, and admission and completion change their sizes by
\* one at most.
LEMMA CallSets ==
    ASSUME NEW S \in SUBSET Requests, NEW r \in Requests
    PROVE  /\ Cardinality(S) \in Nat
           /\ r \notin S => Cardinality(S \cup {r}) = Cardinality(S) + 1
           /\ r \in S => Cardinality(S \ {r}) = Cardinality(S) - 1
           /\ \A T \in SUBSET S : Cardinality(T) <= Cardinality(S)
  <1>1. IsFiniteSet(S)
    BY RequestsAssumption, FS_Subset
  <1>2. Cardinality(S) \in Nat
    BY <1>1, FS_CardinalityType
  <1>3. r \notin S => Cardinality(S \cup {r}) = Cardinality(S) + 1
    BY <1>1, FS_AddElement
  <1>4. r \in S => Cardinality(S \ {r}) = Cardinality(S) - 1
    BY <1>1, FS_RemoveElement
  <1>5. \A T \in SUBSET S : Cardinality(T) <= Cardinality(S)
    BY <1>1, FS_Subset
  <1> QED
    BY <1>2, <1>3, <1>4, <1>5

-----------------------------------------------------------------------------
(* The invariant *)

\* An idle, open gate satisfies the invariant.
LEMMA InitInv == Init => IInv
  <1> SUFFICES ASSUME Init PROVE IInv
    OBVIOUS
  <1> USE DEF Init
  <1>1. TypeOK
    BY SettingsAssumption DEF TypeOK
  <1>2. Cardinality({}) = 0
    BY FS_EmptySet
  <1>3. ActiveIsExact
    BY <1>2, SettingsAssumption DEF ActiveIsExact
  <1>4. running \cup computing = {}
    OBVIOUS
  <1>5. OsrmLoadBounded
    BY <1>2, <1>4, SettingsAssumption DEF OsrmLoadBounded
  <1>6. AbandonedEndsInTime /\ RunningPredatesClosure
    BY DEF AbandonedEndsInTime, RunningPredatesClosure
  <1>7. ClosureBounded /\ AdviceCoversCooldown
    BY DEF ClosureBounded, AdviceCoversCooldown
  <1> QED
    BY <1>1, <1>3, <1>5, <1>6, <1>7 DEF IInv

\* Admission takes a free slot of an open gate.
LEMMA AdmitInv ==
    ASSUME IInv, NEW r \in Requests, Admit(r)
    PROVE  IInv'
  <1> USE SettingsAssumption DEF IInv, TypeOK, Admit, Busy
  <1>1. closedFor = 0 /\ closedFor' = 0 /\ active < Concurrency
    BY DEF ActiveIsExact
  <1>2. TypeOK'
    OBVIOUS
  <1>3. ActiveIsExact'
    <2>1. Cardinality(running \cup {r}) = Cardinality(running) + 1
      BY CallSets
    <2> QED
      BY <1>1, <2>1 DEF ActiveIsExact
  <1>4. AbandonedEndsInTime'
    BY <1>1 DEF AbandonedEndsInTime
  <1>5. OsrmLoadBounded'
    <2> SUFFICES ASSUME ComputeMs < CooldownMs
                 PROVE  Cardinality((running \cup computing)') <= Concurrency
      BY DEF OsrmLoadBounded
    <2>1. computing \subseteq running
      BY <1>1 DEF AbandonedEndsInTime
    <2>2. (running \cup computing)' = running'
      BY <2>1
    <2> QED
      BY <2>2, <1>3 DEF ActiveIsExact
  <1>6. RunningPredatesClosure'
    BY <1>1 DEF RunningPredatesClosure
  <1>7. ClosureBounded' /\ AdviceCoversCooldown'
    BY <1>1 DEF ClosureBounded, AdviceCoversCooldown
  <1> QED
    BY <1>2, <1>3, <1>4, <1>5, <1>6, <1>7

\* A rejection changes nothing but what the caller was told.
LEMMA RejectInv ==
    ASSUME IInv, NEW r \in Requests, Reject(r)
    PROVE  IInv'
  <1> USE SettingsAssumption DEF IInv, TypeOK, Reject
  <1> DEFINE told == SecondMs * AtLeastOne(CeilSeconds(closedFor))
  <1>1. told \in Nat /\ closedFor <= told
    <2>1. /\ CeilSeconds(closedFor) \in Nat
          /\ SecondMs * CeilSeconds(closedFor) \in Nat
          /\ closedFor <= SecondMs * CeilSeconds(closedFor)
      BY CeilCovers
    <2>2. CASE CeilSeconds(closedFor) = 0
      BY <2>1, <2>2 DEF AtLeastOne
    <2>3. CASE CeilSeconds(closedFor) # 0
      BY <2>1, <2>3 DEF AtLeastOne
    <2> QED
      BY <2>2, <2>3
  <1> HIDE DEF told
  <1>2. advice' = [advice EXCEPT ![r] = told]
    BY DEF told
  <1>3. TypeOK'
    BY <1>1, <1>2
  <1>4. AdviceCoversCooldown'
    BY <1>1, <1>2 DEF AdviceCoversCooldown
  <1>5. ActiveIsExact' /\ OsrmLoadBounded' /\ ClosureBounded'
    BY DEF ActiveIsExact, OsrmLoadBounded, ClosureBounded
  <1>6. AbandonedEndsInTime' /\ RunningPredatesClosure'
    BY DEF AbandonedEndsInTime, RunningPredatesClosure
  <1> QED
    BY <1>3, <1>4, <1>5, <1>6

\* A good answer gives the slot back.
LEMMA AnswerInv ==
    ASSUME IInv, NEW r \in Requests, Answer(r)
    PROVE  IInv'
  <1> USE SettingsAssumption DEF IInv, TypeOK, Answer
  <1>1. ActiveIsExact' /\ active' \in Nat
    <2>1. /\ Cardinality(running \ {r}) = Cardinality(running) - 1
          /\ Cardinality(running \ {r}) \in Nat
      BY CallSets
    <2> QED
      BY <2>1 DEF ActiveIsExact
  <1>2. TypeOK'
    BY <1>1
  <1>3. OsrmLoadBounded'
    <2>1. (running \cup computing)' \in SUBSET (running \cup computing)
      OBVIOUS
    <2>2. /\ Cardinality((running \cup computing)') \in Nat
          /\ Cardinality(running \cup computing) \in Nat
          /\ Cardinality((running \cup computing)') <= Cardinality(running \cup computing)
      BY <2>1, CallSets
    <2> QED
      BY <2>2 DEF OsrmLoadBounded
  <1>4. AbandonedEndsInTime' /\ RunningPredatesClosure'
    BY DEF AbandonedEndsInTime, RunningPredatesClosure
  <1>5. ClosureBounded' /\ AdviceCoversCooldown'
    BY DEF ClosureBounded, AdviceCoversCooldown
  <1> QED
    BY <1>1, <1>2, <1>3, <1>4, <1>5

\* A failure gives the slot back and starts a cooldown, which is longer than
\* anything OSRM computes for the calls in flight.
LEMMA FailInv ==
    ASSUME IInv, NEW r \in Requests, Fail(r)
    PROVE  IInv'
  <1> USE SettingsAssumption DEF IInv, TypeOK, Fail, Close
  <1>1. ActiveIsExact' /\ active' \in Nat
    <2>1. /\ Cardinality(running \ {r}) = Cardinality(running) - 1
          /\ Cardinality(running \ {r}) \in Nat
      BY CallSets
    <2> QED
      BY <2>1 DEF ActiveIsExact
  <1>2. /\ SecondMs * CeilSeconds(CooldownMs) \in Nat
        /\ CooldownMs <= SecondMs * CeilSeconds(CooldownMs)
    BY CeilCovers
  <1>3. TypeOK'
    BY <1>1, <1>2
  <1>4. OsrmLoadBounded'
    <2>1. (running \cup computing)' \in SUBSET (running \cup computing)
      OBVIOUS
    <2>2. /\ Cardinality((running \cup computing)') \in Nat
          /\ Cardinality(running \cup computing) \in Nat
          /\ Cardinality((running \cup computing)') <= Cardinality(running \cup computing)
      BY <2>1, CallSets
    <2> QED
      BY <2>2 DEF OsrmLoadBounded
  <1>5. AbandonedEndsInTime'
    BY DEF AbandonedEndsInTime
  <1>6. RunningPredatesClosure'
    BY DEF RunningPredatesClosure
  <1>7. ClosureBounded'
    BY DEF ClosureBounded, ClosureBound, RunningPredatesClosure
  <1>8. AdviceCoversCooldown'
    BY <1>2 DEF AdviceCoversCooldown
  <1> QED
    BY <1>1, <1>3, <1>4, <1>5, <1>6, <1>7, <1>8

\* OSRM's load shrinks when it finishes.
LEMMA FinishInv ==
    ASSUME IInv, NEW r \in Requests, Finish(r)
    PROVE  IInv'
  <1> USE SettingsAssumption DEF IInv, TypeOK, Finish
  <1>1. TypeOK' /\ ActiveIsExact'
    BY DEF ActiveIsExact
  <1>2. OsrmLoadBounded'
    <2>1. (running \cup computing)' \in SUBSET (running \cup computing)
      OBVIOUS
    <2>2. /\ Cardinality((running \cup computing)') \in Nat
          /\ Cardinality(running \cup computing) \in Nat
          /\ Cardinality((running \cup computing)') <= Cardinality(running \cup computing)
      BY <2>1, CallSets
    <2> QED
      BY <2>2 DEF OsrmLoadBounded
  <1>3. AbandonedEndsInTime' /\ RunningPredatesClosure'
    BY DEF AbandonedEndsInTime, RunningPredatesClosure
  <1>4. ClosureBounded' /\ AdviceCoversCooldown'
    BY DEF ClosureBounded, AdviceCoversCooldown
  <1> QED
    BY <1>1, <1>2, <1>3, <1>4

\* While the gate stays closed every call in flight ages as the closure does,
\* and every abandoned computation as the cooldown runs down.
LEMMA TickInv ==
    ASSUME IInv, Tick
    PROVE  IInv'
  <1> USE SettingsAssumption DEF IInv, TypeOK, Tick, CountDown, ClosureBound, Older
  <1>1. TypeOK'
    OBVIOUS
  <1>2. ActiveIsExact' /\ OsrmLoadBounded'
    BY DEF ActiveIsExact, OsrmLoadBounded
  <1>3. AbandonedEndsInTime'
    BY DEF AbandonedEndsInTime
  <1>4. RunningPredatesClosure'
    BY DEF RunningPredatesClosure
  <1>5. ClosureBounded'
    BY DEF ClosureBounded
  <1>6. AdviceCoversCooldown'
    BY DEF AdviceCoversCooldown
  <1> QED
    BY <1>1, <1>2, <1>3, <1>4, <1>5, <1>6

\* Every step of a caller, of OSRM or of the clock keeps the invariant.
LEMMA NextInv == IInv /\ [Next]_vars => IInv'
  <1> SUFFICES ASSUME IInv, [Next]_vars PROVE IInv'
    OBVIOUS
  <1>1. ASSUME NEW r \in Requests, Admit(r) PROVE IInv'
    BY <1>1, AdmitInv
  <1>2. ASSUME NEW r \in Requests, Reject(r) PROVE IInv'
    BY <1>2, RejectInv
  <1>3. ASSUME NEW r \in Requests, Answer(r) PROVE IInv'
    BY <1>3, AnswerInv
  <1>4. ASSUME NEW r \in Requests, Fail(r) PROVE IInv'
    BY <1>4, FailInv
  <1>5. ASSUME NEW r \in Requests, Abort(r) PROVE IInv'
    BY <1>5, FailInv DEF Abort
  <1>6. ASSUME NEW r \in Requests, Finish(r) PROVE IInv'
    BY <1>6, FinishInv
  <1>7. CASE Tick
    BY <1>7, TickInv
  <1>8. CASE UNCHANGED vars
    BY <1>8 DEF vars, IInv, TypeOK, ActiveIsExact, AbandonedEndsInTime,
                OsrmLoadBounded, RunningPredatesClosure, ClosureBounded,
                AdviceCoversCooldown
  <1> QED
    BY <1>1, <1>2, <1>3, <1>4, <1>5, <1>6, <1>7, <1>8 DEF Next

\* The invariant holds in every reachable state of the gate.
LEMMA Invariance == Spec => []IInv
  BY InitInv, NextInv, PTL DEF Spec

-----------------------------------------------------------------------------
(* The theorems *)

\* The counters and timers of upstreamGate.js stay natural numbers: in
\* particular active never goes below 0 and the block never exceeds one cooldown.
THEOREM TypeCorrect == Spec => []TypeOK
  <1>1. IInv => TypeOK
    BY DEF IInv
  <1> QED
    BY <1>1, Invariance, PTL

\* run() never leaks a slot, never gives one back twice, and keeps its limit.
THEOREM SlotsAreExact == Spec => []ActiveIsExact
  <1>1. IInv => ActiveIsExact
    BY DEF IInv
  <1> QED
    BY <1>1, Invariance, PTL

\* A cooldown longer than the longest computation keeps OSRM within the limit,
\* abandoned computations included.
THEOREM LoadIsBounded == Spec => []OsrmLoadBounded
  <1>1. IInv => OsrmLoadBounded
    BY DEF IInv
  <1> QED
    BY <1>1, Invariance, PTL

\* The gate is never closed for longer than a fetch deadline and one cooldown.
THEOREM ClosureIsBounded == Spec => []ClosureBounded
  <1>1. IInv => ClosureBounded
    BY DEF IInv
  <1> QED
    BY <1>1, Invariance, PTL

\* The Retry-After a caller was told is never shorter than the cooldown.
THEOREM AdviceIsHonest == Spec => []AdviceCoversCooldown
  <1>1. IInv => AdviceCoversCooldown
    BY DEF IInv
  <1> QED
    BY <1>1, Invariance, PTL

-----------------------------------------------------------------------------
(* The gate as a bulkhead *)

\* Both bulkheads count as the gate does.
LEMMA SameCount ==
    ASSUME NEW S
    PROVE  Slots!Cardinality(S) = Cardinality(S) /\ Load!Cardinality(S) = Cardinality(S)
  BY DEF Slots!Cardinality, Load!Cardinality, Cardinality

\* Each step is an Enter, a Leave or a stutter for the calls in flight.
LEMMA StepOfSlots ==
    ASSUME IInv, [Next]_vars
    PROVE  [Slots!Next]_running
  <1>1. ASSUME NEW r \in Requests, Admit(r) PROVE Slots!Next
    <2>1. Cardinality(running) < Concurrency
      BY <1>1, SettingsAssumption DEF Admit, Busy, IInv, ActiveIsExact, TypeOK
    <2>2. Slots!Enter(r)
      BY <1>1, <2>1, SameCount DEF Admit, Slots!Enter
    <2> QED
      BY <2>2 DEF Slots!Next
  <1>2. ASSUME NEW r \in Requests, Answer(r) \/ Fail(r) \/ Abort(r) PROVE Slots!Next
    <2>1. Slots!Leave(r)
      BY <1>2 DEF Answer, Abort, Fail, Slots!Leave
    <2> QED
      BY <2>1 DEF Slots!Next
  <1>3. ASSUME NEW r \in Requests, Reject(r) \/ Finish(r) PROVE UNCHANGED running
    BY <1>3 DEF Reject, Finish
  <1>4. CASE Tick \/ UNCHANGED vars
    BY <1>4 DEF Tick, vars
  <1> QED
    BY <1>1, <1>2, <1>3, <1>4 DEF Next

\* For what OSRM works on, a call that ends keeps its place while it computes;
\* and when the gate is open no such computation is left.
LEMMA StepOfLoad ==
    ASSUME IInv, [Next]_vars, ComputeMs < CooldownMs
    PROVE  [Load!Next]_(running \cup computing)
  <1> DEFINE load == running \cup computing
  <1>1. ASSUME NEW r \in Requests, Admit(r) PROVE Load!Next
    <2>1. closedFor = 0 /\ active < Concurrency
      BY <1>1, SettingsAssumption DEF Admit, Busy, IInv, TypeOK, ActiveIsExact
    <2>2. computing \subseteq running
      BY <2>1, SettingsAssumption DEF IInv, TypeOK, AbandonedEndsInTime
    <2>3. load = running /\ Cardinality(load) < Concurrency
      BY <2>1, <2>2 DEF IInv, ActiveIsExact
    <2>4. Load!Enter(r)
      BY <1>1, <2>3, SameCount DEF Admit, Load!Enter
    <2> QED
      BY <2>4 DEF Load!Next
  <1>2. ASSUME NEW r \in Requests, Answer(r) \/ Fail(r) \/ Abort(r) \/ Finish(r)
        PROVE  Load!Next \/ UNCHANGED load
    <2>1. CASE r \in load'
      <3>1. load' = load
        BY <1>2, <2>1 DEF Answer, Abort, Fail, Finish
      <3> QED
        BY <3>1
    <2>2. CASE r \notin load'
      <3>1. Load!Leave(r)
        BY <1>2, <2>2 DEF Answer, Abort, Fail, Finish, Load!Leave
      <3> QED
        BY <3>1 DEF Load!Next
    <2> QED
      BY <2>1, <2>2
  <1>3. ASSUME NEW r \in Requests, Reject(r) PROVE UNCHANGED load
    BY <1>3 DEF Reject
  <1>4. CASE Tick \/ UNCHANGED vars
    BY <1>4 DEF Tick, vars
  <1> QED
    BY <1>1, <1>2, <1>3, <1>4 DEF Next

\* run() is a bulkhead of Concurrency places for the calls in flight.
THEOREM ImplementsSlots == Spec => SlotsSpec
  <1>1. Init => Slots!Init
    BY DEF Init, Slots!Init
  <1>2. IInv /\ [Next]_vars => [Slots!Next]_running
    BY StepOfSlots
  <1> QED
    BY <1>1, <1>2, Invariance, PTL DEF Spec, SlotsSpec, Slots!Spec

\* A cooldown longer than any computation makes it one for what OSRM works on:
\* OSRM never has work beyond its places to admit a call to, and none is
\* admitted by a gate that opens too early.
THEOREM ImplementsLoad ==
    ASSUME ComputeMs < CooldownMs
    PROVE  Spec => LoadSpec
  <1>1. Init => Load!Init
    BY DEF Init, Load!Init
  <1>2. IInv /\ [Next]_vars => [Load!Next]_(running \cup computing)
    BY StepOfLoad
  <1> QED
    BY <1>1, <1>2, Invariance, PTL DEF Spec, LoadSpec, Load!Spec

=============================================================================
