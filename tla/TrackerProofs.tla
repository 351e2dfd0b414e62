--------------------------- MODULE TrackerProofs ---------------------------
(***************************************************************************)
(* The trackers that are a table under a lock, for any numbers of callers, *)
(* providers, keys and runs, and any thresholds, rates, limits and caps:   *)
(*                                                                         *)
(*   CircuitBreaker  trips exactly on a full streak and probes once per    *)
(*                   cycle, no sooner than its timeout allows;             *)
(*   RateLimiter     gives a key no more than its burst and what flows in, *)
(*                   nor later than it promised;                           *)
(*   FrontDoor       the limiter before the conversations it admits: they  *)
(*                   reach every provider in a form it accepts, and are    *)
(*                   compressed to fit;                                    *)
(*   RunBudget       keeps the limits of a run in steps and in cost, keeps *)
(*                   its cap, and forgets no run that is polled.           *)
(***************************************************************************)
EXTENDS CircuitBreaker, FrontDoor, RunBudget, DataLemmas, SequenceTheorems

-----------------------------------------------------------------------------
(* The circuit breaker.                                                    *)
BreakerInv == BreakerTypeOK /\ CycleInv

USE DEF history

(* What the inductive invariant says of one provider is decided by its     *)
(* record and its history alone, so each action is handled per provider.   *)
ProviderOK(e, s, a, t) ==
    /\ e \in Circuit
    /\ s \in 0..FailureThreshold
    /\ a \in Nat
    /\ t \in 0..RecoveryTimeout
    /\ e.state = "closed" => /\ e.failures < FailureThreshold
                             /\ e.failures = s
                             /\ ~e.probeInFlight
                             /\ a = 0
    /\ e.state # "closed" => s = FailureThreshold
    /\ e.state = "open" => /\ ~e.probeInFlight
                           /\ a = 0
                           /\ e.age <= t
    /\ e.state = "half-open" => /\ e.probeInFlight
                                /\ a = 1

(* A provider nothing is known of satisfies it.                            *)
LEMMA ClosedOK ==
    ASSUME NEW t \in 0..RecoveryTimeout
    PROVE  ProviderOK(ClosedCircuit, 0, 0, t)
<1>1. ClosedCircuit \in Circuit
  BY ThresholdAssumption, TimeoutAssumption DEF ClosedCircuit, Circuit, States
<1>2. 0 \in 0..FailureThreshold /\ 0 < FailureThreshold
  BY ThresholdAssumption
<1>3. ClosedCircuit.state = "closed" /\ ClosedCircuit.failures = 0 /\ ~ClosedCircuit.probeInFlight
  BY DEF ClosedCircuit
<1> QED  BY <1>1, <1>2, <1>3 DEF ProviderOK

(* A question answered yes: a due probe is counted, and only a due probe   *)
(* moves the record.                                                       *)
LEMMA QueryOK ==
    ASSUME NEW e, NEW s, NEW a, NEW t, ProviderOK(e, s, a, t)
    PROVE  /\ IsAvailable(e) /\ e.state # "closed" => ProviderOK(AfterQuery(e), s, a + 1, 0)
           /\ ~(IsAvailable(e) /\ e.state # "closed") => ProviderOK(AfterQuery(e), s, a, t)
<1>1. e.state \in States /\ e.probeInFlight \in BOOLEAN
  BY DEF ProviderOK, Circuit
<1>2. CASE ProbeDue(e)
  <2>1. /\ AfterQuery(e) \in Circuit
        /\ AfterQuery(e).state = "half-open"
        /\ AfterQuery(e).probeInFlight = TRUE
    BY <1>2 DEF ProviderOK, AfterQuery, Circuit, States
  <2>2. a = 0 /\ s = FailureThreshold /\ IsAvailable(e) /\ e.state # "closed"
    BY <1>2 DEF ProviderOK, ProbeDue, IsAvailable
  <2>3. 0 \in 0..RecoveryTimeout /\ a + 1 = 1
    BY <2>2, TimeoutAssumption
  <2> QED  BY <2>1, <2>2, <2>3 DEF ProviderOK
<1>3. CASE ~ProbeDue(e)
  <2>1. AfterQuery(e) = e
    BY <1>3 DEF AfterQuery
  <2>2. ~(IsAvailable(e) /\ e.state # "closed")
    BY <1>3 DEF IsAvailable, ProviderOK
  <2> QED  BY <2>1, <2>2
<1> QED  BY <1>2, <1>3

(* A reported failure, with the history kept as RecordFailure keeps it.    *)
LEMMA FailureOK ==
    ASSUME NEW e, NEW s, NEW a, NEW t, ProviderOK(e, s, a, t)
    PROVE  ProviderOK(AfterFailure(e), CountTo(FailureThreshold, s),
                      IF e.state # "open" /\ AfterFailure(e).state = "open" THEN 0 ELSE a, t)
<1> DEFINE failures == CountTo(FailureThreshold, e.failures)
<1>1. /\ e.state \in States /\ e.failures \in 0..FailureThreshold
      /\ failures \in 0..FailureThreshold
  BY ThresholdAssumption DEF ProviderOK, Circuit, CountTo
<1>2. CASE e.state = "half-open"
  <2>1. AfterFailure(e) = [state |-> "open", failures |-> failures,
                           age |-> 0, probeInFlight |-> FALSE]
    BY <1>2 DEF AfterFailure
  <2>2. AfterFailure(e) \in Circuit
    BY <2>1, <1>1, TimeoutAssumption DEF Circuit, States
  <2>3. CountTo(FailureThreshold, s) = FailureThreshold
    BY <1>2, ThresholdAssumption DEF ProviderOK, CountTo
  <2> QED  BY <2>1, <2>2, <2>3, <1>2, ThresholdAssumption DEF ProviderOK
<1>3. CASE e.state = "closed" /\ failures >= FailureThreshold
  <2>1. AfterFailure(e) = [e EXCEPT !.state = "open", !.age = 0, !.failures = failures]
    BY <1>3 DEF AfterFailure
  <2>2. /\ AfterFailure(e) \in Circuit
        /\ AfterFailure(e).state = "open"
        /\ AfterFailure(e).age = 0
        /\ ~AfterFailure(e).probeInFlight
    <3>1. e \in Circuit /\ e.probeInFlight = FALSE
      BY <1>3 DEF ProviderOK, Circuit
    <3>2. failures \in 0..FailureThreshold /\ 0 \in 0..RecoveryTimeout
      BY <1>1, TimeoutAssumption
    <3> HIDE DEF failures
    <3> QED  BY <2>1, <3>1, <3>2 DEF Circuit, States
  <2>3. CountTo(FailureThreshold, s) = FailureThreshold
    BY <1>3, ThresholdAssumption DEF ProviderOK, CountTo
  <2> QED  BY <2>2, <2>3, <1>3, ThresholdAssumption DEF ProviderOK
<1>4. CASE e.state # "half-open" /\ ~(e.state = "closed" /\ failures >= FailureThreshold)
  <2>1. AfterFailure(e) = [e EXCEPT !.failures = failures]
    BY <1>4 DEF AfterFailure
  <2>2. /\ AfterFailure(e) \in Circuit
        /\ AfterFailure(e).state = e.state
        /\ AfterFailure(e).failures = failures
        /\ AfterFailure(e).age = e.age
        /\ AfterFailure(e).probeInFlight = e.probeInFlight
    BY <2>1, <1>1 DEF Circuit, ProviderOK
  <2>3. e.state = "closed" => failures < FailureThreshold /\ CountTo(FailureThreshold, s) = failures
    BY <1>1, <1>4, ThresholdAssumption DEF ProviderOK, CountTo
  <2>4. e.state = "open" => CountTo(FailureThreshold, s) = FailureThreshold
    BY ThresholdAssumption DEF ProviderOK, CountTo
  <2>5. CountTo(FailureThreshold, s) \in 0..FailureThreshold
    BY ThresholdAssumption DEF ProviderOK, CountTo
  <2>6. e.state \in {"open", "closed"}
    BY <1>1, <1>4 DEF States
  <2> HIDE DEF failures
  <2> QED  BY <2>2, <2>3, <2>4, <2>5, <2>6 DEF ProviderOK
<1> QED  BY <1>2, <1>3, <1>4

(* A tick ages an open circuit no faster than the time since its probe.    *)
LEMMA CircuitAges ==
    ASSUME NEW e, NEW s, NEW a, NEW t, ProviderOK(e, s, a, t)
    PROVE  ProviderOK(IF e.state = "open"
                      THEN [e EXCEPT !.age = CountTo(RecoveryTimeout, @)] ELSE e,
                      s, a, CountTo(RecoveryTimeout, t))
  BY ThresholdAssumption, TimeoutAssumption
     DEF ProviderOK, CountTo, Circuit, States

-----------------------------------------------------------------------------
(* The invariant is kept by every step of the breaker.                     *)
LEMMA BreakerInductive == BreakerInv /\ [BreakerNext]_breaker => BreakerInv'
<1> SUFFICES ASSUME BreakerInv, [BreakerNext]_breaker PROVE BreakerInv'
  OBVIOUS
<1> USE NobodyAssumption
<1> DEFINE OK(p) == ProviderOK(entry[p], streak[p], admitted[p], sinceProbe[p])
<1>1. \A p \in Providers : OK(p)
  BY DEF BreakerInv, BreakerTypeOK, CycleInv, ProviderOK
<1>2. /\ entry \in [Providers -> Circuit]
      /\ streak \in [Providers -> 0..FailureThreshold]
      /\ admitted \in [Providers -> Nat]
      /\ sinceProbe \in [Providers -> 0..RecoveryTimeout]
      /\ calling \in [Requests -> Providers \cup {Nobody}]
      /\ prober \in [Providers -> Requests \cup {Nobody}]
  BY DEF BreakerInv, BreakerTypeOK
<1>3. SUFFICES /\ entry' = [p \in Providers |-> entry'[p]]
               /\ streak' = [p \in Providers |-> streak'[p]]
               /\ admitted' = [p \in Providers |-> admitted'[p]]
               /\ sinceProbe' = [p \in Providers |-> sinceProbe'[p]]
               /\ calling' \in [Requests -> Providers \cup {Nobody}]
               /\ prober' \in [Providers -> Requests \cup {Nobody}]
               /\ \A p \in Providers : OK(p)'
  BY DEF BreakerInv, BreakerTypeOK, CycleInv, ProviderOK
<1>4. ASSUME NEW c \in Requests, NEW asked \in SUBSET Providers, NEW p \in Providers,
             Route(c, asked, p)
      PROVE  <1>3!1
  <2>1. \A q \in Providers : OK(q)'
    <3> SUFFICES ASSUME NEW q \in Providers PROVE OK(q)'
      OBVIOUS
    <3>1. CASE q \in asked /\ IsAvailable(entry[q]) /\ entry[q].state # "closed"
      <4>1. /\ entry'[q] = AfterQuery(entry[q]) /\ streak'[q] = streak[q]
            /\ admitted'[q] = admitted[q] + 1 /\ sinceProbe'[q] = 0
        BY <1>4, <3>1 DEF Route
      <4> QED  BY <4>1, <3>1, <1>1, QueryOK
    <3>2. CASE q \in asked /\ ~(IsAvailable(entry[q]) /\ entry[q].state # "closed")
      <4>1. /\ entry'[q] = AfterQuery(entry[q]) /\ streak'[q] = streak[q]
            /\ admitted'[q] = admitted[q] /\ sinceProbe'[q] = sinceProbe[q]
        BY <1>4, <3>2 DEF Route
      <4> QED  BY <4>1, <3>2, <1>1, QueryOK
    <3>3. CASE q \notin asked
      <4>1. /\ entry'[q] = entry[q] /\ streak'[q] = streak[q]
            /\ admitted'[q] = admitted[q] /\ sinceProbe'[q] = sinceProbe[q]
        BY <1>4, <3>3 DEF Route
      <4> QED  BY <4>1, <1>1
    <3> QED  BY <3>1, <3>2, <3>3
  <2> QED  BY <2>1, <1>2, <1>4 DEF Route
<1>5. ASSUME NEW c \in Requests, NEW p \in Providers, Bypass(c, p)
      PROVE  <1>3!1
  BY <1>1, <1>2, <1>5 DEF Bypass
<1>6. ASSUME NEW c \in Requests, RecordSuccess(c)
      PROVE  <1>3!1
  <2>1. calling[c] \in Providers
    BY <1>2, <1>6 DEF RecordSuccess
  <2>2. \A q \in Providers : OK(q)'
    <3> SUFFICES ASSUME NEW q \in Providers PROVE OK(q)'
      OBVIOUS
    <3>1. CASE q = calling[c]
      <4>1. /\ entry'[q] = ClosedCircuit /\ streak'[q] = 0
            /\ admitted'[q] = 0 /\ sinceProbe'[q] = sinceProbe[q]
        BY <1>2, <1>6, <3>1 DEF RecordSuccess, AfterSuccess
      <4> QED  BY <4>1, <1>2, ClosedOK
    <3>2. CASE q # calling[c]
      <4>1. /\ entry'[q] = entry[q] /\ streak'[q] = streak[q]
            /\ admitted'[q] = admitted[q] /\ sinceProbe'[q] = sinceProbe[q]
        BY <1>2, <1>6, <3>2 DEF RecordSuccess
      <4> QED  BY <4>1, <1>1
    <3> QED  BY <3>1, <3>2
  <2> QED  BY <2>2, <1>2, <1>6 DEF RecordSuccess
<1>7. ASSUME NEW c \in Requests, RecordFailure(c)
      PROVE  <1>3!1
  <2>1. calling[c] \in Providers
    BY <1>2, <1>7 DEF RecordFailure
  <2>2. \A q \in Providers : OK(q)'
    <3> SUFFICES ASSUME NEW q \in Providers PROVE OK(q)'
      OBVIOUS
    <3>1. CASE q = calling[c]
      <4>1. /\ entry'[q] = AfterFailure(entry[q])
            /\ streak'[q] = CountTo(FailureThreshold, streak[q])
            /\ admitted'[q] = IF entry[q].state # "open" /\ AfterFailure(entry[q]).state = "open"
                              THEN 0 ELSE admitted[q]
            /\ sinceProbe'[q] = sinceProbe[q]
        BY <1>2, <1>7, <3>1 DEF RecordFailure
      <4> QED  BY <4>1, <1>1, FailureOK
    <3>2. CASE q # calling[c]
      <4>1. /\ entry'[q] = entry[q] /\ streak'[q] = streak[q]
            /\ admitted'[q] = admitted[q] /\ sinceProbe'[q] = sinceProbe[q]
        BY <1>2, <1>7, <3>2 DEF RecordFailure
      <4> QED  BY <4>1, <1>1
    <3> QED  BY <3>1, <3>2
  <2> QED  BY <2>2, <1>2, <1>7 DEF RecordFailure
<1>8. ASSUME NEW c \in Requests, Abandon(c)
      PROVE  <1>3!1
  BY <1>1, <1>2, <1>8 DEF Abandon
<1>9. ASSUME Reset
      PROVE  <1>3!1
  <2>1. \A q \in Providers : OK(q)'
    BY <1>2, <1>9, ClosedOK DEF Reset
  <2> QED  BY <2>1, <1>2, <1>9 DEF Reset
<1>10. ASSUME BreakerTick
       PROVE  <1>3!1
  <2>1. \A q \in Providers : OK(q)'
    <3> SUFFICES ASSUME NEW q \in Providers PROVE OK(q)'
      OBVIOUS
    <3>1. /\ entry'[q] = IF entry[q].state = "open"
                         THEN [entry[q] EXCEPT !.age = CountTo(RecoveryTimeout, @)]
                         ELSE entry[q]
          /\ streak'[q] = streak[q] /\ admitted'[q] = admitted[q]
          /\ sinceProbe'[q] = CountTo(RecoveryTimeout, sinceProbe[q])
      BY <1>10 DEF BreakerTick
    <3> QED  BY <3>1, <1>1, CircuitAges
  <2> QED  BY <2>1, <1>2, <1>10 DEF BreakerTick
<1>11. CASE UNCHANGED breaker
  BY <1>1, <1>2, <1>11 DEF breaker
<1> QED  BY <1>4, <1>5, <1>6, <1>7, <1>8, <1>9, <1>10, <1>11 DEF BreakerNext, Report

(* Every reachable state satisfies the inductive invariant.                *)
THEOREM BreakerInvariance == BreakerSpec => []BreakerInv
<1>1. BreakerInit => BreakerInv
  <2> SUFFICES ASSUME BreakerInit PROVE BreakerInv
    OBVIOUS
  <2>1. RecoveryTimeout \in 0..RecoveryTimeout
    BY TimeoutAssumption
  <2>2. \A p \in Providers : ProviderOK(entry[p], streak[p], admitted[p], sinceProbe[p])
    BY <2>1, ClosedOK DEF BreakerInit
  <2> QED  BY <2>2 DEF BreakerInit, BreakerInv, BreakerTypeOK, CycleInv, ProviderOK
<1> QED  BY <1>1, BreakerInductive, PTL DEF BreakerSpec

(* The types of the breaker's state.                                       *)
THEOREM BreakerTypes == BreakerSpec => []BreakerTypeOK
<1>1. BreakerInv => BreakerTypeOK
  BY DEF BreakerInv
<1> QED  BY <1>1, BreakerInvariance, PTL

(* A circuit is tripped exactly when the failures reported since the       *)
(* provider's last success number FailureThreshold, in any interleaving of *)
(* any number of requests.                                                 *)
THEOREM TripIsExact == BreakerSpec => []TrippedIffStreak
<1>1. BreakerInv => TrippedIffStreak
  <2> SUFFICES ASSUME BreakerInv, NEW p \in Providers
               PROVE  entry[p].state # "closed" <=> streak[p] = FailureThreshold
    BY DEF TrippedIffStreak
  <2>1. CASE entry[p].state = "closed"
    <3>1. entry[p].failures < FailureThreshold /\ entry[p].failures = streak[p]
      BY <2>1 DEF BreakerInv, CycleInv
    <3>2. streak[p] \in 0..FailureThreshold
      BY DEF BreakerInv, BreakerTypeOK
    <3> QED  BY <2>1, <3>1, <3>2, ThresholdAssumption
  <2>2. CASE entry[p].state # "closed"
    BY <2>2 DEF BreakerInv, CycleInv
  <2> QED  BY <2>1, <2>2
<1> QED  BY <1>1, BreakerInvariance, PTL

(* At most one probe is let through between two trips.                     *)
THEOREM AtMostOneProbe == BreakerSpec => []OneProbePerCycle
<1>1. BreakerInv => OneProbePerCycle
  <2> SUFFICES ASSUME BreakerInv, NEW p \in Providers
               PROVE  admitted[p] <= 1
    BY DEF OneProbePerCycle
  <2>1. entry[p].state \in {"closed", "open", "half-open"}
    BY DEF BreakerInv, BreakerTypeOK, Circuit, States
  <2>2. admitted[p] = 0 \/ admitted[p] = 1
    BY <2>1 DEF BreakerInv, CycleInv
  <2> QED  BY <2>2
<1> QED  BY <1>1, BreakerInvariance, PTL

(* Two probes of a provider are at least RecoveryTimeout ticks apart.      *)
THEOREM ProbeSpacing == BreakerSpec => ProbesAreSpaced
<1> DEFINE Spaced == \A p \in Providers :
                        entry[p].state = "open" /\ entry'[p].state = "half-open"
                        => sinceProbe[p] >= RecoveryTimeout
<1>1. ASSUME BreakerInv, [BreakerNext]_breaker PROVE [Spaced]_breaker
  <2> SUFFICES ASSUME BreakerNext, NEW p \in Providers,
                      entry[p].state = "open", entry'[p].state = "half-open"
               PROVE  sinceProbe[p] >= RecoveryTimeout
    BY <1>1
  <2>1. /\ entry \in [Providers -> Circuit] /\ sinceProbe[p] \in 0..RecoveryTimeout
        /\ entry[p].age \in 0..RecoveryTimeout /\ entry[p].age <= sinceProbe[p]
    BY <1>1 DEF BreakerInv, BreakerTypeOK, CycleInv, Circuit
  <2>2. ASSUME NEW c \in Requests, NEW asked \in SUBSET Providers, NEW q \in Providers,
               Route(c, asked, q)
        PROVE  entry[p].age >= RecoveryTimeout
    BY <2>2 DEF Route, AfterQuery, ProbeDue
  <2>3. ASSUME NEW c \in Requests, RecordFailure(c) PROVE FALSE
    BY <2>1, <2>3 DEF RecordFailure, AfterFailure, Circuit
  <2>4. ASSUME NEW c \in Requests, RecordSuccess(c) PROVE FALSE
    BY <2>1, <2>4 DEF RecordSuccess, AfterSuccess, ClosedCircuit
  <2>5. ASSUME BreakerTick PROVE FALSE
    BY <2>1, <2>5 DEF BreakerTick, Circuit
  <2>6. ASSUME Reset PROVE FALSE
    BY <2>6 DEF Reset, ClosedCircuit
  <2> QED  BY <2>1, <2>2, <2>3, <2>4, <2>5, <2>6, TimeoutAssumption
           DEF BreakerNext, Report, Bypass, Abandon
<1> QED  BY <1>1, BreakerInvariance, PTL DEF BreakerSpec, ProbesAreSpaced

-----------------------------------------------------------------------------
(* The rate limiter.  What is known of the table, and of the agent's       *)
(* history beside it.                                                      *)
Capacity == Burst * Cost

TableFits ==
    /\ now \in Nat
    /\ buckets \in Seq(Bucket) /\ IsInjective(buckets) /\ Len(buckets) <= MaxKeys
    /\ \A b \in ToSet(buckets) : b.at <= now
    /\ \A b, d \in ToSet(buckets) : b.key = d.key => b = d

(* What a bucket holds and what it gave since an admission came from its   *)
(* capacity and what flowed in since then; and what it lacks for one more  *)
(* has flowed in at the time that was promised.                            *)
Given(k) == Cost * k
HistoryFits(b) ==
    /\ \A i \in DOMAIN passed :
          passed[i] <= b.at /\ Given(Len(passed) - i + 1) + b.units <= Capacity + (b.at - passed[i])
    /\ promise # Nothing => b.units < Cost /\ promise = b.at + (Cost - b.units)

LimiterInv ==
    /\ TableFits
    /\ passed \in Seq(Nat)
    /\ Agent \notin KeysOf(buckets) => passed = <<>> /\ promise = Nothing
    /\ \A b \in ToSet(buckets) : b.key = Agent => HistoryFits(b)

(* Capacities and what is given are whole numbers of costs.                *)
LEMMA Units ==
    /\ Cost \in Nat \ {0} /\ Capacity \in Nat /\ Cost <= Capacity
    /\ \A k \in Nat : Given(k) \in Nat /\ Given(k + 1) = Given(k) + Cost
    /\ Given(1) = Cost
<1>1. Cost \in Nat \ {0} /\ Burst \in Nat \ {0}
  BY LimiterAssumption
<1>2. Burst * Cost \in Nat /\ Cost <= Burst * Cost
  BY <1>1
<1>3. \A k \in Nat : Cost * k \in Nat /\ Cost * (k + 1) = Cost * k + Cost
  BY <1>1
<1> QED  BY <1>1, <1>2, <1>3 DEF Capacity, Given

(* The bucket of a key in the table.                                       *)
LEMMA TheBucket ==
    ASSUME TableFits, NEW b \in ToSet(buckets)
    PROVE  BucketOf(b.key) = b /\ b \in Bucket /\ b.key \in KeysOf(buckets)
<1>1. b \in Bucket
  BY DEF TableFits, ToSet
<1>2. \E d \in ToSet(buckets) : d.key = b.key
  OBVIOUS
<1>3. BucketOf(b.key) \in ToSet(buckets) /\ BucketOf(b.key).key = b.key
  BY <1>2 DEF BucketOf
<1> QED  BY <1>1, <1>3 DEF TableFits, KeysOf

(* A bucket that is refilled holds what flowed in, up to its capacity.     *)
LEMMA RefilledFits ==
    ASSUME TableFits, NEW key \in Keys
    PROVE  /\ Refilled(key) \in Bucket /\ Refilled(key).key = key /\ Refilled(key).at = now
           /\ key \notin KeysOf(buckets) => Refilled(key).units = Capacity
           /\ \A b \in ToSet(buckets) : b.key = key =>
                LET grown == b.units + (now - b.at) IN
                Refilled(key).units = IF grown < Capacity THEN grown ELSE Capacity
<1>1. Capacity \in Nat /\ now \in Nat
  BY Units DEF TableFits
<1>2. CASE key \notin KeysOf(buckets)
  <2>1. Refilled(key) = [key |-> key, units |-> Capacity, at |-> now]
    BY <1>2 DEF Refilled, Full, Capacity
  <2>2. \A b \in ToSet(buckets) : b.key # key
    BY <1>2 DEF KeysOf
  <2> QED  BY <1>1, <2>1, <2>2 DEF Bucket, Capacity
<1>3. CASE key \in KeysOf(buckets)
  <2>1. PICK b \in ToSet(buckets) : b.key = key
    BY <1>3 DEF KeysOf
  <2>2. BucketOf(key) = b /\ b \in Bucket /\ b.at \in Nat /\ b.at <= now /\ b.units \in 0 .. Capacity
    BY <2>1, TheBucket DEF TableFits, Bucket, Capacity
  <2>3. PICK grown : grown = b.units + (now - b.at)
    OBVIOUS
  <2>4. grown \in Nat
    BY <1>1, <2>2, <2>3
  <2>5. Refilled(key) = [b EXCEPT !.units = IF grown < Capacity THEN grown ELSE Capacity,
                                  !.at = now]
    BY <1>3, <2>2, <2>3 DEF Refilled, Capacity
  <2>6. (IF grown < Capacity THEN grown ELSE Capacity) \in 0 .. Capacity
    BY <1>1, <2>4
  <2>7. /\ Refilled(key).key = key /\ Refilled(key).at = now /\ Refilled(key) \in Bucket
        /\ Refilled(key).units = IF grown < Capacity THEN grown ELSE Capacity
    BY <1>1, <2>1, <2>2, <2>5, <2>6 DEF Bucket, Capacity
  <2>8. \A d \in ToSet(buckets) : d.key = key => d = b
    BY <2>1 DEF TableFits
  <2> QED  BY <1>3, <2>3, <2>7, <2>8
<1> QED  BY <1>2, <1>3

(* The others stay as they are, but for one that makes room for a new key. *)
LEMMA OthersFit ==
    ASSUME TableFits, NEW key \in Keys
    PROVE  /\ Others(key) \in Seq(Bucket) /\ IsInjective(Others(key))
           /\ Len(Others(key)) + 1 <= MaxKeys
           /\ ToSet(Others(key)) \subseteq {b \in ToSet(buckets) : b.key # key}
<1>1. buckets \in Seq(Bucket) /\ IsInjective(buckets) /\ Len(buckets) \in Nat
      /\ Len(buckets) <= MaxKeys /\ MaxKeys \in Nat \ {0}
  BY LimiterAssumption DEF TableFits
<1>2. CASE key \in KeysOf(buckets)
  <2>1. PICK b \in ToSet(buckets) : b.key = key
    BY <1>2 DEF KeysOf
  <2>2. BucketOf(key) = b /\ \A d \in ToSet(buckets) : d.key = key => d = b
    BY <2>1, TheBucket DEF TableFits
  <2>3. PICK rest : rest = Without(buckets, {b}) /\ rest = Others(key)
    BY <1>2, <2>2 DEF Others
  <2>4. rest \in Seq(Bucket) /\ IsInjective(rest) /\ ToSet(rest) = ToSet(buckets) \ {b}
    <3>1. PICK gone : gone = {b}
      OBVIOUS
    <3>2. rest = Without(buckets, gone)
      BY <2>3, <3>1
    <3>3. /\ Without(buckets, gone) \in Seq(Bucket) /\ IsInjective(Without(buckets, gone))
          /\ ToSet(Without(buckets, gone)) = ToSet(buckets) \ gone
      BY <1>1, WithoutList
    <3> QED  BY <3>1, <3>2, <3>3
  <2>5. Cardinality(ToSet(rest)) = Len(rest) /\ Cardinality(ToSet(buckets)) = Len(buckets)
        /\ IsFiniteSet(ToSet(buckets))
    BY <1>1, <2>4, DistinctList
  <2>6. Len(rest) = Len(buckets) - 1
    BY <2>1, <2>4, <2>5, FS_RemoveElement
  <2> QED  BY <1>1, <2>2, <2>3, <2>4, <2>6
<1>3. CASE key \notin KeysOf(buckets)
  <2>1. \A b \in ToSet(buckets) : b.key # key
    BY <1>3 DEF KeysOf
  <2>2. CASE Len(buckets) >= MaxKeys
    <3>1. buckets # <<>> /\ Others(key) = Tail(buckets)
      BY <1>1, <1>3, <2>2 DEF Others
    <3>2. /\ Tail(buckets) \in Seq(Bucket) /\ Len(Tail(buckets)) = Len(buckets) - 1
          /\ ToSet(Tail(buckets)) \subseteq ToSet(buckets) /\ IsInjective(Tail(buckets))
      BY <1>1, <3>1, TailList
    <3> QED  BY <1>1, <2>1, <3>1, <3>2
  <2>3. CASE ~(Len(buckets) >= MaxKeys)
    BY <1>1, <1>3, <2>1, <2>3 DEF Others
  <2> QED  BY <2>2, <2>3
<1> QED  BY <1>2, <1>3

(* The table after a call of check(), the caller's bucket at its end.      *)
LEMMA CheckTable ==
    ASSUME TableFits, NEW key \in Keys, NEW pass \in BOOLEAN, Check(key, pass)
    PROVE  \E b \in Bucket :
             /\ b.key = key /\ b.at = now
             /\ b.units = IF pass THEN Refilled(key).units - Cost ELSE Refilled(key).units
             /\ TableFits' /\ ToSet(buckets') = ToSet(Others(key)) \cup {b}
<1>1. PICK old : old = Refilled(key)
  OBVIOUS
<1>2. old \in Bucket /\ old.key = key /\ old.at = now /\ pass = (old.units >= Cost)
  BY <1>1, RefilledFits DEF Check
<1>3. Cost \in Nat /\ Capacity \in Nat /\ now \in Nat /\ old.units \in 0 .. Capacity
  BY <1>2, Units DEF TableFits, Bucket, Capacity
<1>4. PICK b : b = IF pass THEN [old EXCEPT !.units = @ - Cost] ELSE old
  OBVIOUS
<1>5. /\ b \in Bucket /\ b.key = key /\ b.at = now
      /\ b.units = IF pass THEN old.units - Cost ELSE old.units
  <2>1. CASE pass
    <3>1. old.units >= Cost
      BY <1>2, <2>1, Zenon
    <3>2. old.units - Cost \in 0 .. Capacity
      BY <1>3, <3>1
    <3> QED  BY <1>2, <1>4, <2>1, <3>2 DEF Bucket, Capacity
  <2>2. CASE ~pass
    BY <1>2, <1>4, <2>2
  <2> QED  BY <2>1, <2>2
<1>6. PICK rest : rest = Others(key)
  OBVIOUS
<1>7. /\ rest \in Seq(Bucket) /\ IsInjective(rest) /\ Len(rest) + 1 <= MaxKeys
      /\ ToSet(rest) \subseteq {d \in ToSet(buckets) : d.key # key}
  BY <1>6, OthersFit
<1>8. buckets' = Append(rest, b) /\ now' = now
  BY <1>1, <1>4, <1>6 DEF Check
<1>9. /\ buckets' \in Seq(Bucket) /\ Len(buckets') = Len(rest) + 1
      /\ ToSet(buckets') = ToSet(rest) \cup {b} /\ IsInjective(buckets')
  BY <1>5, <1>7, <1>8, AppendList
<1>10. TableFits'
  BY <1>3, <1>5, <1>7, <1>8, <1>9 DEF TableFits
<1> QED  BY <1>1, <1>5, <1>6, <1>9, <1>10

(* The histories a call of check() leaves.                                 *)
LEMMA CheckHistory ==
    ASSUME NEW key, NEW pass \in BOOLEAN, Check(key, pass)
    PROVE  /\ pass = (Refilled(key).units >= Cost)
           /\ key = Agent /\ pass => passed' = Append(passed, now) /\ promise' = Nothing
           /\ key = Agent /\ ~pass => passed' = passed /\ promise' = now + (Cost - Refilled(key).units)
           /\ key # Agent /\ Agent \in KeysOf(Others(key)) => passed' = passed /\ promise' = promise
           /\ key # Agent /\ Agent \notin KeysOf(Others(key)) => passed' = <<>> /\ promise' = Nothing
BY DEF Check

(* What flows in covers what is given; g was given since time p, of a      *)
(* bucket of capacity k that held u at time a and holds r by now.          *)
LEMMA FlowCovers ==
    ASSUME NEW g \in Nat, NEW k \in Nat, NEW p \in Nat, NEW a \in Nat, NEW u \in Nat,
           NEW t \in Nat, NEW r \in Nat,
           p <= a, a <= t, g + u <= k + (a - p), r <= u + (t - a)
    PROVE  p <= t /\ g + r <= k + (t - p)
OBVIOUS

(* What one more admission gives, the bucket holds less.                   *)
LEMMA OneMoreGiven ==
    ASSUME NEW g \in Nat, NEW k \in Nat, NEW p \in Nat, NEW t \in Nat, NEW r \in Nat,
           NEW c \in Nat, g + r <= k + (t - p)
    PROVE  (g + c) + (r - c) <= k + (t - p)
OBVIOUS

(* What the agent's bucket held is enough for what was given, and still is *)
(* when it is refilled; once the promised time has come, it passes.        *)
LEMMA RefillHistory ==
    ASSUME LimiterInv, NEW R, R = Refilled(Agent).units
    PROVE  /\ R \in Nat /\ R <= Capacity
           /\ \A i \in DOMAIN passed :
                passed[i] <= now /\ Given(Len(passed) - i + 1) + R <= Capacity + (now - passed[i])
           /\ promise # Nothing /\ R < Cost => promise = now + (Cost - R)
<1>1. TableFits /\ Agent \in Keys /\ Cost \in Nat /\ Capacity \in Nat /\ Cost <= Capacity /\ now \in Nat
  BY LimiterAssumption, Units DEF LimiterInv, TableFits
<1>2. R \in Nat /\ R <= Capacity
  BY <1>1, RefilledFits DEF Bucket, Capacity
<1>3. CASE Agent \notin KeysOf(buckets)
  <2>1. passed = <<>> /\ promise = Nothing
    BY <1>3 DEF LimiterInv
  <2> QED  BY <1>2, <2>1
<1>4. CASE Agent \in KeysOf(buckets)
  <2>1. PICK d \in ToSet(buckets) : d.key = Agent
    BY <1>4 DEF KeysOf
  <2>2. d.units \in Nat /\ d.at \in Nat /\ d.at <= now
    BY <1>1, <2>1, TheBucket DEF TableFits, Bucket
  <2>3. PICK grown \in Nat : grown = d.units + (now - d.at)
    BY <1>1, <2>2
  <2>4. R = IF grown < Capacity THEN grown ELSE Capacity
    BY <1>1, <2>1, <2>3, RefilledFits
  <2>5. ASSUME NEW i \in DOMAIN passed
        PROVE  passed[i] <= now /\ Given(Len(passed) - i + 1) + R <= Capacity + (now - passed[i])
    <3>1. passed[i] \in Nat /\ Len(passed) - i + 1 \in Nat
      BY DEF LimiterInv
    <3>2. passed[i] <= d.at /\ Given(Len(passed) - i + 1) + d.units <= Capacity + (d.at - passed[i])
      BY <2>1 DEF LimiterInv, HistoryFits
    <3>3. PICK g \in Nat, p \in Nat, u \in Nat, a \in Nat :
             g = Given(Len(passed) - i + 1) /\ p = passed[i] /\ u = d.units /\ a = d.at
      BY <2>2, <3>1, Units
    <3>4. p <= a /\ g + u <= Capacity + (a - p) /\ a <= now
      BY <2>2, <3>2, <3>3
    <3>5. R <= u + (now - a)
      BY <1>1, <2>3, <2>4, <3>3
    <3>6. p <= now /\ g + R <= Capacity + (now - p)
      BY <1>1, <1>2, <3>4, <3>5, FlowCovers
    <3> QED  BY <3>3, <3>6
  <2>6. promise # Nothing /\ R < Cost => promise = now + (Cost - R)
    <3>1. promise # Nothing => promise = d.at + (Cost - d.units)
      BY <2>1 DEF LimiterInv, HistoryFits
    <3> QED  BY <1>1, <2>2, <2>3, <2>4, <3>1
  <2> QED  BY <1>2, <2>5, <2>6
<1> QED  BY <1>3, <1>4

(* A promise is a time.                                                    *)
LEMMA PromiseTyped ==
    ASSUME LimiterInv, promise # Nothing
    PROVE  promise \in Int
<1>1. PICK d \in ToSet(buckets) : d.key = Agent
  BY DEF LimiterInv, KeysOf
<1>2. d.at \in Nat /\ d.units \in Nat /\ Cost \in Nat
  <2>1. TableFits /\ Cost \in Nat /\ Capacity \in Nat
    BY Units DEF LimiterInv
  <2> QED  BY <1>1, <2>1, TheBucket DEF Bucket, Capacity
<1>3. promise = d.at + (Cost - d.units)
  BY <1>1 DEF LimiterInv, HistoryFits
<1> QED  BY <1>2, <1>3

(* A call of check() keeps the books, and no refusal puts an earlier one's *)
(* promise off.                                                            *)
LEMMA BucketChecked ==
    ASSUME LimiterInv, NEW key \in Keys, NEW pass \in BOOLEAN, Check(key, pass)
    PROVE  LimiterInv' /\ (Nothing \notin {promise, promise'} => promise' <= promise)
<1>1. PICK R : R = Refilled(key).units
  OBVIOUS
<1>2. TableFits /\ now \in Nat /\ now' = now /\ passed \in Seq(Nat)
  BY DEF LimiterInv, TableFits, Check
<1>3. PICK b \in Bucket :
         /\ b.key = key /\ b.at = now /\ b.units = IF pass THEN R - Cost ELSE R
         /\ TableFits' /\ ToSet(buckets') = ToSet(Others(key)) \cup {b}
  BY <1>1, <1>2, CheckTable
<1>4. ToSet(Others(key)) \subseteq {d \in ToSet(buckets) : d.key # key}
  BY <1>2, OthersFit
<1>5. CASE key = Agent
  <2>1. /\ R \in Nat /\ R <= Capacity
        /\ \A i \in DOMAIN passed :
             passed[i] <= now /\ Given(Len(passed) - i + 1) + R <= Capacity + (now - passed[i])
        /\ promise # Nothing /\ R < Cost => promise = now + (Cost - R)
    BY <1>1, <1>5, RefillHistory
  <2>2. Agent \in KeysOf(buckets)'
    BY <1>3, <1>5 DEF KeysOf
  <2>3. \A d \in ToSet(buckets') : d.key = Agent => d = b
    BY <1>3, <1>4, <1>5
  <2>4. Cost \in Nat /\ Capacity \in Nat /\ \A k \in Nat : Given(k) \in Nat /\ Given(k + 1) = Given(k) + Cost
    BY Units
  <2>5. CASE pass
    <3>1. passed' = Append(passed, now) /\ promise' = Nothing /\ b.units = R - Cost
      BY <1>3, <1>5, <2>5, CheckHistory
    <3>2. /\ passed' \in Seq(Nat) /\ Len(passed') = Len(passed) + 1 /\ Len(passed) \in Nat
          /\ \A i \in 1 .. Len(passed) : passed'[i] = passed[i] /\ passed[i] \in Nat
          /\ passed'[Len(passed) + 1] = now /\ DOMAIN passed' = 1 .. Len(passed) + 1
      BY <1>2, <3>1
    <3>3. ASSUME NEW i \in DOMAIN passed'
          PROVE  passed'[i] <= now
                 /\ Given(Len(passed') - i + 1) + b.units <= Capacity + (now - passed'[i])
      <4>1. CASE i = Len(passed) + 1
        <5>1. Given(Len(passed') - i + 1) = Cost
          BY <3>2, <4>1, Units
        <5>2. passed'[i] = now
          BY <3>2, <4>1
        <5>3. now <= now /\ Cost + (R - Cost) <= Capacity + (now - now)
          BY <1>2, <2>1, <2>4
        <5> QED  BY <3>1, <5>1, <5>2, <5>3
      <4>2. CASE i # Len(passed) + 1
        <5>1. i \in 1 .. Len(passed)
          BY <3>2, <4>2
        <5>2. passed[i] <= now /\ Given(Len(passed) - i + 1) + R <= Capacity + (now - passed[i])
          BY <2>1, <5>1, <1>2
        <5>3. PICK k \in Nat : k = Len(passed) - i + 1
          BY <3>2, <5>1
        <5>4. Len(passed') - i + 1 = k + 1
          BY <3>2, <5>1, <5>3
        <5>5. PICK g \in Nat : g = Given(k)
          BY <2>4
        <5>6. Given(Len(passed') - i + 1) = g + Cost
          BY <2>4, <5>4, <5>5
        <5>7. PICK p \in Nat : p = passed[i]
          BY <3>2, <5>1
        <5>8. p <= now /\ g + R <= Capacity + (now - p)
          BY <5>2, <5>3, <5>5, <5>7
        <5>9. (g + Cost) + (R - Cost) <= Capacity + (now - p)
          BY <1>2, <2>1, <2>4, <5>8, OneMoreGiven
        <5> QED  BY <3>1, <3>2, <5>1, <5>6, <5>7, <5>8, <5>9
      <4> QED  BY <4>1, <4>2
    <3>4. \A d \in ToSet(buckets') : d.key = Agent => HistoryFits(d)'
      BY <1>3, <2>3, <3>1, <3>3 DEF HistoryFits
    <3> QED  BY <1>3, <2>2, <3>1, <3>2, <3>4 DEF LimiterInv
  <2>6. CASE ~pass
    <3>1. /\ passed' = passed /\ promise' = now + (Cost - R) /\ b.units = R
          /\ ~(R >= Cost)
      <4>1. passed' = passed /\ promise' = now + (Cost - R) /\ b.units = R
        BY <1>1, <1>3, <1>5, <2>6, CheckHistory
      <4>2. pass = (R >= Cost)
        BY <1>1, CheckHistory, Zenon
      <4> QED  BY <4>1, <4>2, <2>6, Zenon
    <3>2. R < Cost
      BY <2>1, <2>4, <3>1
    <3>3. \A d \in ToSet(buckets') : d.key = Agent => HistoryFits(d)'
      BY <1>3, <2>1, <2>3, <3>1, <3>2 DEF HistoryFits
    <3>4. LimiterInv'
      BY <1>2, <1>3, <2>2, <3>1, <3>3 DEF LimiterInv
    <3>5. promise # Nothing => promise' = promise
      BY <2>1, <3>1, <3>2
    <3>6. promise' \in Int
      BY <1>2, <2>1, <2>4, <3>1
    <3> QED  BY <3>4, <3>5, <3>6
  <2> QED  BY <2>5, <2>6
<1>6. CASE key # Agent
  <2>1. \A d \in ToSet(buckets') : d.key = Agent => d \in ToSet(Others(key)) /\ d \in ToSet(buckets)
    BY <1>3, <1>4, <1>6
  <2>2. CASE Agent \in KeysOf(Others(key))
    <3>1. passed' = passed /\ promise' = promise
      BY <1>6, <2>2, CheckHistory
    <3>2. Agent \in KeysOf(buckets) /\ Agent \in KeysOf(buckets)'
      BY <1>3, <1>4, <2>2 DEF KeysOf
    <3>3. \A d \in ToSet(buckets') : d.key = Agent => HistoryFits(d)'
      BY <2>1, <3>1 DEF LimiterInv, HistoryFits
    <3>4. LimiterInv'
      BY <1>2, <1>3, <3>1, <3>2, <3>3 DEF LimiterInv
    <3>5. promise # Nothing => promise \in Int
      BY PromiseTyped
    <3> QED  BY <3>1, <3>4, <3>5
  <2>3. CASE Agent \notin KeysOf(Others(key))
    <3>1. passed' = <<>> /\ promise' = Nothing
      BY <1>6, <2>3, CheckHistory
    <3>2. \A d \in ToSet(buckets') : d.key # Agent
      BY <2>1, <2>3 DEF KeysOf
    <3> QED  BY <1>3, <3>1, <3>2 DEF LimiterInv
  <2> QED  BY <2>2, <2>3
<1> QED  BY <1>5, <1>6

(* Every reachable state of the limiter satisfies the invariant.           *)
THEOREM LimiterInvariance == LimiterSpec => []LimiterInv
<1>1. LimiterInit => LimiterInv
  <2> SUFFICES ASSUME LimiterInit PROVE LimiterInv
    OBVIOUS
  <2>1. buckets = <<>> /\ now = 0 /\ passed = <<>> /\ promise = Nothing
    BY DEF LimiterInit
  <2>2. <<>> \in Seq(Bucket) /\ IsInjective(<<>>) /\ Len(<<>>) = 0 /\ ToSet(<<>>) = {}
        /\ <<>> \in Seq(Nat)
    BY DEF IsInjective, ToSet
  <2>3. TableFits
    BY <2>1, <2>2, LimiterAssumption DEF TableFits
  <2> QED  BY <2>1, <2>2, <2>3 DEF LimiterInv
<1>2. ASSUME LimiterInv, [LimiterNext]_limiter PROVE LimiterInv'
  <2>1. CASE \E key \in Keys, pass \in BOOLEAN : Check(key, pass)
    BY <1>2, <2>1, BucketChecked
  <2>2. CASE ClockTicks
    <3>1. buckets' = buckets /\ passed' = passed /\ promise' = promise /\ now' = now + 1
      BY <2>2 DEF ClockTicks
    <3>2. \A b \in ToSet(buckets) : b.at \in Nat
      BY <1>2, TheBucket DEF LimiterInv, Bucket
    <3>3. TableFits'
      BY <1>2, <3>1, <3>2 DEF LimiterInv, TableFits
    <3> QED  BY <1>2, <3>1, <3>3 DEF LimiterInv, HistoryFits
  <2>3. CASE UNCHANGED limiter
    BY <1>2, <2>3 DEF limiter, LimiterInv, TableFits, HistoryFits
  <2> QED  BY <1>2, <2>1, <2>2, <2>3 DEF LimiterNext
<1> QED  BY <1>1, <1>2, PTL DEF LimiterSpec

(* Over any stretch of time a key that keeps its bucket is admitted no     *)
(* more often than the burst and what flowed in allow.                     *)
THEOREM BurstIsBounded == LimiterSpec => []BurstBounded
<1>1. ASSUME LimiterInv PROVE BurstBounded
  <2> SUFFICES ASSUME NEW i \in DOMAIN passed
               PROVE  Cost * (Len(passed) - i + 1) <= Burst * Cost + now - passed[i]
    BY DEF BurstBounded
  <2>1. PICK R : R = Refilled(Agent).units
    OBVIOUS
  <2>2. /\ R \in Nat /\ passed[i] <= now
        /\ Given(Len(passed) - i + 1) + R <= Capacity + (now - passed[i])
    BY <1>1, <2>1, RefillHistory
  <2>3. passed[i] \in Nat /\ Len(passed) - i + 1 \in Nat /\ now \in Nat /\ Capacity \in Nat
    <3>1. passed \in Seq(Nat) /\ now \in Nat
      BY <1>1 DEF LimiterInv, TableFits
    <3>2. passed[i] \in Nat /\ Len(passed) - i + 1 \in Nat
      BY <3>1
    <3> QED  BY <3>1, <3>2, Units
  <2>4. PICK g \in Nat : g = Given(Len(passed) - i + 1)
    BY <2>3, Units
  <2>5. g <= Capacity + now - passed[i]
    BY <2>2, <2>3, <2>4
  <2> QED  BY <2>4, <2>5 DEF Given, Capacity
<1> QED  BY <1>1, LimiterInvariance, PTL

(* The time a refusal names is never put off by knocking again before it,  *)
(* and a key that knocks at that time is not refused.                      *)
THEOREM PromiseIsKept == LimiterSpec => PromiseKept
<1>1. ASSUME LimiterInv, [LimiterNext]_limiter
      PROVE  [Nothing \notin {promise, promise'} => promise' <= promise]_limiter
  <2>1. CASE \E key \in Keys, pass \in BOOLEAN : Check(key, pass)
    BY <1>1, <2>1, BucketChecked
  <2>2. CASE ClockTicks
    <3>1. promise' = promise
      BY <2>2 DEF ClockTicks
    <3> QED  BY <1>1, <3>1, PromiseTyped
  <2>3. CASE UNCHANGED limiter
    BY <2>3
  <2> QED  BY <1>1, <2>1, <2>2, <2>3 DEF LimiterNext
<1> QED  BY <1>1, LimiterInvariance, PTL DEF LimiterSpec, PromiseKept

-----------------------------------------------------------------------------
(* The front door, and the conversation that passes it.  The invariant     *)
(* speaks of the turns an Anthropic model would be sent at any moment of   *)
(* it, so that each message said takes them one step further; the results  *)
(* that are still awaited are the only ones they may lack.                 *)

(* The ids of calls, and NoId; the messages made with them, and the turns  *)
(* they become.                                                            *)
Ids == (Nat \X Nat) \cup {NoId}
Roles == {"system", "user", "assistant", "tool"}
Msg == [role : Roles, size : Nat, calls : Seq(Ids), answers : Ids]
Spoken == {m \in Msg : m.role # "system"}
Turn == [role : Roles, calls : SUBSET Ids, results : SUBSET Ids]

(* The calls of a conversation that have no result yet.                    *)
Awaited(list) ==
    LET replies == {i \in DOMAIN list : list[i].role = "assistant"}
        reply == Max(replies)
    IN  IF replies = {} THEN {}
        ELSE ToSet(list[reply].calls) \ {list[i].answers : i \in {j \in DOMAIN list : j > reply}}

(* The conversation as the proxy reads it.                                 *)
Heard(list) == Where(list, LAMBDA m : m.role # "system")

(* Calls and results are in neighbouring turns and the same, but for the   *)
(* results of the last calls that are still awaited.                       *)
PairedUpTo(awaited, out) ==
    /\ \A i \in DOMAIN out : out[i].calls # {} =>
           IF i = Len(out) THEN out[i].calls = awaited
           ELSE /\ out[i + 1].results # {}
                /\ out[i].calls = out[i + 1].results \cup IF i + 1 = Len(out) THEN awaited ELSE {}
    /\ \A i \in DOMAIN out : out[i].results # {} =>
           /\ i > 1 /\ out[i].calls = {}
           /\ out[i - 1].calls = out[i].results \cup IF i = Len(out) THEN awaited ELSE {}
    /\ awaited # {} => out # <<>> /\ (out[Len(out)].calls = awaited \/ out[Len(out)].results # {})

(* What is heard of a conversation grows with it.                          *)
LEMMA HeardAppends ==
    ASSUME NEW list \in Seq(Msg), NEW m \in Msg
    PROVE  Heard(Append(list, m)) = IF m.role = "system" THEN Heard(list) ELSE Append(Heard(list), m)
<1>1. PICK gone : gone = {e \in ToSet(Append(list, m)) : e.role = "system"}
    OBVIOUS
<1>2. PICK less : less = {e \in ToSet(list) : e.role = "system"}
    OBVIOUS
<1>3. ToSet(Append(list, m)) = ToSet(list) \cup {m}
    BY AppendList
<1>4. \A y \in ToSet(list) : y \in gone <=> y \in less
    BY <1>1, <1>2, <1>3
<1>5. m \in gone <=> m.role = "system"
    BY <1>1, <1>3
<1>6. Heard(Append(list, m)) = Without(Append(list, m), gone)
    <2>1. ToSet(Append(list, m)) \ {e \in ToSet(Append(list, m)) : e.role # "system"} = gone
        BY <1>1
    <2> QED BY <2>1 DEF Heard, Where, Only
<1>7. Heard(list) = Without(list, less)
    <2>1. ToSet(list) \ {e \in ToSet(list) : e.role # "system"} = less
        BY <1>2
    <2> QED BY <2>1 DEF Heard, Where, Only
<1>8. Without(Append(list, m), gone) = IF m \in gone THEN Without(list, less) ELSE Append(Without(list, less), m)
    BY <1>4, WithoutAppends
<1> QED BY <1>5, <1>6, <1>7, <1>8

(* What is heard are messages, none of them instructions.                  *)
LEMMA HeardIsSpoken ==
    ASSUME NEW list \in Seq(Msg)
    PROVE  Heard(list) \in Seq(Spoken) /\ Heard(<<>>) = <<>>
<1>1. PICK gone : gone = ToSet(list) \ {e \in ToSet(list) : e.role # "system"}
    OBVIOUS
<1>2. PICK s : s = Without(list, gone)
    OBVIOUS
<1>3. s \in Seq(Msg) /\ ToSet(s) = ToSet(list) \ gone
    BY <1>2, WithoutList
<1>4. \A i \in DOMAIN s : s[i] \in Spoken
    BY <1>1, <1>3 DEF ToSet, Spoken
<1>5. s \in Seq(Spoken)
    BY <1>3, <1>4
<1>6. Heard(list) = s
    BY <1>1, <1>2 DEF Heard, Where, Only
<1>7. Heard(<<>>) = <<>>
    <2>1. PICK e, rest : e = <<>> /\ rest = ToSet(e) \ {x \in ToSet(e) : x.role # "system"}
        OBVIOUS
    <2>2. ToSet(e) = {} /\ e \in Seq(Msg)
        BY <2>1, ShortList DEF ToSet
    <2>3. Without(e, rest) = e
        BY <2>2, WithoutNone
    <2> QED BY <2>1, <2>3 DEF Heard, Where, Only
<1> QED BY <1>5, <1>6, <1>7

(* The recursion of AnthropicTurns, over any list.                         *)
TurnsRecursion(f, s) ==
    /\ f[0] = <<>>
    /\ \A i \in 1..Len(s) : f[i] = Turned(f[i - 1], s[i])

(* AnthropicTurns is the last value of a function that satisfies it.       *)
LEMMA TurnsUnfold ==
    ASSUME NEW S, NEW s \in Seq(S)
    PROVE  \E f : TurnsRecursion(f, s) /\ AnthropicTurns(s) = f[Len(s)]
<1>1. PICK n \in Nat : n = Len(s) /\ DOMAIN s = 1..n
    OBVIOUS
<1> DEFINE Made(f, k) == f = [i \in 0..k |-> IF i = 0 THEN <<>> ELSE Turned(f[i - 1], s[i])]
           E == {k \in Nat : \E f : Made(f, k)}
<1>2. 0 \in E
    <2>1. PICK f : f = [i \in 0..0 |-> <<>>]
        OBVIOUS
    <2>2. Made(f, 0)
        BY <2>1
    <2> QED BY <2>2
<1>3. ASSUME NEW k \in Nat, k \in E PROVE k + 1 \in E
    <2>1. PICK f : Made(f, k)
        BY <1>3
    <2>8. PICK h : h = [i \in 0..k + 1 |-> IF i # k + 1 THEN f[i] ELSE Turned(f[k], s[k + 1])]
        OBVIOUS
    <2>2. \A i \in 0..k + 1 : i # k + 1 => i \in 0..k
        OBVIOUS
    <2>3. \A i \in 0..k : f[i] = IF i = 0 THEN <<>> ELSE Turned(f[i - 1], s[i])
        BY <2>1
    <2>4. \A i \in 1..k + 1 : i - 1 \in 0..k + 1 /\ i - 1 # k + 1 /\ (i = k + 1 => i - 1 = k)
        OBVIOUS
    <2>5. \A i \in 1..k + 1 : h[i - 1] = f[i - 1]
        BY <2>4, <2>8
    <2>6. ASSUME NEW i \in 0..k + 1
          PROVE  h[i] = IF i = 0 THEN <<>> ELSE Turned(h[i - 1], s[i])
        <3>1. CASE i = 0
            BY <2>2, <2>3, <2>8, <3>1
        <3>2. CASE i # 0 /\ i # k + 1
            <4>1. i \in 0..k /\ i \in 1..k + 1
                BY <3>2
            <4> QED BY <2>3, <2>5, <2>8, <3>2, <4>1
        <3>3. CASE i = k + 1
            BY <2>4, <2>5, <2>8, <3>3
        <3> QED BY <3>1, <3>2, <3>3
    <2>7. Made(h, k + 1)
        BY <2>6, <2>8
    <2> HIDE DEF Made
    <2> QED BY <2>7
<1> HIDE DEF E
<1>4. n \in E
    BY <1>2, <1>3, NaturalInduction
<1>5. PICK f : Made(f, n) /\ AnthropicTurns(s) = f[n]
    <2> DEFINE h == CHOOSE f : Made(f, n)
    <2>1. Made(h, n)
        BY <1>4, Zenon DEF E
    <2>2. AnthropicTurns(s) = h[n]
        BY <1>1 DEF AnthropicTurns
    <2> QED BY <2>1, <2>2
<1>6. \A i \in 0..n : f[i] = IF i = 0 THEN <<>> ELSE Turned(f[i - 1], s[i])
    BY <1>5
<1>7. 0 \in 0..n /\ \A i \in 1..n : i \in 0..n /\ i # 0
    BY <1>1
<1>8. f[0] = <<>> /\ \A i \in 1..n : f[i] = Turned(f[i - 1], s[i])
    BY <1>6, <1>7
<1> QED BY <1>1, <1>5, <1>8 DEF TurnsRecursion

(* One message more takes the turns one step further.                      *)
LEMMA TurnsAppend ==
    ASSUME NEW S, NEW s \in Seq(S), NEW m \in S
    PROVE  AnthropicTurns(Append(s, m)) = Turned(AnthropicTurns(s), m) /\ AnthropicTurns(<<>>) = <<>>
<1>1. PICK n \in Nat : n = Len(s) /\ DOMAIN s = 1..n
    OBVIOUS
<1>2. PICK t : t = Append(s, m)
    OBVIOUS
<1>3. t \in Seq(S) /\ Len(t) = n + 1 /\ t[n + 1] = m /\ \A i \in 1..n : t[i] = s[i]
    BY <1>1, <1>2
<1>4. PICK f : TurnsRecursion(f, t) /\ AnthropicTurns(t) = f[n + 1]
    BY <1>3, TurnsUnfold
<1>5. PICK g : TurnsRecursion(g, s) /\ AnthropicTurns(s) = g[n]
    BY <1>1, TurnsUnfold
<1>6. f[0] = <<>> /\ \A i \in 1..n + 1 : f[i] = Turned(f[i - 1], t[i])
    BY <1>3, <1>4 DEF TurnsRecursion
<1>7. g[0] = <<>> /\ \A i \in 1..n : g[i] = Turned(g[i - 1], s[i])
    BY <1>1, <1>5 DEF TurnsRecursion
<1> DEFINE G == {k \in Nat : k <= n => f[k] = g[k]}
<1>9. 0 \in G
    BY <1>6, <1>7
<1>10. ASSUME NEW k \in Nat, k \in G PROVE k + 1 \in G
    <2> SUFFICES ASSUME k + 1 <= n PROVE f[k + 1] = g[k + 1]
        OBVIOUS
    <2>1. k + 1 \in 1..n /\ k + 1 \in 1..n + 1 /\ (k + 1) - 1 = k /\ f[k] = g[k]
        BY <1>1, <1>10
    <2>2. f[k + 1] = Turned(f[k], t[k + 1])
        BY <1>6, <2>1
    <2>3. g[k + 1] = Turned(g[k], s[k + 1])
        BY <1>7, <2>1
    <2> QED BY <1>3, <2>1, <2>2, <2>3
<1> HIDE DEF G
<1>11. n \in G
    BY <1>9, <1>10, NaturalInduction
<1>12. f[n] = g[n]
    BY <1>1, <1>11 DEF G
<1>13. n + 1 \in 1..n + 1 /\ (n + 1) - 1 = n
    BY <1>1
<1>14. f[n + 1] = Turned(f[n], m)
    BY <1>3, <1>6, <1>13
<1>15. AnthropicTurns(<<>>) = <<>>
    <2>1. PICK e : e = <<>>
        OBVIOUS
    <2>2. e \in Seq(S) /\ Len(e) = 0
        BY <2>1
    <2>3. PICK h : TurnsRecursion(h, e) /\ AnthropicTurns(e) = h[0]
        BY <2>2, TurnsUnfold
    <2> QED BY <2>1, <2>3 DEF TurnsRecursion
<1> QED BY <1>2, <1>4, <1>5, <1>12, <1>14, <1>15

(* A reply awaits the results of its calls, and any other message may be   *)
(* one of those that are awaited.                                          *)
LEMMA AwaitedAppends ==
    ASSUME NEW list \in Seq(Msg), NEW m \in Msg
    PROVE  /\ Awaited(Append(list, m)) = IF m.role = "assistant" THEN ToSet(m.calls)
                                         ELSE Awaited(list) \ {m.answers}
           /\ Awaited(<<>>) = {}
<1>1. PICK n \in Nat : n = Len(list) /\ DOMAIN list = 1..n
    OBVIOUS
<1>2. PICK t : t = Append(list, m)
    OBVIOUS
<1>3. DOMAIN t = 1..n + 1 /\ t[n + 1] = m /\ \A i \in 1..n : t[i] = list[i]
    BY <1>1, <1>2
<1>4. PICK old : old = {i \in 1..n : list[i].role = "assistant"}
    OBVIOUS
<1>5. PICK new : new = {i \in 1..n + 1 : t[i].role = "assistant"}
    OBVIOUS
<1>6. Awaited(list) = IF old = {} THEN {}
                      ELSE ToSet(list[Max(old)].calls) \ {list[i].answers : i \in {j \in 1..n : j > Max(old)}}
    BY <1>1, <1>4 DEF Awaited
<1>7. Awaited(t) = IF new = {} THEN {}
                   ELSE ToSet(t[Max(new)].calls) \ {t[i].answers : i \in {j \in 1..n + 1 : j > Max(new)}}
    BY <1>3, <1>5 DEF Awaited
<1>12. Awaited(<<>>) = {}
    BY DEF Awaited
<1>13. SUFFICES Awaited(t) = IF m.role = "assistant" THEN ToSet(m.calls)
                            ELSE Awaited(list) \ {m.answers}
    BY <1>2, <1>12
<1>8. \A i \in 1..n + 1 : i \in 1..n \/ i = n + 1
    BY <1>1
<1>9. n + 1 \in 1..n + 1 /\ n + 1 \notin 1..n /\ 1..n \subseteq 1..n + 1
    BY <1>1
<1>10. CASE m.role = "assistant"
    <2>1. n + 1 \in new /\ new \subseteq 0..n + 1 /\ new # {} /\ n + 1 \in Nat
        BY <1>3, <1>5, <1>9, <1>10
    <2>2. PICK top : top = Max(new) /\ top \in new /\ \A i \in new : i <= top
        BY <2>1, MaxIsGreatest
    <2>3. Max(new) = n + 1
        BY <1>1, <2>1, <2>2
    <2>4. {j \in 1..n + 1 : j > Max(new)} = {}
        BY <1>1, <2>3
    <2>5. Awaited(t) = ToSet(m.calls)
        BY <1>3, <1>7, <2>1, <2>3, <2>4
    <2> QED BY <1>10, <2>5
<1>11. CASE m.role # "assistant"
    <2>1. new = old
        BY <1>3, <1>4, <1>5, <1>8, <1>9, <1>11
    <2>2. CASE old = {}
        BY <1>6, <1>7, <1>11, <2>1, <2>2
    <2>3. CASE old # {}
        <3>1. old \subseteq 0..n
            BY <1>4
        <3>2. PICK top : top = Max(old) /\ top \in old
            BY <2>3, <3>1, MaxIsGreatest
        <3>3. top \in 1..n /\ t[top] = list[top]
            BY <1>3, <1>4, <3>2
        <3>4. {t[i].answers : i \in {j \in 1..n + 1 : j > top}}
                  = {list[i].answers : i \in {j \in 1..n : j > top}} \cup {m.answers}
            <4>1. \A i \in {j \in 1..n : j > top} : i \in {j \in 1..n + 1 : j > top} /\ t[i] = list[i]
                BY <1>3, <1>9
            <4>2. n + 1 \in {j \in 1..n + 1 : j > top} /\ t[n + 1] = m
                BY <1>1, <1>3, <1>9, <3>3
            <4>3. \A i \in {j \in 1..n + 1 : j > top} : i \in {j \in 1..n : j > top} \/ i = n + 1
                BY <1>8
            <4> QED BY <4>1, <4>2, <4>3
        <3>5. PICK A : A = {list[i].answers : i \in {j \in 1..n : j > top}}
            OBVIOUS
        <3>6. Awaited(list) = ToSet(list[top].calls) \ A
            BY <1>6, <2>3, <3>2, <3>5
        <3>7. Awaited(t) = ToSet(list[top].calls) \ (A \cup {m.answers})
            BY <1>7, <2>1, <2>3, <3>2, <3>3, <3>4, <3>5
        <3> QED BY <1>11, <3>6, <3>7
    <2> QED BY <2>2, <2>3
<1> QED BY <1>10, <1>11

(* One message more, at its turn, keeps calls and results together: words  *)
(* and replies when nothing is awaited, a result when it is.               *)
LEMMA TurnedPaired ==
    ASSUME NEW out \in Seq(Turn), NEW awaited, PairedUpTo(awaited, out),
           NEW m \in Spoken,
           m.role = "tool" => m.answers \in awaited,
           m.role # "tool" => awaited = {},
           m.role # "assistant" => m.calls = <<>>
    PROVE  /\ Turned(out, m) \in Seq(Turn)
           /\ PairedUpTo(IF m.role = "assistant" THEN ToSet(m.calls) ELSE awaited \ {m.answers},
                         Turned(out, m))
<1>1. PICK n \in Nat : n = Len(out) /\ DOMAIN out = 1..n
    OBVIOUS
<1>2. PICK rest : rest = IF m.role = "assistant" THEN ToSet(m.calls) ELSE awaited \ {m.answers}
    OBVIOUS
<1>3. PICK t : t = Turned(out, m)
    OBVIOUS
<1>4. m \in Msg /\ m.role \in {"user", "assistant", "tool"} /\ m.answers \in Ids /\ m.calls \in Seq(Ids)
    BY DEF Spoken, Msg, Roles
<1>5. ToSet(m.calls) \subseteq Ids
    BY <1>4 DEF ToSet
<1>6. \A i \in 1..n : out[i] \in Turn
    BY <1>1
<1>7. /\ \A i \in 1..n : out[i].calls # {} =>
             IF i = n THEN out[i].calls = awaited
             ELSE /\ out[i + 1].results # {}
                  /\ out[i].calls = out[i + 1].results \cup IF i + 1 = n THEN awaited ELSE {}
      /\ \A i \in 1..n : out[i].results # {} =>
             /\ i > 1 /\ out[i].calls = {}
             /\ out[i - 1].calls = out[i].results \cup IF i = n THEN awaited ELSE {}
      /\ awaited # {} => n # 0 /\ (out[n].calls = awaited \/ out[n].results # {})
    <2>1. out # <<>> => n # 0
        BY <1>1
    <2>2. awaited # {} => n # 0 /\ (out[n].calls = awaited \/ out[n].results # {})
        BY <1>1, <2>1 DEF PairedUpTo
    <2>3. \A i \in 1..n : out[i].calls # {} =>
             IF i = n THEN out[i].calls = awaited
             ELSE /\ out[i + 1].results # {}
                  /\ out[i].calls = out[i + 1].results \cup IF i + 1 = n THEN awaited ELSE {}
        BY <1>1, Zenon DEF PairedUpTo
    <2>4. \A i \in 1..n : out[i].results # {} =>
             /\ i > 1 /\ out[i].calls = {}
             /\ out[i - 1].calls = out[i].results \cup IF i = n THEN awaited ELSE {}
        BY <1>1, Zenon DEF PairedUpTo
    <2> QED BY <2>2, <2>3, <2>4
<1>8. SUFFICES /\ t \in Seq(Turn)
               /\ PairedUpTo(rest, t)
    BY <1>2, <1>3
<1>9. ASSUME NEW b, b \in Turn, t = Append(out, b),
             b.calls # {} => b.calls = rest,
             b.results # {} => b.calls = {} /\ b.results \cup rest = awaited /\ n # 0 /\ out[n].calls = awaited,
             b.results = {} => awaited = {} /\ b.calls = rest
      PROVE  t \in Seq(Turn) /\ PairedUpTo(rest, t)
    <2>1. t \in Seq(Turn) /\ Len(t) = n + 1 /\ DOMAIN t = 1..n + 1 /\ t[n + 1] = b
          /\ \A i \in 1..n : t[i] = out[i]
        BY <1>1, <1>9
    <2>2. \A i \in 1..n + 1 : i = n + 1 \/ (i \in 1..n /\ i # n + 1)
        BY <1>1
    <2>3. ASSUME NEW i \in 1..n + 1, t[i].calls # {}
          PROVE  IF i = n + 1 THEN t[i].calls = rest
                 ELSE /\ t[i + 1].results # {}
                      /\ t[i].calls = t[i + 1].results \cup IF i + 1 = n + 1 THEN rest ELSE {}
        <3>1. CASE i = n + 1
            BY <1>9, <2>1, <2>3, <3>1
        <3>2. CASE i = n /\ i # n + 1
            <4>1. t[i].calls = awaited /\ i \in 1..n /\ awaited # {}
                BY <1>7, <2>1, <2>2, <2>3, <3>2
            <4>2. b.results # {}
                BY <1>9, <4>1
            <4> QED BY <1>9, <2>1, <3>2, <4>1, <4>2
        <3>3. CASE i # n /\ i # n + 1
            <4>1. i \in 1..n /\ i + 1 \in 1..n /\ i + 1 # n + 1
                BY <1>1, <3>3
            <4>2. t[i].calls = out[i].calls /\ t[i + 1].results = out[i + 1].results
                BY <2>1, <4>1
            <4>3. out[i + 1].results # {} /\ out[i].calls = out[i + 1].results \cup IF i + 1 = n THEN awaited ELSE {}
                BY <1>7, <2>3, <3>3, <4>1, <4>2
            <4>4. i + 1 = n => awaited = {}
                <5>1. ASSUME i + 1 = n, awaited # {} PROVE FALSE
                    <6>1. b.results # {} /\ out[n].calls = awaited
                        BY <1>9, <5>1
                    <6>2. out[n].results # {} /\ n \in 1..n
                        BY <4>1, <4>3, <5>1
                    <6>3. out[n].calls = {}
                        BY <1>7, <6>2
                    <6> QED BY <5>1, <6>1, <6>3
                <5> QED BY <5>1
            <4> QED BY <3>3, <4>1, <4>2, <4>3, <4>4
        <3> QED BY <3>1, <3>2, <3>3
    <2>4. ASSUME NEW i \in 1..n + 1, t[i].results # {}
          PROVE  /\ i > 1 /\ t[i].calls = {}
                 /\ t[i - 1].calls = t[i].results \cup IF i = n + 1 THEN rest ELSE {}
        <3>1. CASE i = n + 1
            <4>1. n \in 1..n /\ i - 1 = n /\ i > 1
                BY <1>1, <1>9, <2>1, <2>4, <3>1
            <4> QED BY <1>9, <2>1, <2>4, <3>1, <4>1
        <3>2. CASE i # n + 1
            <4>1. i \in 1..n /\ out[i].results # {} /\ t[i] = out[i]
                BY <2>1, <2>2, <2>4, <3>2
            <4>2. i > 1 /\ out[i].calls = {}
                  /\ out[i - 1].calls = out[i].results \cup IF i = n THEN awaited ELSE {}
                BY <1>7, <4>1
            <4>3. i - 1 \in 1..n /\ t[i - 1] = out[i - 1]
                BY <1>1, <2>1, <4>1, <4>2
            <4>4. i = n => awaited = {}
                <5>1. ASSUME i = n, awaited # {} PROVE FALSE
                    BY <1>9, <4>2, <5>1
                <5> QED BY <5>1
            <4> QED BY <3>2, <4>1, <4>2, <4>3, <4>4
        <3> QED BY <3>1, <3>2
    <2>5. rest # {} => t # <<>> /\ (t[n + 1].calls = rest \/ t[n + 1].results # {})
        BY <1>9, <2>1
    <2> QED BY <2>1, <2>3, <2>4, <2>5 DEF PairedUpTo
<1>10. CASE m.role # "tool"
    <2>1. PICK b : b = Block(m.role, m)
        OBVIOUS
    <2>2. b.role = m.role /\ b.calls = ToSet(m.calls) /\ b.results = {}
        BY <1>10, <2>1 DEF Block
    <2>3. b \in Turn
        BY <1>4, <1>5, <1>10, <2>1 DEF Block, Turn, Roles
    <2>4. t = Append(out, b)
        BY <1>3, <1>10, <2>1 DEF Turned
    <2>5. awaited = {} /\ b.calls = rest
        <3>1. m.role # "assistant" => ToSet(m.calls) = {}
            BY DEF ToSet
        <3> QED BY <1>2, <1>4, <1>10, <2>2, <3>1
    <2> QED BY <1>9, <2>2, <2>3, <2>4, <2>5
<1>11. CASE m.role = "tool" /\ ~(out # <<>> /\ Last(out).results # {})
    <2>1. PICK b : b = Block("user", m)
        OBVIOUS
    <2>2. m.answers \in awaited /\ rest = awaited \ {m.answers} /\ awaited # {}
        BY <1>2, <1>11
    <2>3. n # 0 /\ out[n].calls = awaited
        BY <1>1, <1>7, <1>11, <2>2 DEF Last
    <2>4. b.calls = {} /\ b.results = {m.answers}
        <3>1. ToSet(m.calls) = {}
            BY <1>11 DEF ToSet
        <3> QED BY <1>11, <2>1, <3>1 DEF Block
    <2>5. b \in Turn
        BY <1>4, <1>11, <2>1, <2>4 DEF Block, Turn, Roles
    <2>6. t = Append(out, b)
        BY <1>3, <1>11, <2>1 DEF Turned
    <2> QED BY <1>9, <2>2, <2>3, <2>4, <2>5, <2>6
<1>12. CASE m.role = "tool" /\ out # <<>> /\ Last(out).results # {}
    <2>1. n \in 1..n /\ n > 0 /\ out[n].results # {}
        BY <1>1, <1>12 DEF Last
    <2>2. m.answers \in awaited /\ rest = awaited \ {m.answers}
        BY <1>2, <1>12
    <2>3. n > 1 /\ out[n].calls = {} /\ out[n - 1].calls = out[n].results \cup awaited
        BY <1>7, <2>1
    <2>4. t = [out EXCEPT ![n].results = @ \cup {m.answers}]
        BY <1>1, <1>3, <1>12 DEF Turned
    <2>5. PICK last : last = [out[n] EXCEPT !.results = @ \cup {m.answers}]
        OBVIOUS
    <2>6. last \in Turn /\ last.calls = {} /\ last.results = out[n].results \cup {m.answers}
        <3>1. out[n] \in Turn
            BY <1>6, <2>1
        <3> QED BY <1>4, <2>3, <2>5, <3>1 DEF Turn
    <2>7. t = [out EXCEPT ![n] = last]
        BY <2>4, <2>5
    <2>8. t \in Seq(Turn) /\ Len(t) = n /\ DOMAIN t = 1..n /\ t[n] = last
          /\ \A i \in 1..n : i # n => t[i] = out[i]
        BY <1>1, <2>1, <2>6, <2>7
    <2>9. last.results \cup rest = out[n].results \cup awaited /\ last.results # {}
        BY <2>1, <2>2, <2>6
    <2>10. ASSUME NEW i \in 1..n, t[i].calls # {}
           PROVE  IF i = n THEN t[i].calls = rest
                  ELSE /\ t[i + 1].results # {}
                       /\ t[i].calls = t[i + 1].results \cup IF i + 1 = n THEN rest ELSE {}
        <3>1. i # n /\ t[i] = out[i]
            BY <2>6, <2>8, <2>10
        <3>2. i + 1 \in 1..n
            BY <1>1, <3>1
        <3>3. out[i + 1].results # {} /\ out[i].calls = out[i + 1].results \cup IF i + 1 = n THEN awaited ELSE {}
            BY <1>7, <2>10, <3>1
        <3>4. CASE i + 1 = n
            BY <2>8, <2>9, <3>1, <3>3, <3>4
        <3>5. CASE i + 1 # n
            BY <2>8, <3>1, <3>2, <3>3, <3>5
        <3> QED BY <3>4, <3>5
    <2>11. ASSUME NEW i \in 1..n, t[i].results # {}
           PROVE  /\ i > 1 /\ t[i].calls = {}
                  /\ t[i - 1].calls = t[i].results \cup IF i = n THEN rest ELSE {}
        <3>1. CASE i = n
            <4>1. n - 1 \in 1..n /\ n - 1 # n
                BY <1>1, <2>3
            <4>2. t[n - 1] = out[n - 1]
                BY <2>8, <4>1
            <4> QED BY <2>3, <2>6, <2>8, <2>9, <3>1, <4>2
        <3>2. CASE i # n
            <4>1. t[i] = out[i]
                BY <2>8, <3>2
            <4>2. i > 1 /\ out[i].calls = {} /\ out[i - 1].calls = out[i].results
                BY <1>7, <2>11, <3>2, <4>1
            <4>3. i - 1 \in 1..n /\ i - 1 # n
                BY <1>1, <4>2
            <4> QED BY <2>8, <3>2, <4>1, <4>2, <4>3
        <3> QED BY <3>1, <3>2
    <2>12. rest # {} => t # <<>> /\ (t[n].calls = rest \/ t[n].results # {})
        BY <2>1, <2>8, <2>9
    <2> QED BY <2>8, <2>10, <2>11, <2>12 DEF PairedUpTo
<1> QED BY <1>10, <1>11, <1>12

(* The turns are turns, whatever the conversation.                         *)
LEMMA TurnsTyped ==
    ASSUME NEW s \in Seq(Spoken)
    PROVE  AnthropicTurns(s) \in Seq(Turn)
<1>1. PICK n \in Nat : n = Len(s) /\ DOMAIN s = 1..n
    OBVIOUS
<1>2. PICK f : TurnsRecursion(f, s) /\ AnthropicTurns(s) = f[n]
    BY <1>1, TurnsUnfold
<1>3. f[0] = <<>> /\ \A i \in 1..n : f[i] = Turned(f[i - 1], s[i])
    BY <1>1, <1>2 DEF TurnsRecursion
<1> DEFINE G == {k \in Nat : k <= n => f[k] \in Seq(Turn)}
<1>4. 0 \in G
    <2>1. <<>> \in Seq(Turn)
        OBVIOUS
    <2>2. f[0] \in Seq(Turn)
        BY <1>3, <2>1
    <2> QED BY <2>2
<1>5. ASSUME NEW k \in Nat, k \in G PROVE k + 1 \in G
    <2> SUFFICES ASSUME k + 1 <= n PROVE f[k + 1] \in Seq(Turn)
        OBVIOUS
    <2>1. k + 1 \in 1..n /\ (k + 1) - 1 = k /\ f[k] \in Seq(Turn)
        BY <1>1, <1>5
    <2>2. PICK m \in Spoken, out \in Seq(Turn) : m = s[k + 1] /\ out = f[k]
        BY <1>1, <2>1
    <2>3. f[k + 1] = Turned(out, m)
        BY <1>3, <2>1, <2>2
    <2>4. \A role \in Roles : Block(role, m) \in Turn
        <3>1. ToSet(m.calls) \subseteq Ids /\ m.answers \in Ids
            BY DEF Spoken, Msg, ToSet
        <3> QED BY <3>1 DEF Block, Turn
    <2>5. Append(out, Block(m.role, m)) \in Seq(Turn) /\ Append(out, Block("user", m)) \in Seq(Turn)
        <3>1. m.role \in Roles /\ "user" \in Roles
            BY DEF Spoken, Msg, Roles
        <3>2. Block(m.role, m) \in Turn /\ Block("user", m) \in Turn
            BY <2>4, <3>1
        <3> QED BY <3>2, AppendList
    <2>6. ASSUME out # <<>> PROVE [out EXCEPT ![Len(out)].results = @ \cup {m.answers}] \in Seq(Turn)
        <3>1. PICK last : last = [out[Len(out)] EXCEPT !.results = @ \cup {m.answers}]
            OBVIOUS
        <3>2. Len(out) \in 1..Len(out) /\ out[Len(out)] \in Turn
            BY <2>6
        <3>3. m.answers \in Ids
            BY DEF Spoken, Msg
        <3>4. last \in Turn
            BY <3>1, <3>2, <3>3 DEF Turn
        <3>5. [out EXCEPT ![Len(out)].results = @ \cup {m.answers}] = [out EXCEPT ![Len(out)] = last]
            BY <3>1
        <3>6. [out EXCEPT ![Len(out)] = last] \in Seq(Turn)
            BY <3>2, <3>4
        <3> QED BY <3>5, <3>6
    <2> QED BY <2>3, <2>5, <2>6 DEF Turned
<1> HIDE DEF G
<1>6. n \in G
    BY <1>4, <1>5, NaturalInduction
<1> QED BY <1>1, <1>2, <1>6 DEF G

(* A conversation whose calls and results are together as far as it goes.  *)
Conversed(list) ==
    list \in Seq(Msg) /\ PairedUpTo(Awaited(list), AnthropicTurns(Heard(list)))

(* It begins empty, and grows by what is due.                              *)
LEMMA TalkGrows ==
    ASSUME NEW list, Conversed(list), NEW m \in Msg,
           m.role = "tool" => m.answers \in Awaited(list),
           m.role # "tool" => Awaited(list) = {},
           m.role # "assistant" => m.calls = <<>>
    PROVE  Conversed(Append(list, m))
<1>1. list \in Seq(Msg) /\ PairedUpTo(Awaited(list), AnthropicTurns(Heard(list)))
    BY DEF Conversed
<1>2. PICK t : t = Append(list, m)
    OBVIOUS
<1>3. t \in Seq(Msg)
    BY <1>1, <1>2
<1>4. PICK H : H = Heard(list) /\ H \in Seq(Spoken)
    BY <1>1, HeardIsSpoken
<1>5. PICK awaited : awaited = Awaited(list)
    OBVIOUS
<1>6. Awaited(t) = IF m.role = "assistant" THEN ToSet(m.calls) ELSE awaited \ {m.answers}
    BY <1>1, <1>2, <1>5, AwaitedAppends
<1>7. CASE m.role = "system"
    <2>1. Heard(t) = H
        BY <1>1, <1>2, <1>4, <1>7, HeardAppends
    <2>2. awaited = {}
        BY <1>5, <1>7
    <2>3. Awaited(t) = awaited
        BY <1>6, <1>7, <2>2
    <2> QED BY <1>1, <1>2, <1>3, <1>4, <1>5, <2>1, <2>3 DEF Conversed
<1>8. CASE m.role # "system"
    <2>1. Heard(t) = Append(H, m) /\ m \in Spoken
        BY <1>1, <1>2, <1>4, <1>8, HeardAppends DEF Spoken
    <2>2. PICK out \in Seq(Turn) : out = AnthropicTurns(H)
        BY <1>4, TurnsTyped
    <2>3. AnthropicTurns(Heard(t)) = Turned(out, m)
        BY <1>4, <2>1, <2>2, TurnsAppend
    <2>4. PairedUpTo(awaited, out)
        BY <1>1, <1>4, <1>5, <2>2
    <2>5. m.role = "tool" => m.answers \in awaited
        BY <1>5
    <2>6. m.role # "tool" => awaited = {}
        BY <1>5
    <2>7. PairedUpTo(Awaited(t), Turned(out, m))
        BY <1>6, <2>1, <2>4, <2>5, <2>6, TurnedPaired
    <2> QED BY <1>2, <1>3, <2>3, <2>7 DEF Conversed
<1> QED BY <1>7, <1>8

(* The conversation nobody has begun is one an agent may have.             *)
LEMMA TalkBegins == Conversed(<<>>)
<1>1. PICK e : e = <<>>
    OBVIOUS
<1>2. e \in Seq(Msg) /\ DOMAIN e = {}
    BY <1>1
<1>3. Heard(e) = e
    BY <1>1, <1>2, HeardIsSpoken
<1>4. AnthropicTurns(e) = e
    <2>1. PICK m : m = Message("user", 1, <<>>, NoId)
        OBVIOUS
    <2>2. e \in Seq({m}) /\ m \in {m}
        BY <1>1
    <2> QED BY <1>1, <2>2, TurnsAppend
<1>5. Awaited(e) = {}
    BY <1>1 DEF Awaited
<1>6. PairedUpTo({}, e)
    BY <1>2 DEF PairedUpTo
<1> QED BY <1>1, <1>2, <1>3, <1>4, <1>5, <1>6 DEF Conversed

(* What an Anthropic model accepts.                                        *)
Paired(turns) ==
    /\ \A i \in DOMAIN turns : turns[i].calls # {} =>
           i < Len(turns) /\ turns[i + 1].results = turns[i].calls
    /\ \A i \in DOMAIN turns : turns[i].results # {} =>
           i > 1 /\ turns[i - 1].calls = turns[i].results

(* Turns are paired when nothing is awaited, and without a last turn that  *)
(* is only words, or with another.                                         *)
LEMMA AllPaired ==
    ASSUME NEW out \in Seq(Turn), PairedUpTo({}, out)
    PROVE  Paired(out)
BY DEF PairedUpTo, Paired

(* A turn of mere words stands where another one did, and turns stay paired *)
(* up to the last one.                                                     *)
LEMMA WordsPaired ==
    ASSUME NEW out \in Seq(Turn), NEW b \in Turn, NEW c \in Turn, Paired(Append(out, b)),
           b.calls = {}, b.results = {}, c.calls = {}, c.results = {}
    PROVE  Paired(out) /\ Paired(Append(out, c))
<1>1. PICK n \in Nat : n = Len(out) /\ DOMAIN out = 1..n
    OBVIOUS
<1>2. PICK t, u : t = Append(out, b) /\ u = Append(out, c)
    OBVIOUS
<1>3. /\ DOMAIN t = 1..n + 1 /\ Len(t) = n + 1 /\ t[n + 1] = b /\ \A i \in 1..n : t[i] = out[i]
      /\ DOMAIN u = 1..n + 1 /\ Len(u) = n + 1 /\ u[n + 1] = c /\ \A i \in 1..n : u[i] = out[i]
    BY <1>1, <1>2
<1>4. /\ \A i \in 1..n + 1 : t[i].calls # {} => i < n + 1 /\ t[i + 1].results = t[i].calls
      /\ \A i \in 1..n + 1 : t[i].results # {} => i > 1 /\ t[i - 1].calls = t[i].results
    BY <1>2, <1>3 DEF Paired
<1>5. ASSUME NEW i \in 1..n, out[i].calls # {}
      PROVE  i + 1 \in 1..n /\ i < n /\ out[i + 1].results = out[i].calls
    <2>1. i \in 1..n + 1 /\ t[i] = out[i]
        BY <1>1, <1>3
    <2>2. t[i + 1].results = out[i].calls
        BY <1>4, <1>5, <2>1
    <2>3. i # n
        BY <1>3, <1>5, <2>2
    <2>4. i + 1 \in 1..n /\ i < n
        BY <1>1, <2>3
    <2> QED BY <1>3, <2>2, <2>4
<1>6. ASSUME NEW i \in 1..n, out[i].results # {}
      PROVE  i > 1 /\ i - 1 \in 1..n /\ out[i - 1].calls = out[i].results
    <2>1. i \in 1..n + 1 /\ t[i] = out[i]
        BY <1>1, <1>3
    <2>2. i > 1 /\ t[i - 1].calls = out[i].results
        BY <1>4, <1>6, <2>1
    <2>3. i - 1 \in 1..n
        BY <1>1, <2>2
    <2> QED BY <1>3, <2>2, <2>3
<1>7. Paired(out)
    BY <1>1, <1>5, <1>6 DEF Paired
<1>8. \A i \in 1..n + 1 : i \in 1..n \/ i = n + 1
    BY <1>1
<1>9. ASSUME NEW i \in 1..n + 1, u[i].calls # {}
      PROVE  i < n + 1 /\ u[i + 1].results = u[i].calls
    <2>1. i \in 1..n /\ u[i] = out[i]
        BY <1>3, <1>8, <1>9
    <2>2. i + 1 \in 1..n /\ i < n /\ out[i + 1].results = out[i].calls
        BY <1>5, <1>9, <2>1
    <2> QED BY <1>3, <2>1, <2>2
<1>10. ASSUME NEW i \in 1..n + 1, u[i].results # {}
       PROVE  i > 1 /\ u[i - 1].calls = u[i].results
    <2>1. i \in 1..n /\ u[i] = out[i]
        BY <1>3, <1>8, <1>10
    <2>2. i > 1 /\ i - 1 \in 1..n /\ out[i - 1].calls = out[i].results
        BY <1>6, <1>10, <2>1
    <2> QED BY <1>3, <2>1, <2>2
<1>11. Paired(u)
    BY <1>3, <1>9, <1>10 DEF Paired
<1> QED BY <1>2, <1>7, <1>11

(* What the proxy reads of a conversation at the agent's turn: the history *)
(* is of messages, none of them instructions, and an Anthropic model       *)
(* accepts it.                                                             *)
LEMMA ReadFits ==
    ASSUME NEW list, Conversed(list), Awaited(list) = {}, list # <<>>,
           list[Len(list)].role \in {"user", "tool"}
    PROVE  /\ Parse(list).history \in Seq(Spoken) /\ "history" \in DOMAIN Parse(list)
           /\ Paired(AnthropicTurns(BuildMessages(Parse(list))))
<1>1. PICK n \in Nat : n = Len(list) /\ DOMAIN list = 1..n /\ n > 0
    BY DEF Conversed
<1>2. list \in Seq(Msg) /\ PairedUpTo({}, AnthropicTurns(Heard(list)))
    BY DEF Conversed
<1>3. PICK m \in Spoken : m = list[n] /\ m.role \in {"user", "tool"}
    BY <1>1, <1>2 DEF Spoken
<1>4. PICK rest \in Seq(Msg) : list = Append(rest, m)
    <2>1. PICK f : f = [i \in 1..n - 1 |-> list[i]]
        OBVIOUS
    <2>2. f \in Seq(Msg) /\ Len(f) = n - 1 /\ \A i \in 1..n - 1 : f[i] = list[i]
        BY <1>1, <1>2, <2>1
    <2>3. PICK t : t = Append(f, m)
        OBVIOUS
    <2>4. t \in Seq(Msg) /\ Len(t) = n /\ t[n] = m /\ \A i \in 1..n - 1 : t[i] = list[i]
        BY <1>1, <1>3, <2>2, <2>3 DEF Spoken
    <2>5. \A i \in 1..n : t[i] = list[i]
        BY <1>1, <1>3, <2>4
    <2>6. t = list
        BY <1>1, <1>2, <2>4, <2>5, SeqEqual
    <2> QED BY <2>2, <2>3, <2>6
<1>5. PICK H \in Seq(Spoken) : H = Heard(rest)
    BY <1>4, HeardIsSpoken
<1>6. PICK T : T = Append(H, m)
    OBVIOUS
<1>7. Heard(list) = T
    BY <1>3, <1>4, <1>5, <1>6, HeardAppends DEF Spoken
<1>8. T \in Seq(Spoken) /\ T # <<>> /\ Last(T) = m /\ Front(T) = H
    <2>1. T \in Seq(Spoken) /\ Len(T) = Len(H) + 1 /\ T[Len(H) + 1] = m /\ T # <<>>
        BY <1>5, <1>6
    <2>2. Last(T) = m
        BY <2>1 DEF Last
    <2>3. Front(T) = H
        <3>1. Front(T) = SubSeq(T, 1, Len(T) - 1)
            BY DEF Front
        <3>2. PICK s : s = SubSeq(T, 1, Len(H))
            OBVIOUS
        <3>3. Len(H) \in Nat /\ \A i \in 1..Len(H) : T[i] \in Spoken /\ T[i] = H[i]
            BY <1>5, <1>6
        <3>4. s \in Seq(Spoken) /\ Len(s) = Len(H) /\ \A i \in 1..Len(H) : s[i] = H[i]
            BY <2>1, <3>2, <3>3
        <3>5. s = H
            BY <1>5, <3>4, SeqEqual
        <3> QED BY <2>1, <3>1, <3>2, <3>3, <3>5
    <2> QED BY <2>1, <2>2, <2>3
<1>9. Parse(list) = IF m.role = "tool"
                    THEN [system |-> \E i \in DOMAIN list : list[i].role = "system", prompt |-> 0,
                          history |-> T]
                    ELSE [system |-> \E i \in DOMAIN list : list[i].role = "system", prompt |-> m.size,
                          history |-> H]
    BY <1>7, <1>8 DEF Parse, Heard
<1>10. PICK out \in Seq(Turn) : out = AnthropicTurns(H)
    BY TurnsTyped
<1>11. AnthropicTurns(T) = Turned(out, m)
    BY <1>6, <1>10, TurnsAppend
<1>12. Paired(AnthropicTurns(T))
    <2>1. AnthropicTurns(T) \in Seq(Turn)
        BY <1>8, TurnsTyped
    <2> QED BY <1>2, <1>7, <2>1, AllPaired
<1>13. CASE m.role = "tool"
    <2>1. PICK request : request = Parse(list)
        OBVIOUS
    <2>2. request.history = T /\ "history" \in DOMAIN request
        BY <1>9, <1>13, <2>1
    <2>3. BuildMessages(request) = T
        BY <1>8, <1>13, <2>2 DEF BuildMessages
    <2> QED BY <1>8, <1>12, <2>1, <2>2, <2>3
<1>14. CASE m.role # "tool"
    <2>1. PICK request : request = Parse(list)
        OBVIOUS
    <2>2. request.history = H /\ "history" \in DOMAIN request /\ request.prompt = m.size
        BY <1>9, <1>14, <2>1
    <2>3. m.role = "user" /\ m.size \in Nat /\ ToSet(m.calls) \subseteq Ids
        BY <1>3, <1>14 DEF Spoken, Msg, ToSet
    <2>4. PICK b : b = Block("user", m)
        OBVIOUS
    <2>5. b \in Turn /\ b.results = {} /\ b.calls = ToSet(m.calls)
        BY <1>14, <2>3, <2>4 DEF Block, Turn, Roles
    <2>6. AnthropicTurns(T) = Append(out, b)
        BY <1>11, <1>14, <2>3, <2>4 DEF Turned
    <2>7. b.calls = {}
        <3>1. PICK t, k : t = Append(out, b) /\ k = Len(out) + 1
            OBVIOUS
        <3>2. Len(t) = k /\ t[k] = b /\ k \in DOMAIN t
            BY <3>1
        <3>3. Paired(t)
            BY <1>12, <2>6, <3>1
        <3>4. t[k].calls # {} => k < Len(t)
            BY <3>2, <3>3 DEF Paired
        <3> QED BY <3>2, <3>4
    <2>8. PICK words : words = Says("user", m.size)
        OBVIOUS
    <2>9. words \in Spoken /\ words.role = "user" /\ words.calls = <<>>
        <3>1. words = [role |-> "user", size |-> m.size, calls |-> <<>>, answers |-> NoId]
            BY <2>8 DEF Says, Message
        <3>2. <<>> \in Seq(Ids) /\ NoId \in Ids
            BY DEF Ids
        <3> QED BY <2>3, <3>1, <3>2 DEF Spoken, Msg, Roles
    <2>10. PICK c : c = Block("user", words)
        OBVIOUS
    <2>11. c \in Turn /\ c.results = {} /\ c.calls = {}
        <3>1. ToSet(words.calls) = {}
            BY <2>9 DEF ToSet
        <3> QED BY <2>9, <2>10, <3>1 DEF Block, Turn, Roles
    <2>12. Paired(out) /\ Paired(Append(out, c))
        BY <1>12, <2>5, <2>6, <2>7, <2>11, WordsPaired
    <2>13. AnthropicTurns(Append(H, words)) = Append(out, c)
        <3>1. AnthropicTurns(Append(H, words)) = Turned(out, words)
            BY <1>10, <2>9, TurnsAppend
        <3> QED BY <2>9, <2>10, <3>1 DEF Turned
    <2>14. BuildMessages(request) = H \/ BuildMessages(request) = Append(H, words)
        BY <2>2, <2>8 DEF BuildMessages
    <2> QED BY <1>10, <2>1, <2>2, <2>12, <2>13, <2>14
<1> QED BY <1>13, <1>14

(* What is under way was made of the conversation as it still stands, at   *)
(* the agent's turn.                                                       *)
SentFits ==
    sent # Nothing =>
        /\ Awaited(talk) = {} /\ talk # <<>> /\ talk[Len(talk)].role \in {"user", "tool"}
        /\ sent.request = Parse(talk)
        /\ sent.short = Compress(sent.request)
        /\ sent.turns = Turns(sent.provider, sent.request)

DoorInv == Conversed(talk) /\ SentFits

(* The names of the state are those of the conversation.                   *)
LEMMA TalkNamed ==
    /\ Pending = Awaited(talk)
    /\ talk # <<>> => LastRole = talk[Len(talk)].role
    /\ talk = <<>> => LastRole = "nobody"
BY DEF Pending, Awaited, LastRole, Last

(* The calls that await a result are named by ids.                         *)
LEMMA AwaitedAreIds ==
    ASSUME NEW list \in Seq(Msg)
    PROVE  Awaited(list) \subseteq Ids
<1>1. PICK n \in Nat : n = Len(list) /\ DOMAIN list = 1..n
    OBVIOUS
<1>2. PICK replies : replies = {i \in DOMAIN list : list[i].role = "assistant"}
    OBVIOUS
<1>3. CASE replies # {}
    <2>1. replies \subseteq 0..n
        BY <1>1, <1>2
    <2>2. PICK top : top = Max(replies) /\ top \in replies
        BY <1>3, <2>1, MaxIsGreatest
    <2>3. list[top] \in Msg
        BY <1>2, <2>2
    <2>4. ToSet(list[top].calls) \subseteq Ids
        BY <2>3 DEF Msg, ToSet
    <2> QED BY <1>2, <1>3, <2>2, <2>4 DEF Awaited
<1>4. CASE replies = {}
    BY <1>2, <1>4 DEF Awaited
<1> QED BY <1>3, <1>4

(* Whatever is said is a message.                                          *)
LEMMA MadeMessage ==
    ASSUME NEW role \in Roles, NEW size \in Nat, NEW asked \in Seq(Ids), NEW answers \in Ids
    PROVE  LET m == Message(role, size, asked, answers)
           IN  m \in Msg /\ m.role = role /\ m.calls = asked /\ m.answers = answers
BY DEF Message, Msg

(* What the agent or a provider says in words is a message without calls.  *)
LEMMA SaidMessage ==
    ASSUME NEW role \in Roles, NEW size \in Nat
    PROVE  Says(role, size) \in Msg /\ Says(role, size).role = role /\ Says(role, size).calls = <<>>
<1>1. <<>> \in Seq(Ids) /\ NoId \in Ids
    BY DEF Ids
<1> QED BY <1>1 DEF Message, Says, Msg

(* The ids a provider gives its calls, its own or by their place, are ids. *)
LEMMA CallsAreIds ==
    ASSUME NEW provider, NEW turn \in Nat, NEW count \in Nat
    PROVE  CallIds(provider, turn, count) \in Seq(Ids)
<1>1. PICK zero \in Nat : zero = 0
    OBVIOUS
<1>2. \A i \in 1..count : <<turn, i>> \in Nat \X Nat /\ <<zero, i>> \in Nat \X Nat
    BY <1>1
<1>3. \A i \in 1..count : <<turn, i>> \in Ids /\ <<zero, i>> \in Ids
    BY <1>2 DEF Ids
<1>4. PICK f, g : f = [i \in 1..count |-> <<turn, i>>] /\ g = [i \in 1..count |-> <<zero, i>>]
    OBVIOUS
<1>5. f \in Seq(Ids) /\ g \in Seq(Ids)
    <2>1. f \in [1..count -> Ids] /\ g \in [1..count -> Ids]
        BY <1>3, <1>4
    <2> QED BY <2>1
<1>6. CallIds(provider, turn, count) = IF provider = "google" THEN g ELSE f
    BY <1>1, <1>4 DEF CallIds, PlaceIds, GivenIds
<1> QED BY <1>5, <1>6

(* Every step at the door keeps the invariant: what the agent adds and     *)
(* what a provider answers continue the conversation, and a post sends the *)
(* turns of the whole of it.                                               *)
LEMMA DoorInductive == DoorInv /\ [DoorNext]_door => DoorInv'
<1> SUFFICES ASSUME DoorInv, [DoorNext]_door
             PROVE  DoorInv'
    OBVIOUS
<1>1. Conversed(talk) /\ talk \in Seq(Msg) /\ Len(talk) \in Nat
    BY DEF DoorInv, Conversed
<1>2. ASSUME UNCHANGED <<talk, sent>> PROVE DoorInv'
    BY <1>2 DEF DoorInv, SentFits
<1>3. ASSUME NEW m \in Msg, talk' = Append(talk, m), sent' = Nothing,
             m.role = "tool" => m.answers \in Awaited(talk),
             m.role # "tool" => Awaited(talk) = {},
             m.role # "assistant" => m.calls = <<>>
      PROVE  DoorInv'
    <2>1. Conversed(Append(talk, m))
        BY <1>1, <1>3, TalkGrows
    <2> QED BY <1>3, <2>1 DEF DoorInv, SentFits
<1>4. sent # Nothing => /\ Awaited(talk) = {} /\ talk # <<>> /\ LastRole \in {"user", "tool"}
                        /\ Pending = {}
    BY TalkNamed DEF DoorInv, SentFits
<1>5. CASE Instruct
    <2>1. sent = Nothing /\ sent' = Nothing
        BY <1>4, <1>5, TalkNamed DEF Instruct
    <2>6. PICK one \in Nat : one = 1
        OBVIOUS
    <2>2. PICK m : m = Says("system", one)
        OBVIOUS
    <2>3. m \in Msg /\ m.role = "system" /\ m.calls = <<>>
        <3>1. "system" \in Roles
            BY DEF Roles
        <3> QED BY <2>2, <3>1, SaidMessage
    <2>4. talk' = Append(talk, m)
        BY <1>5, <2>2, <2>6 DEF Instruct
    <2>5. Awaited(talk) = {}
        BY <1>1, <1>5, AwaitedAppends DEF Instruct, Awaited
    <2> QED BY <1>3, <2>1, <2>3, <2>4, <2>5
<1>6. ASSUME NEW size \in Lengths, Speak(size) PROVE DoorInv'
    <2>1. PICK m : m = Says("user", size)
        OBVIOUS
    <2>2. m \in Msg /\ m.role = "user" /\ m.calls = <<>>
        <3>1. "user" \in Roles /\ size \in Nat
            BY DoorAssumption DEF Roles
        <3> QED BY <2>1, <3>1, SaidMessage
    <2>3. talk' = Append(talk, m) /\ sent' = Nothing /\ Awaited(talk) = {}
        BY <1>6, <2>1, TalkNamed DEF Speak
    <2> QED BY <1>3, <2>2, <2>3
<1>7. ASSUME NEW id \in Pending, Observe(id) PROVE DoorInv'
    <2>1. id \in Awaited(talk) /\ sent = Nothing
        BY <1>4, <1>7, TalkNamed
    <2>5. PICK none : none = <<>>
        OBVIOUS
    <2>6. PICK size : size = Max(Lengths)
        OBVIOUS
    <2>2. PICK m : m = Message("tool", size, none, id)
        OBVIOUS
    <2>3. m \in Msg /\ m.role = "tool" /\ m.calls = <<>> /\ m.answers = id
        <3>1. "tool" \in Roles /\ none \in Seq(Ids)
            BY <2>5 DEF Roles
        <3>2. size \in Nat
            <4>1. Lengths \subseteq Int
                BY DoorAssumption
            <4>2. Max(Lengths) \in Lengths
                BY <4>1, DoorAssumption, IntBounds
            <4> QED BY <2>6, <4>2, DoorAssumption
        <3>3. id \in Ids
            BY <1>1, <2>1, AwaitedAreIds
        <3>4. m \in Msg /\ m.role = "tool" /\ m.calls = none /\ m.answers = id
            BY <2>2, <3>1, <3>2, <3>3, MadeMessage
        <3> QED BY <2>5, <3>4
    <2>4. talk' = Append(talk, m) /\ sent' = Nothing
        BY <1>7, <2>1, <2>2, <2>5, <2>6 DEF Observe
    <2> QED BY <1>3, <2>1, <2>3, <2>4
<1>8. ASSUME NEW provider \in Families, Post(provider) PROVE DoorInv'
    <2>1. /\ Awaited(talk) = {} /\ talk # <<>> /\ talk[Len(talk)].role \in {"user", "tool"}
          /\ talk' = talk
        BY <1>8, TalkNamed DEF Post
    <2>2. PICK request : request = Parse(talk)
        OBVIOUS
    <2>3. sent' = [provider |-> provider, request |-> request, short |-> Compress(request),
                   turns |-> Turns(provider, request)]
        BY <1>8, <2>2 DEF Post
    <2>4. /\ sent'.provider = provider /\ sent'.request = request /\ sent'.short = Compress(request)
          /\ sent'.turns = Turns(provider, request)
        BY <2>3
    <2>5. SentFits'
        BY <2>1, <2>2, <2>4 DEF SentFits
    <2> QED BY <1>1, <2>1, <2>5 DEF DoorInv
<1>9. ASSUME NEW size \in Lengths, NEW count \in 0..MaxCalls, Reply(size, count) PROVE DoorInv'
    <2>1. PICK asked : asked = CallIds(sent.provider, Len(talk), count)
        OBVIOUS
    <2>2. PICK m : m = Message("assistant", size, asked, NoId)
        OBVIOUS
    <2>3. m \in Msg /\ m.role = "assistant"
        <3>1. "assistant" \in Roles /\ NoId \in Ids /\ size \in Nat /\ count \in Nat
            BY DoorAssumption DEF Roles, Ids
        <3>2. asked \in Seq(Ids)
            BY <1>1, <2>1, <3>1, CallsAreIds
        <3> QED BY <2>2, <3>1, <3>2, MadeMessage
    <2>4. talk' = Append(talk, m) /\ sent' = Nothing /\ Awaited(talk) = {}
        BY <1>4, <1>9, <2>1, <2>2 DEF Reply
    <2> QED BY <1>3, <2>3, <2>4
<1>10. CASE Fails
    BY <1>1, <1>10 DEF Fails, DoorInv, SentFits
<1>11. CASE UNCHANGED door
    BY <1>2, <1>11 DEF door
<1>12. ASSUME NEW key \in Keys, Refuse(key) \/ AdmitOther(key) PROVE DoorInv'
    BY <1>2, <1>12 DEF Refuse, AdmitOther
<1>13. CASE DoorTick
    BY <1>2, <1>13 DEF DoorTick
<1> QED BY <1>5, <1>6, <1>7, <1>8, <1>9, <1>10, <1>11, <1>12, <1>13 DEF DoorNext

(* The invariant holds throughout.                                         *)
LEMMA DoorInvariance == DoorSpec => []DoorInv
<1>1. DoorInit => DoorInv
    BY TalkBegins DEF DoorInit, DoorInv, SentFits
<1> QED BY <1>1, DoorInductive, PTL DEF DoorSpec

(* Whatever conversation an agent, its tools and providers of any family   *)
(* have had, the turns an Anthropic model is sent are such as it accepts   *)
(* (_openai_messages_to_anthropic): a fault in one conversion of many      *)
(* would be seen only by that provider, after just that history.           *)
THEOREM AnthropicAccepts == DoorSpec => []ToolTurnsPaired
<1>1. DoorInv => ToolTurnsPaired
    <2> SUFFICES ASSUME DoorInv, sent # Nothing, sent.provider = "anthropic"
                 PROVE  Paired(sent.turns)
        BY DEF ToolTurnsPaired, Paired
    <2>1. /\ Conversed(talk) /\ Awaited(talk) = {} /\ talk # <<>>
          /\ talk[Len(talk)].role \in {"user", "tool"}
        BY DEF DoorInv, SentFits
    <2>2. Paired(AnthropicTurns(BuildMessages(Parse(talk))))
        BY <2>1, ReadFits
    <2>3. sent.turns = Turns("anthropic", Parse(talk))
        BY DEF DoorInv, SentFits
    <2>4. Turns("anthropic", Parse(talk)) = AnthropicTurns(BuildMessages(Parse(talk)))
        BY DEF Turns
    <2> QED BY <2>2, <2>3, <2>4
<1> QED BY <1>1, DoorInvariance, PTL

(* The size of messages that are heard is a number; a note is not counted, *)
(* and two lists are as long as both.                                      *)
Counted(messages) ==
    MapThenSumSet(LAMBDA i : messages[i].size, {i \in DOMAIN messages : messages[i].role # "system"})

(* Of messages that are heard, none of them a note, every one is counted.  *)
LEMMA TokensSum ==
    ASSUME NEW s \in Seq(Spoken)
    PROVE  /\ Tokens(s) \in Nat
           /\ Tokens(s) = SumOver([i \in 1..Len(s) |-> s[i].size], 1..Len(s))
           /\ Counted(s) = Tokens(s)
<1>1. PICK n \in Nat : n = Len(s) /\ DOMAIN s = 1..n
    OBVIOUS
<1>2. PICK D, v : D = 1..n /\ D = DOMAIN s /\ v = [i \in DOMAIN s |-> s[i].size]
    BY <1>1
<1>3. IsFiniteSet(D)
    BY <1>2, FS_Interval
<1>4. \A i \in D : s[i] \in Spoken
    BY <1>1, <1>2
<1>5. \A i \in D : v[i] = s[i].size /\ v[i] \in Nat /\ s[i].role # "system"
    BY <1>2, <1>4 DEF Spoken, Msg
<1>6. SumOver(v, D) \in Nat
    BY <1>3, <1>5, SumNatural
<1>7. Tokens(s) = SumOver(v, D)
    <2>1. Tokens(s) = SumOver(v, DOMAIN s)
        BY <1>2 DEF Tokens, SumOver, MapThenSumSet, MapThenFoldSet
    <2> QED BY <1>2, <2>1
<1>8. {i \in DOMAIN s : s[i].role # "system"} = DOMAIN s
    BY <1>1, <1>2, <1>5
<1>9. Counted(s) = Tokens(s)
    BY <1>8 DEF Counted, Tokens
<1> QED BY <1>1, <1>2, <1>6, <1>7, <1>9

(* A note in front of two lists of such messages adds nothing.             *)
LEMMA CountedJoin ==
    ASSUME NEW note \in Seq(Msg), \A i \in DOMAIN note : note[i].role = "system",
           NEW a \in Seq(Spoken), NEW b \in Seq(Spoken)
    PROVE  Counted(note \o a \o b) = Tokens(a) + Tokens(b)
<1>1. PICK k \in Nat, m \in Nat, n \in Nat : k = Len(note) /\ m = Len(a) /\ n = Len(b)
    OBVIOUS
<1>2. DOMAIN note = 1..k /\ DOMAIN a = 1..m /\ DOMAIN b = 1..n
    BY <1>1
<1>3. a \in Seq(Msg) /\ b \in Seq(Msg)
    <2>1. Spoken \subseteq Msg
        BY DEF Spoken
    <2> QED BY <2>1
<1>4. PICK p : p = note \o a
    OBVIOUS
<1>5. /\ p \in Seq(Msg) /\ Len(p) = k + m
      /\ \A i \in 1..k : p[i] = note[i]
      /\ \A i \in k + 1..k + m : p[i] = a[i - k]
    BY <1>1, <1>3, <1>4
<1>6. PICK t : t = p \o b
    OBVIOUS
<1>7. /\ t \in Seq(Msg) /\ Len(t) = k + m + n
      /\ \A i \in 1..k + m : t[i] = p[i]
      /\ \A i \in k + m + 1..k + m + n : t[i] = b[i - (k + m)]
    <2>1. PICK q \in Nat : q = k + m
        OBVIOUS
    <2>2. /\ t \in Seq(Msg) /\ Len(t) = q + n
          /\ \A i \in 1..q + n : t[i] = IF i <= q THEN p[i] ELSE b[i - q]
        <3>1. p \in Seq(Msg) /\ b \in Seq(Msg) /\ Len(p) = q /\ Len(b) = n
            BY <1>1, <1>3, <1>5, <2>1
        <3>2. /\ p \o b \in Seq(Msg) /\ Len(p \o b) = Len(p) + Len(b)
              /\ \A i \in 1..Len(p) + Len(b) : (p \o b)[i] = IF i <= Len(p) THEN p[i] ELSE b[i - Len(p)]
            BY <3>1, ConcatProperties
        <3> QED BY <1>6, <3>1, <3>2
    <2>3. \A i \in 1..q : i \in 1..q + n /\ i <= q
        BY <1>1
    <2>4. \A i \in q + 1..q + n : i \in 1..q + n /\ ~(i <= q)
        BY <1>1
    <2> QED BY <2>1, <2>2, <2>3, <2>4
<1>8. DOMAIN t = 1..k + m + n
    BY <1>7
<1>9. PICK X, Y : X = k + 1..k + m /\ Y = k + m + 1..k + m + n
    OBVIOUS
<1>10. \A i \in 1..k : t[i].role = "system"
    <2>1. \A i \in 1..k : i \in 1..k + m /\ note[i].role = "system"
        BY <1>1, <1>2
    <2> QED BY <1>5, <1>7, <2>1
<1>11. \A i \in X : i - k \in 1..m /\ t[i] = a[i - k] /\ t[i].role # "system" /\ t[i].size \in Nat
    <2> SUFFICES ASSUME NEW i \in X
                 PROVE  i - k \in 1..m /\ t[i] = a[i - k] /\ t[i].role # "system" /\ t[i].size \in Nat
        OBVIOUS
    <2>1. i - k \in 1..m /\ i \in k + 1..k + m /\ i \in 1..k + m
        BY <1>1, <1>9
    <2>2. t[i] = a[i - k]
        BY <1>5, <1>7, <2>1
    <2>3. a[i - k] \in Spoken
        BY <1>1, <2>1
    <2> QED BY <2>1, <2>2, <2>3 DEF Spoken, Msg
<1>12. \A i \in Y : /\ i - (k + m) \in 1..n /\ t[i] = b[i - (k + m)] /\ t[i].role # "system"
                    /\ t[i].size \in Nat
    <2> SUFFICES ASSUME NEW i \in Y
                 PROVE  /\ i - (k + m) \in 1..n /\ t[i] = b[i - (k + m)] /\ t[i].role # "system"
                        /\ t[i].size \in Nat
        OBVIOUS
    <2>1. i - (k + m) \in 1..n /\ i \in k + m + 1..k + m + n
        BY <1>1, <1>9
    <2>2. t[i] = b[i - (k + m)]
        BY <1>7, <2>1
    <2>3. b[i - (k + m)] \in Spoken
        BY <1>1, <2>1
    <2> QED BY <2>1, <2>2, <2>3 DEF Spoken, Msg
<1>13. PICK W, v : W = {i \in DOMAIN t : t[i].role # "system"} /\ v = [i \in W |-> t[i].size]
    OBVIOUS
<1>14. W = X \cup Y /\ X \cap Y = {}
    <2>1. \A i \in 1..k + m + n : i \in 1..k \/ i \in X \/ i \in Y
        BY <1>1, <1>9
    <2>2. X \cup Y \subseteq 1..k + m + n /\ X \cap Y = {}
        BY <1>1, <1>9
    <2> QED BY <1>8, <1>10, <1>11, <1>12, <1>13, <2>1, <2>2
<1>15. Counted(t) = SumOver(v, W)
    <2>1. PICK u : u = [i \in {j \in DOMAIN t : t[j].role # "system"} |-> t[i].size]
        OBVIOUS
    <2>2. Counted(t) = SumOver(u, {i \in DOMAIN t : t[i].role # "system"})
        BY <2>1 DEF Counted, SumOver, MapThenSumSet, MapThenFoldSet
    <2> QED BY <1>13, <2>1, <2>2
<1>16. IsFiniteSet(X) /\ IsFiniteSet(Y)
    BY <1>9, FS_Interval
<1>17. SumOver(v, W) = SumOver(v, X) + SumOver(v, Y)
    <2>1. \A i \in X \cup Y : v[i] \in Int
        BY <1>11, <1>12, <1>13, <1>14
    <2>2. SumOver(v, X \cup Y) = SumOver(v, X) + SumOver(v, Y)
        BY <1>14, <1>16, <2>1, SumJoins
    <2> QED BY <1>14, <2>2
<1>18. Tokens(a) = SumOver(v, X)
    <2>1. PICK D, w, f : D = 1..m /\ w = [i \in D |-> a[i].size] /\ f = [i \in D |-> k + i]
        OBVIOUS
    <2>2. Tokens(a) = SumOver(w, D)
        BY <1>1, <2>1, TokensSum
    <2>3. IsFiniteSet(D)
        BY <2>1, FS_Interval
    <2>4. \A i \in D : f[i] = k + i /\ k + i \in X /\ (k + i) - k = i
        BY <1>1, <1>9, <2>1
    <2>5. \A i \in D : f[i] \in X /\ w[i] \in Int /\ v[f[i]] = w[i]
        <3> SUFFICES ASSUME NEW i \in D
                     PROVE  f[i] \in X /\ w[i] \in Int /\ v[f[i]] = w[i]
            OBVIOUS
        <3>1. PICK j \in X : j = f[i] /\ j - k = i
            BY <2>4
        <3>2. t[j] = a[i] /\ t[j].size \in Nat /\ j \in W
            BY <1>11, <1>14, <3>1
        <3>3. v[j] = t[j].size /\ w[i] = a[i].size
            BY <1>13, <2>1, <3>2
        <3> QED BY <3>1, <3>2, <3>3
    <2>6. \A i, j \in D : f[i] = f[j] => i = j
        BY <1>1, <2>1, <2>4
    <2>7. \A u \in X : u - k \in D /\ f[u - k] = u
        BY <1>1, <1>9, <2>1
    <2>8. Renames(f, D, X, v, w)
        BY <2>5, <2>6, <2>7 DEF Renames
    <2> QED BY <1>16, <2>2, <2>3, <2>8, SumRenames
<1>19. Tokens(b) = SumOver(v, Y)
    <2>1. PICK D, w, f : D = 1..n /\ w = [i \in D |-> b[i].size] /\ f = [i \in D |-> k + m + i]
        OBVIOUS
    <2>2. Tokens(b) = SumOver(w, D)
        BY <1>1, <2>1, TokensSum
    <2>3. IsFiniteSet(D)
        BY <2>1, FS_Interval
    <2>4. \A i \in D : f[i] = k + m + i /\ k + m + i \in Y /\ (k + m + i) - (k + m) = i
        BY <1>1, <1>9, <2>1
    <2>5. \A i \in D : f[i] \in Y /\ w[i] \in Int /\ v[f[i]] = w[i]
        <3> SUFFICES ASSUME NEW i \in D
                     PROVE  f[i] \in Y /\ w[i] \in Int /\ v[f[i]] = w[i]
            OBVIOUS
        <3>1. PICK j \in Y : j = f[i] /\ j - (k + m) = i
            BY <2>4
        <3>2. t[j] = b[i] /\ t[j].size \in Nat /\ j \in W
            BY <1>12, <1>14, <3>1
        <3>3. v[j] = t[j].size /\ w[i] = b[i].size
            BY <1>13, <2>1, <3>2
        <3> QED BY <3>1, <3>2, <3>3
    <2>6. \A i, j \in D : f[i] = f[j] => i = j
        BY <1>1, <2>1, <2>4
    <2>7. \A u \in Y : u - (k + m) \in D /\ f[u - (k + m)] = u
        BY <1>1, <1>9, <2>1
    <2>8. Renames(f, D, Y, v, w)
        BY <2>5, <2>6, <2>7 DEF Renames
    <2> QED BY <1>16, <2>2, <2>3, <2>8, SumRenames
<1> QED BY <1>4, <1>6, <1>15, <1>17, <1>18, <1>19

(* What is left of messages that are heard are such messages.              *)
LEMMA KeptSpoken ==
    ASSUME NEW s \in Seq(Spoken), NEW wanted
    PROVE  Only(s, wanted) \in Seq(Spoken)
BY WithoutList DEF Only

(* Messages without tool results, the long answers among them shortened,   *)
(* are still such messages.                                                *)
LEMMA ShrunkSpoken ==
    ASSUME NEW s \in Seq(Spoken)
    PROVE  Shrunk(s) \in Seq(Spoken)
<1>1. PICK kept : kept = Where(s, LAMBDA m : m.role # "tool")
    OBVIOUS
<1>2. kept \in Seq(Spoken)
    BY <1>1, KeptSpoken DEF Where
<1>3. PICK n \in Nat : n = Len(kept) /\ DOMAIN kept = 1..n
    BY <1>2
<1>4. PICK t : t = Shrunk(s)
    OBVIOUS
<1>5. t = [i \in 1..n |-> IF kept[i].role = "assistant" /\ kept[i].size > Long
                          THEN [kept[i] EXCEPT !.size = Truncated] ELSE kept[i]]
    BY <1>1, <1>3, <1>4 DEF Shrunk
<1>6. \A i \in 1..n : t[i] \in Spoken
    <2>1. \A i \in 1..n : kept[i] \in Spoken
        BY <1>2, <1>3
    <2>2. \A m \in Spoken : [m EXCEPT !.size = Truncated] \in Spoken
        BY MessagesAssumption DEF Spoken, Msg
    <2> QED BY <1>5, <2>1, <2>2
<1>7. t \in [1..n -> Spoken]
    BY <1>5, <1>6
<1> QED BY <1>4, <1>7

(* The cut fits the room there is, or nothing is left.                     *)
LEMMA CutFits ==
    ASSUME NEW s \in Seq(Spoken), NEW room \in Int
    PROVE  /\ Cut(s, room) \in Seq(Spoken)
           /\ Cut(s, room) = <<>> \/ Tokens(Cut(s, room)) <= room
<1>1. PICK n \in Nat : n = Len(s)
    OBVIOUS
<1>2. PICK fits : fits = {k \in 0..n : Tokens(SubSeq(s, k + 1, n)) <= room}
    OBVIOUS
<1>3. Cut(s, room) = IF fits = {} THEN <<>> ELSE SubSeq(s, Min(fits) + 1, n)
    BY <1>1, <1>2 DEF Cut
<1>4. CASE fits = {}
    BY <1>3, <1>4
<1>5. CASE fits # {}
    <2>1. IsFiniteSet(fits) /\ fits \subseteq Int
        <3>1. PICK z \in Int : z = 0
            OBVIOUS
        <3>2. IsFiniteSet(z..n)
            BY <1>1, FS_Interval
        <3>3. fits \subseteq z..n /\ z..n \subseteq Int
            BY <1>2, <3>1
        <3> QED BY <3>2, <3>3, FS_Subset
    <2>2. PICK k : k = Min(fits) /\ k \in fits
        BY <1>5, <2>1, IntBounds
    <2>3. k \in 0..n /\ Tokens(SubSeq(s, k + 1, n)) <= room
        BY <1>2, <2>2
    <2>4. SubSeq(s, k + 1, n) \in Seq(Spoken)
        <3>1. k + 1 \in Int /\ \A i \in k + 1..n : s[i] \in Spoken
            BY <1>1, <2>3
        <3> QED BY <1>1, <3>1, SubSeqProperties
    <2> QED BY <1>3, <1>5, <2>2, <2>3, <2>4
<1> QED BY <1>4, <1>5

(* The recent messages are all there, and what is left fits the target or  *)
(* nothing older is left.                                                  *)
Fits(old, new) ==
    LET recent == Min({PreserveRecent, Len(old)})
    IN  /\ SubSeq(new, Len(new) - recent + 1, Len(new)) = SubSeq(old, Len(old) - recent + 1, Len(old))
        /\ \/ \A i \in 1 .. Len(new) - recent : new[i].role = "system"
           \/ Counted(new) <= Target

(* Whatever is compressed fits: its recent messages are kept, and the rest *)
(* is within the target or gone (compress).                                *)
LEMMA CompressFits ==
    ASSUME NEW request, "history" \in DOMAIN request, request.history \in Seq(Spoken)
    PROVE  Fits(request.history, Compress(request).history)
<1>1. PICK whole \in Seq(Spoken) : whole = request.history
    OBVIOUS
<1>2. PICK n \in Nat : n = Len(whole) /\ DOMAIN whole = 1..n
    OBVIOUS
<1>3. PICK split : split = Max({0, n - PreserveRecent})
    OBVIOUS
<1>4. PICK r : r = Min({PreserveRecent, n})
    OBVIOUS
<1>5. /\ split \in Nat /\ r \in Nat /\ split + r = n
    <2>1. /\ PreserveRecent \in Nat \ {0} /\ n - PreserveRecent \in Int
          /\ PreserveRecent \in Int /\ n \in Int
        BY MessagesAssumption
    <2>2. PICK z \in Int : z = 0
        OBVIOUS
    <2>3. Max({z, n - PreserveRecent}) = IF z >= n - PreserveRecent THEN z ELSE n - PreserveRecent
        BY <2>1, PairBounds
    <2>4. Min({PreserveRecent, n}) = IF PreserveRecent <= n THEN PreserveRecent ELSE n
        BY <2>1, PairBounds
    <2> QED BY <1>3, <1>4, <2>1, <2>2, <2>3, <2>4
<1>6. PICK recent : recent = SubSeq(whole, split + 1, n)
    OBVIOUS
<1>7. /\ recent \in Seq(Spoken) /\ Len(recent) = r
      /\ \A i \in 1..r : recent[i] = whole[split + i]
    <2>1. \A i \in split + 1..n : whole[i] \in Spoken
        BY <1>2, <1>5
    <2>2. /\ recent \in Seq(Spoken) /\ Len(recent) = IF split + 1 <= n THEN n - (split + 1) + 1 ELSE 0
          /\ \A i \in 1..n - (split + 1) + 1 : recent[i] = whole[split + 1 + i - 1]
        BY <1>2, <1>5, <1>6, <2>1, SubSeqProperties
    <2>3. \A i \in 1..r : i \in 1..n - (split + 1) + 1 /\ split + 1 + i - 1 = split + i
        BY <1>2, <1>5
    <2> QED BY <1>2, <1>5, <2>2, <2>3
<1>8. SubSeq(whole, n - r + 1, n) = recent
    <2>1. n - r + 1 = split + 1
        BY <1>2, <1>5
    <2> QED BY <1>6, <2>1
<1>9. PICK old : old = SubSeq(whole, 1, split)
    OBVIOUS
<1>10. old \in Seq(Spoken)
    <2>1. split \in 0..Len(whole)
        BY <1>2, <1>5
    <2> QED BY <1>9, <2>1, PrefixList
<1>11. PICK pass1 : pass1 = Shrunk(old)
    OBVIOUS
<1>12. pass1 \in Seq(Spoken)
    BY <1>10, <1>11, ShrunkSpoken
<1>13. PICK room : room = Target - Tokens(recent)
    OBVIOUS
<1>14. room \in Int /\ Tokens(recent) \in Nat /\ Target \in Nat
    <2>1. Tokens(recent) \in Nat
        BY <1>7, TokensSum
    <2>2. Target \in Nat
        BY MessagesAssumption
    <2> QED BY <1>13, <2>1, <2>2
<1>15. PICK pass2 : pass2 = IF Tokens(pass1) <= room THEN pass1
                            ELSE Where(pass1, LAMBDA m : m.role = "user")
    OBVIOUS
<1>16. pass2 \in Seq(Spoken)
    BY <1>12, <1>15, KeptSpoken DEF Where
<1>17. PICK pass3 : pass3 = IF Tokens(pass2) <= room THEN pass2 ELSE Cut(pass2, room)
    OBVIOUS
<1>18. pass3 \in Seq(Spoken) /\ (pass3 = <<>> \/ Tokens(pass3) <= room)
    <2>1. CASE Tokens(pass2) <= room
        BY <1>16, <1>17, <2>1
    <2>2. CASE ~(Tokens(pass2) <= room)
        BY <1>14, <1>16, <1>17, <2>2, CutFits
    <2> QED BY <2>1, <2>2
<1>19. PICK note : note = IF Len(pass3) < split THEN <<Says("system", 1)>> ELSE <<>>
    OBVIOUS
<1>20. /\ note \in Seq(Msg) /\ Len(note) <= 1
       /\ \A i \in DOMAIN note : note[i].role = "system"
    <2>6. PICK one \in Nat : one = 1
        OBVIOUS
    <2>1. PICK m : m = Says("system", one)
        OBVIOUS
    <2>2. m \in Msg /\ m.role = "system"
        <3>1. "system" \in Roles
            BY DEF Roles
        <3> QED BY <2>1, <3>1, SaidMessage
    <2>3. <<m>> \in Seq(Msg) /\ Len(<<m>>) = 1 /\ \A i \in DOMAIN <<m>> : <<m>>[i] = m
        BY <2>2
    <2>4. CASE note = <<m>>
        BY <2>2, <2>3, <2>4
    <2>5. CASE note = <<>>
        BY <2>5
    <2> QED BY <1>19, <2>1, <2>4, <2>5, <2>6
<1>21. PICK new : new = note \o pass3 \o recent
    OBVIOUS
<1>22. Compress(request) = IF Tokens(whole) <= Target THEN request
                           ELSE [request EXCEPT !.history = new]
    BY <1>1, <1>2, <1>3, <1>6, <1>9, <1>11, <1>13, <1>15, <1>17, <1>19, <1>21 DEF Compress
<1>23. CASE Tokens(whole) <= Target
    <2>1. Counted(whole) <= Target
        BY <1>23, TokensSum
    <2> QED BY <1>1, <1>22, <1>23, <2>1 DEF Fits
<1>24. CASE ~(Tokens(whole) <= Target)
    <2>1. Compress(request).history = new
        BY <1>22, <1>24
    <2>2. PICK p : p = note \o pass3
        OBVIOUS
    <2>3. p \in Seq(Msg) /\ Len(p) = Len(note) + Len(pass3) /\ recent \in Seq(Msg)
        <3>1. pass3 \in Seq(Msg) /\ recent \in Seq(Msg)
            <4>1. Spoken \subseteq Msg
                BY DEF Spoken
            <4> QED BY <1>7, <1>18, <4>1
        <3> QED BY <1>20, <2>2, <3>1
    <2>4. PICK k \in Nat : k = Len(p)
        BY <2>3
    <2>5. /\ new \in Seq(Msg) /\ Len(new) = k + r
          /\ \A i \in 1..k + r : new[i] = IF i <= k THEN p[i] ELSE recent[i - k]
        <3>1. /\ p \o recent \in Seq(Msg) /\ Len(p \o recent) = Len(p) + Len(recent)
              /\ \A i \in 1..Len(p) + Len(recent) :
                     (p \o recent)[i] = IF i <= Len(p) THEN p[i] ELSE recent[i - Len(p)]
            BY <2>3, ConcatProperties
        <3> QED BY <1>7, <1>21, <2>2, <2>4, <3>1
    <2>6. SubSeq(new, Len(new) - r + 1, Len(new)) = recent
        <3>1. PICK s : s = SubSeq(new, k + 1, k + r)
            OBVIOUS
        <3>2. \A i \in k + 1..k + r : new[i] \in Msg
            BY <1>5, <2>4, <2>5
        <3>3. /\ s \in Seq(Msg) /\ Len(s) = IF k + 1 <= k + r THEN k + r - (k + 1) + 1 ELSE 0
              /\ \A i \in 1..k + r - (k + 1) + 1 : s[i] = new[k + 1 + i - 1]
            BY <1>5, <2>4, <3>1, <3>2, SubSeqProperties
        <3>4. Len(s) = r
            BY <1>5, <2>4, <3>3
        <3>5. \A i \in 1..r : s[i] = recent[i]
            <4> SUFFICES ASSUME NEW i \in 1..r PROVE s[i] = recent[i]
                OBVIOUS
            <4>1. i \in 1..k + r - (k + 1) + 1 /\ k + 1 + i - 1 = k + i /\ k + i \in 1..k + r
                  /\ ~(k + i <= k) /\ (k + i) - k = i
                BY <1>5, <2>4
            <4> QED BY <2>5, <3>3, <4>1
        <3>6. s = recent
            BY <1>7, <2>3, <3>3, <3>4, <3>5, SeqEqual
        <3>7. Len(new) = k + r /\ Len(new) - r + 1 = k + 1
            BY <1>5, <2>4, <2>5
        <3> QED BY <3>1, <3>6, <3>7
    <2>7. (\A i \in 1 .. Len(new) - r : new[i].role = "system") \/ Counted(new) <= Target
        <3>1. CASE pass3 = <<>>
            <4>1. p = note /\ DOMAIN note = 1..k
                BY <1>20, <2>2, <2>4, <3>1
            <4>2. Len(new) - r = k
                BY <1>5, <2>4, <2>5
            <4>3. \A i \in 1..k : i \in 1..k + r /\ i <= k
                BY <1>5, <2>4
            <4> QED BY <1>20, <2>5, <4>1, <4>2, <4>3
        <3>2. CASE Tokens(pass3) <= room
            <4>1. Counted(new) = Tokens(pass3) + Tokens(recent)
                BY <1>7, <1>18, <1>20, <1>21, CountedJoin
            <4>2. Tokens(pass3) \in Nat
                BY <1>18, TokensSum
            <4> QED BY <1>13, <1>14, <3>2, <4>1, <4>2
        <3> QED BY <1>18, <3>1, <3>2
    <2> QED BY <1>1, <1>2, <1>4, <1>8, <2>1, <2>6, <2>7 DEF Fits
<1> QED BY <1>23, <1>24

(* Whatever the agent's conversation and the sizes in it, what is left of  *)
(* it when the context is tight has all the recent messages, and fits or   *)
(* has no older ones (ContextCompressor.compress): three passes, each over *)
(* what the one before has left.                                           *)
THEOREM CompressionFits == DoorSpec => []CompressedFits
<1>1. DoorInv => CompressedFits
    <2> SUFFICES ASSUME DoorInv, sent # Nothing
                 PROVE  Fits(sent.request.history, sent.short.history)
        BY DEF CompressedFits, Fits, Counted
    <2>1. /\ Conversed(talk) /\ Awaited(talk) = {} /\ talk # <<>>
          /\ talk[Len(talk)].role \in {"user", "tool"}
        BY DEF DoorInv, SentFits
    <2>2. PICK request : request = Parse(talk) /\ request = sent.request
        BY DEF DoorInv, SentFits
    <2>3. request.history \in Seq(Spoken) /\ "history" \in DOMAIN request
        BY <2>1, <2>2, ReadFits
    <2>4. Fits(request.history, Compress(request).history)
        BY <2>3, CompressFits
    <2> QED BY <2>2, <2>4 DEF DoorInv, SentFits
<1> QED BY <1>1, DoorInvariance, PTL

(* At the door, whatever the agent says and providers answer, every step   *)
(* is one of the limiter's or none to it.                                  *)
THEOREM DoorImplements == DoorSpec => LimiterSpec
<1>1. DoorInit => LimiterInit
    BY DEF DoorInit
<1>2. [DoorNext]_door => [LimiterNext]_limiter
    <2> SUFFICES ASSUME [DoorNext]_door PROVE [LimiterNext]_limiter
        OBVIOUS
    <2>1. ASSUME NEW key \in Keys, NEW pass \in BOOLEAN, Check(key, pass) PROVE LimiterNext
        BY <2>1 DEF LimiterNext
    <2>2. ASSUME NEW provider \in Families, Post(provider) PROVE LimiterNext
        <3>1. Check(Agent, TRUE) /\ Agent \in Keys
            BY <2>2, LimiterAssumption DEF Post
        <3> QED BY <2>1, <3>1
    <2>3. ASSUME NEW key \in Keys, Refuse(key) \/ AdmitOther(key) PROVE LimiterNext
        <3>1. Check(key, FALSE) \/ Check(key, TRUE)
            BY <2>3 DEF Refuse, AdmitOther
        <3> QED BY <2>1, <3>1
    <2>4. CASE DoorTick
        BY <2>4 DEF DoorTick, LimiterNext
    <2>5. ASSUME Instruct \/ (\E size \in Lengths : Speak(size)) \/ (\E id \in Pending : Observe(id))
                 \/ (\E size \in Lengths, count \in 0..MaxCalls : Reply(size, count)) \/ Fails
          PROVE  UNCHANGED limiter
        BY <2>5 DEF Instruct, Speak, Observe, Reply, Fails
    <2>6. CASE UNCHANGED door
        BY <2>6 DEF door
    <2> QED BY <2>2, <2>3, <2>4, <2>5, <2>6 DEF DoorNext
<1> QED BY <1>1, <1>2, PTL DEF DoorSpec, LimiterSpec

(* So the promise and the bound of the limiter hold at the door.           *)
THEOREM DoorKeepsLimits == DoorSpec => []BurstBounded /\ PromiseKept
BY DoorImplements, BurstIsBounded, PromiseIsKept, PTL

-----------------------------------------------------------------------------
(* The run budget.                                                         *)
(* The types of the state the limits read.  The recency order is left out: *)
(* whichever run it names as the victim of an eviction, they hold.  What   *)
(* the store promises of the order itself is at the end, with StoreInv.    *)
Types == /\ runs \in [Runs -> Entry \cup {Absent}]
         /\ holding \in [Callers -> Slot \cup {Idle}]
         /\ foreign \in [Runs -> Nat]

(* What h steps in flight may cost, and the overshoot f foreign reports    *)
(* allow.                                                                  *)
Exposure(h) == h * MaxStepCost
Allowance(f) == (Cardinality(Callers) + f) * MaxStepCost

(* What is known of a run whose entry is e, of which h callers hold slots, *)
(* and which took f foreign reports.  A pending slot has a holder, a       *)
(* holder has a pending slot unless a foreign report took it, and so the   *)
(* steps a check lets through are counted but for those taken.             *)
RunOK(e, h, f) ==
    /\ e = Absent => h = 0
    /\ e # Absent =>
         /\ e.pending <= h
         /\ h <= e.pending + f
         /\ e.limits.steps >= 0 => e.steps + h <= e.limits.steps + f
         /\ e.limits.cost >= 0 => e.cost + Exposure(h) <= e.limits.cost + Allowance(f)

IInv == Types /\ \A r \in Runs : RunOK(runs[r], InFlight(r), foreign[r])

-----------------------------------------------------------------------------
(* The number of a run's holders is a natural number, at most the number   *)
(* of callers, and strictly below it while some caller holds nothing of it.*)
LEMMA HoldersFinite ==
    ASSUME NEW r
    PROVE  /\ IsFiniteSet(Holders(r)) /\ InFlight(r) \in Nat
           /\ Cardinality(Callers) \in Nat /\ InFlight(r) <= Cardinality(Callers)
           /\ \A c \in Callers \ Holders(r) : InFlight(r) + 1 <= Cardinality(Callers)
<1>1. Holders(r) \subseteq Callers
  BY DEF Holders
<1>2. IsFiniteSet(Holders(r)) /\ Cardinality(Holders(r)) <= Cardinality(Callers)
  BY <1>1, CallersAssumption, FS_Subset
<1>3. Cardinality(Holders(r)) \in Nat /\ Cardinality(Callers) \in Nat
  BY <1>2, CallersAssumption, FS_CardinalityType
<1>4. ASSUME NEW c \in Callers \ Holders(r)
      PROVE  Cardinality(Holders(r)) + 1 <= Cardinality(Callers)
  <2>1. Holders(r) \cup {c} \subseteq Callers
    BY <1>1
  <2>2. Cardinality(Holders(r) \cup {c}) = Cardinality(Holders(r)) + 1
    BY <1>2, FS_AddElement
  <2>3. Cardinality(Holders(r) \cup {c}) <= Cardinality(Callers)
    BY <2>1, CallersAssumption, FS_Subset
  <2> QED  BY <2>2, <2>3
<1> QED  BY <1>2, <1>3, <1>4 DEF InFlight

(* One more step in flight, and one more foreign report, each weigh at     *)
(* most MaxStepCost.                                                       *)
LEMMA Products ==
    ASSUME NEW h \in Nat, NEW f \in Nat
    PROVE  /\ Exposure(h) \in Nat /\ Allowance(f) \in Nat
           /\ Exposure(h + 1) = Exposure(h) + MaxStepCost
           /\ Allowance(f + 1) = Allowance(f) + MaxStepCost
           /\ h <= Cardinality(Callers) => Exposure(h) <= Allowance(f)
<1> DEFINE n == Cardinality(Callers)
<1>1. n \in Nat
  BY CallersAssumption, FS_CardinalityType
<1>2. MaxStepCost \in Nat
  BY StepCostAssumption
<1> HIDE DEF n
<1>3. /\ h * MaxStepCost \in Nat /\ (n + f) * MaxStepCost \in Nat
      /\ (h + 1) * MaxStepCost = h * MaxStepCost + MaxStepCost
      /\ (n + (f + 1)) * MaxStepCost = (n + f) * MaxStepCost + MaxStepCost
      /\ h <= n => h * MaxStepCost <= (n + f) * MaxStepCost
  BY <1>1, <1>2
<1> QED  BY <1>3 DEF Exposure, Allowance, n

-----------------------------------------------------------------------------
(* What each method does to one run.                                       *)

(* A new run is within its limits whatever was lost before it.             *)
LEMMA NewOK ==
    ASSUME NEW limits \in Limits, NEW f \in Nat
    PROVE  NewEntry(limits) \in Entry /\ RunOK(NewEntry(limits), 0, f)
<1>1. NewEntry(limits) \in Entry
  BY StoreAssumption DEF NewEntry, Entry
<1>2. NewEntry(limits) # Absent
  BY <1>1, MarkersAssumption
<1>3. Exposure(0) <= Allowance(f) /\ Exposure(0) \in Nat /\ Allowance(f) \in Nat
  <2>1. 0 \in Nat /\ Cardinality(Callers) \in Nat /\ 0 <= Cardinality(Callers)
    BY CallersAssumption, FS_CardinalityType
  <2> QED  BY <2>1, Products
<1>4. /\ NewEntry(limits).pending = 0 /\ NewEntry(limits).steps = 0
      /\ NewEntry(limits).cost = 0 /\ NewEntry(limits).limits = limits
      /\ limits.steps \in Int /\ limits.cost \in Int
  BY DEF NewEntry, Limits
<1> QED  BY <1>1, <1>2, <1>3, <1>4 DEF RunOK

(* A check refreshes the run, and takes one slot if it lets the caller     *)
(* through.                                                                *)
LEMMA ReserveEffect ==
    ASSUME NEW e \in Entry
    PROVE  /\ Reserve(e) \in Entry /\ e # Absent /\ Reserve(e) # Absent
           /\ Reserve(e).limits = e.limits /\ Reserve(e).steps = e.steps
           /\ Reserve(e).cost = e.cost
           /\ Reserve(e).pending = IF Exceeded(e) THEN e.pending ELSE e.pending + 1
<1>1. e.pending + 1 \in Nat /\ 0 \in 0..TTL + 1
  BY StoreAssumption DEF Entry
<1>2. CASE Exceeded(e)
  <2>1. Reserve(e) = [e EXCEPT !.idle = 0]
    BY <1>2 DEF Reserve
  <2>2. Reserve(e) \in Entry
    BY <1>1, <2>1 DEF Entry
  <2> QED  BY <1>2, <2>1, <2>2, MarkersAssumption DEF Entry
<1>3. CASE ~Exceeded(e)
  <2>1. Reserve(e) = [[e EXCEPT !.idle = 0] EXCEPT !.pending = e.pending + 1]
    BY <1>3 DEF Reserve, Entry
  <2>2. Reserve(e) \in Entry
    BY <1>1, <2>1 DEF Entry
  <2> QED  BY <1>3, <2>1, <2>2, MarkersAssumption DEF Entry
<1> QED  BY <1>2, <1>3

(* A reservation is granted only within the limits, and one caller more    *)
(* holds it.                                                               *)
LEMMA ReserveOK ==
    ASSUME NEW e \in Entry, NEW h \in Nat, NEW f \in Nat, RunOK(e, h, f)
    PROVE  /\ Exceeded(e) => RunOK(Reserve(e), h, f)
           /\ ~Exceeded(e) /\ h + 1 <= Cardinality(Callers) => RunOK(Reserve(e), h + 1, f)
<1>1. CASE Exceeded(e)
  BY <1>1, ReserveEffect DEF RunOK
<1>2. CASE ~Exceeded(e) /\ h + 1 <= Cardinality(Callers)
  <2>1. e.pending \in Nat /\ e.steps \in Nat /\ e.cost \in Nat
        /\ e.limits.steps \in Int /\ e.limits.cost \in Int
    BY DEF Entry, Limits
  <2>2. e.limits.steps >= 0 => e.steps + e.pending < e.limits.steps
    BY <1>2, <2>1 DEF Exceeded, Reached
  <2>3. e.limits.cost >= 0 => e.cost < e.limits.cost
    BY <1>2, <2>1 DEF Exceeded, Reached
  <2>4. Exposure(h + 1) \in Nat /\ Allowance(f) \in Nat /\ Exposure(h + 1) <= Allowance(f)
    BY <1>2, Products
  <2>5. h <= e.pending + f /\ e.pending <= h
    BY ReserveEffect DEF RunOK
  <2> QED  BY <1>2, <2>1, <2>2, <2>3, <2>4, <2>5, ReserveEffect DEF RunOK
<1> QED  BY <1>1, <1>2

(* A report gives back one slot, and a record counts one step.             *)
LEMMA ReportEffect ==
    ASSUME NEW e \in Entry
    PROVE  /\ Release(e) \in Entry /\ Release(e) # Absent /\ e # Absent
           /\ Release(e).limits = e.limits /\ Release(e).steps = e.steps
           /\ Release(e).cost = e.cost /\ Release(e).pending = Unreserved(e)
           /\ \A size \in StepSizes :
                /\ Record(e, size) \in Entry /\ Record(e, size) # Absent
                /\ Record(e, size).limits = e.limits /\ Record(e, size).steps = e.steps + 1
                /\ Record(e, size).cost = e.cost + size.cost
                /\ Record(e, size).pending = Unreserved(e)
           /\ Unreserved(e) \in Nat
<1>1. Unreserved(e) \in Nat /\ 0 \in 0..TTL + 1
  BY StoreAssumption DEF Unreserved, Entry
<1>2. Release(e) \in Entry
  BY <1>1 DEF Release, Entry
<1>3. ASSUME NEW size \in StepSizes
      PROVE  /\ Record(e, size) \in Entry
             /\ Record(e, size).limits = e.limits /\ Record(e, size).steps = e.steps + 1
             /\ Record(e, size).cost = e.cost + size.cost
             /\ Record(e, size).pending = Unreserved(e)
  <2>1. size.cost \in Nat /\ size.tokens \in Nat
    BY LimitsAssumption DEF Sizes
  <2>2. e.steps + 1 \in Nat /\ e.cost + size.cost \in Nat /\ e.tokens + size.tokens \in Nat
    BY <2>1 DEF Entry
  <2> QED  BY <1>1, <2>2 DEF Record, Entry
<1> QED  BY <1>1, <1>2, <1>3, MarkersAssumption DEF Release, Entry

(* A report from a holder of the present incarnation leaves one holder     *)
(* less; any other one counts as foreign.                                  *)
LEMMA ReportOK ==
    ASSUME NEW e \in Entry, NEW h \in Nat, NEW f \in Nat
    PROVE  /\ RunOK(e, h + 1, f) =>
                /\ RunOK(Release(e), h, f)
                /\ \A size \in StepSizes : RunOK(Record(e, size), h, f)
           /\ RunOK(e, h, f) =>
                /\ RunOK(Release(e), h, f + 1)
                /\ \A size \in StepSizes : RunOK(Record(e, size), h, f + 1)
<1>1. e.pending \in Nat /\ e.steps \in Nat /\ e.cost \in Nat
      /\ e.limits.steps \in Int /\ e.limits.cost \in Int
  BY DEF Entry, Limits
<1>2. /\ Exposure(h) \in Nat /\ Allowance(f) \in Nat
      /\ Exposure(h + 1) = Exposure(h) + MaxStepCost
      /\ Allowance(f + 1) = Allowance(f) + MaxStepCost
      /\ MaxStepCost \in Nat
      /\ \A size \in StepSizes : size.cost \in Nat /\ size.cost <= MaxStepCost
  BY Products, StepCostAssumption, LimitsAssumption DEF Sizes
<1>3. Unreserved(e) = IF e.pending > 0 THEN e.pending - 1 ELSE 0
  BY DEF Unreserved
<1>4. ASSUME RunOK(e, h + 1, f) PROVE RunOK(Release(e), h, f)
  BY <1>1, <1>2, <1>3, <1>4, ReportEffect DEF RunOK
<1>5. ASSUME RunOK(e, h + 1, f), NEW size \in StepSizes PROVE RunOK(Record(e, size), h, f)
  BY <1>1, <1>2, <1>3, <1>5, ReportEffect DEF RunOK
<1>6. ASSUME RunOK(e, h, f) PROVE RunOK(Release(e), h, f + 1)
  BY <1>1, <1>2, <1>3, <1>6, ReportEffect DEF RunOK
<1>7. ASSUME RunOK(e, h, f), NEW size \in StepSizes PROVE RunOK(Record(e, size), h, f + 1)
  BY <1>1, <1>2, <1>3, <1>7, ReportEffect DEF RunOK
<1> QED  BY <1>4, <1>5, <1>6, <1>7

-----------------------------------------------------------------------------
(* What the operations on the store and on the slots do to one run.        *)

HoldersIn(slots, r) == {c \in Callers : slots[c] = [run |-> r, stale |-> FALSE]}

Entries == [Runs -> Entry \cup {Absent}]

(* Putting an entry may evict another run and changes no other.            *)
LEMMA PutEffect ==
    ASSUME NEW store, store.runs \in Entries, NEW r \in Runs, NEW e \in Entry
    PROVE  /\ Put(store, r, e).runs \in Entries
           /\ Put(store, r, e).runs[r] = e
           /\ \A q \in Runs \ {r} : Put(store, r, e).runs[q] \in {store.runs[q], Absent}
<1> DEFINE full == ~Stored(store, r) /\ Len(store.order) >= MaxEntries
           kept == IF full THEN Drop(store, {Head(store.order)}) ELSE store
<1>1. kept.runs \in Entries /\ \A q \in Runs : kept.runs[q] \in {store.runs[q], Absent}
  BY DEF Drop, Entries
<1>2. Put(store, r, e).runs = [kept.runs EXCEPT ![r] = e]
  BY DEF Put
<1> HIDE DEF kept
<1> QED  BY <1>1, <1>2 DEF Entries

(* What dropping runs does to the store.                                   *)
LEMMA DropEffect ==
    ASSUME NEW store, store.runs \in Entries, NEW gone
    PROVE  /\ Drop(store, gone).runs \in Entries
           /\ \A q \in Runs : Drop(store, gone).runs[q] =
                                IF q \in gone THEN Absent ELSE store.runs[q]
  BY DEF Drop, Entries

(* The slots of dropped runs are stale, the others stay as they are.       *)
LEMMA StaledEffect ==
    ASSUME NEW slots \in [Callers -> Slot \cup {Idle}], NEW gone
    PROVE  /\ Staled(slots, gone) \in [Callers -> Slot \cup {Idle}]
           /\ \A c \in Callers : Staled(slots, gone)[c] = Idle <=> slots[c] = Idle
           /\ \A q \in Runs : HoldersIn(Staled(slots, gone), q) =
                                IF q \in gone THEN {} ELSE HoldersIn(slots, q)
<1>1. ASSUME NEW c \in Callers
      PROVE  /\ Staled(slots, gone)[c] \in Slot \cup {Idle}
             /\ Staled(slots, gone)[c] = Idle <=> slots[c] = Idle
             /\ \A q \in Runs : Staled(slots, gone)[c] = [run |-> q, stale |-> FALSE]
                                <=> q \notin gone /\ slots[c] = [run |-> q, stale |-> FALSE]
  <2>1. CASE slots[c] # Idle /\ slots[c].run \in gone
    <3>1. Staled(slots, gone)[c] = [slots[c] EXCEPT !.stale = TRUE]
      BY <2>1 DEF Staled
    <3>2. slots[c] \in Slot
      BY <2>1
    <3>3. Staled(slots, gone)[c] \in Slot /\ Staled(slots, gone)[c].stale = TRUE
      BY <3>1, <3>2 DEF Slot
    <3>4. \A q \in Runs : slots[c] = [run |-> q, stale |-> FALSE] => q \in gone
      BY <2>1
    <3> QED  BY <2>1, <3>3, <3>4, MarkersAssumption
  <2>2. CASE ~(slots[c] # Idle /\ slots[c].run \in gone)
    <3>1. Staled(slots, gone)[c] = slots[c]
      BY <2>2 DEF Staled
    <3>2. ASSUME NEW q \in Runs, slots[c] = [run |-> q, stale |-> FALSE] PROVE q \notin gone
      <4>1. [run |-> q, stale |-> FALSE] \in Slot /\ slots[c].run = q
        BY <3>2 DEF Slot
      <4> QED  BY <2>2, <3>2, <4>1, MarkersAssumption
    <3> QED  BY <3>1, <3>2
  <2> QED  BY <2>1, <2>2
<1>2. Staled(slots, gone) \in [Callers -> Slot \cup {Idle}]
  BY <1>1 DEF Staled
<1> QED  BY <1>1, <1>2 DEF HoldersIn

(* A run that no step of its own touched: it keeps its entry and holders,  *)
(* or loses both together.                                                 *)
LEMMA BystanderOK ==
    ASSUME IInv, NEW q \in Runs, NEW gone, NEW e,
           e \in {runs[q], Absent},
           runs[q] # Absent => (q \in gone <=> e = Absent)
    PROVE  RunOK(e, Cardinality(IF q \in gone THEN {} ELSE HoldersIn(holding, q)),
                 Forgotten(foreign, gone)[q])
<1>1. RunOK(runs[q], Cardinality(HoldersIn(holding, q)), foreign[q])
  BY DEF IInv, InFlight, Holders, HoldersIn
<1>2. Cardinality({}) = 0
  BY FS_EmptySet
<1>3. CASE q \in gone /\ e = Absent
  BY <1>2, <1>3 DEF RunOK
<1>4. CASE q \in gone /\ e # Absent
  BY <1>4
<1>5. CASE q \notin gone /\ e = runs[q]
  BY <1>1, <1>5 DEF Forgotten
<1>6. CASE q \notin gone /\ e # runs[q]
  BY <1>6, <1>1, <1>2 DEF RunOK
<1> QED  BY <1>3, <1>4, <1>5, <1>6

-----------------------------------------------------------------------------
(* Each action keeps the invariant.                                        *)

(* Starting a run drops its old entry and whatever the store has no room   *)
(* for.                                                                    *)
LEMMA StartOK ==
    ASSUME IInv, NEW r \in Runs, NEW limits \in StartLimits, Start(r, limits)
    PROVE  IInv'
<1> DEFINE store == Put(current, r, NewEntry(limits))
           gone == Lost(store) \cup {r}
<1>1. limits \in Limits /\ NewEntry(limits) \in Entry /\ current.runs = runs
      /\ current.runs \in Entries
  BY LimitsAssumption, NewOK DEF current, IInv, Types, Entries
<1>2. /\ store.runs \in Entries /\ store.runs[r] = NewEntry(limits)
      /\ \A q \in Runs \ {r} : store.runs[q] \in {runs[q], Absent}
  BY <1>1, PutEffect
<1>3. runs' = store.runs /\ holding' = Staled(holding, gone) /\ foreign' = Forgotten(foreign, gone)
  BY DEF Start
<1>4. holding \in [Callers -> Slot \cup {Idle}] /\ foreign \in [Runs -> Nat]
  BY DEF IInv, Types
<1> HIDE DEF store
<1>5. Types'
  BY <1>2, <1>3, <1>4, StaledEffect DEF Types, Entries, Forgotten
<1>6. ASSUME NEW q \in Runs PROVE RunOK(runs'[q], InFlight(q)', foreign'[q])
  <2>1. InFlight(q)' = Cardinality(IF q \in gone THEN {} ELSE HoldersIn(holding, q))
    <3>1. HoldersIn(holding', q) = IF q \in gone THEN {} ELSE HoldersIn(holding, q)
      BY <1>3, <1>4, StaledEffect
    <3>2. InFlight(q)' = Cardinality(HoldersIn(holding', q))
      BY DEF InFlight, Holders, HoldersIn
    <3> QED  BY <3>1, <3>2
  <2>2. CASE q = r
    <3>1. InFlight(q)' = 0 /\ foreign'[q] = 0 /\ runs'[q] = NewEntry(limits)
      BY <1>2, <1>3, <2>1, <2>2, FS_EmptySet DEF Forgotten
    <3> QED  BY <3>1, <1>1, NewOK
  <2>3. CASE q # r
    <3>1. runs[q] # Absent => (q \in gone <=> runs'[q] = Absent)
      BY <1>3, <2>3 DEF Lost
    <3> QED  BY <1>2, <1>3, <2>1, <2>3, <3>1, BystanderOK
  <2> QED  BY <2>2, <2>3
<1> QED  BY <1>5, <1>6 DEF IInv

(* Finishing a run makes the slots of its callers stale.                   *)
LEMMA FinishOK ==
    ASSUME IInv, NEW r \in Runs, Finish(r)
    PROVE  IInv'
<1>1. current.runs = runs /\ current.runs \in Entries
  BY DEF current, IInv, Types, Entries
<1>2. /\ runs' \in Entries
      /\ \A q \in Runs : runs'[q] = IF q \in {r} THEN Absent ELSE runs[q]
      /\ holding' = Staled(holding, {r}) /\ foreign' = Forgotten(foreign, {r})
  BY <1>1, DropEffect DEF Finish
<1>3. holding \in [Callers -> Slot \cup {Idle}] /\ foreign \in [Runs -> Nat]
  BY DEF IInv, Types
<1>4. Types'
  BY <1>2, <1>3, StaledEffect DEF Types, Entries, Forgotten
<1>5. ASSUME NEW q \in Runs PROVE RunOK(runs'[q], InFlight(q)', foreign'[q])
  <2>1. InFlight(q)' = Cardinality(IF q \in {r} THEN {} ELSE HoldersIn(holding, q))
    <3>1. HoldersIn(holding', q) = IF q \in {r} THEN {} ELSE HoldersIn(holding, q)
      BY <1>2, <1>3, StaledEffect
    <3>2. InFlight(q)' = Cardinality(HoldersIn(holding', q))
      BY DEF InFlight, Holders, HoldersIn
    <3> QED  BY <3>1, <3>2
  <2>2. runs[q] # Absent => (q \in {r} <=> runs'[q] = Absent)
    BY <1>2
  <2> QED  BY <1>2, <2>1, <2>2, BystanderOK
<1> QED  BY <1>4, <1>5 DEF IInv

(* A check sweeps when it is due, then reserves in the run it finds or     *)
(* makes.                                                                  *)
LEMMA CheckOK ==
    ASSUME IInv, NEW c \in Callers, NEW r \in Runs, CheckBeforeDispatch(c, r)
    PROVE  IInv'
<1> DEFINE due == calls + 1 = HousekeepInterval
           swept == IF due THEN Sweep(current) ELSE current
           e == Get(swept, r)
           store == Put(swept, r, Reserve(e))
           gone == Lost(swept) \cup Lost(store)
           slots == Staled(holding, gone)
           mine == [run |-> r, stale |-> FALSE]
<1>1. /\ holding[c] = Idle /\ runs' = store.runs
      /\ holding' = IF Exceeded(e) THEN slots ELSE [slots EXCEPT ![c] = mine]
      /\ foreign' = Forgotten(foreign, gone)
  BY DEF CheckBeforeDispatch
<1>2. /\ holding \in [Callers -> Slot \cup {Idle}] /\ foreign \in [Runs -> Nat]
      /\ runs \in Entries
  BY DEF IInv, Types, Entries
<1>3. swept.runs \in Entries /\ \A q \in Runs : swept.runs[q] \in {runs[q], Absent}
  <2>1. current.runs = runs
    BY DEF current
  <2> QED  BY <1>2, <2>1, DropEffect DEF Sweep
<1> HIDE DEF swept
<1>4. e \in Entry
  BY <1>3, NewOK, LimitsAssumption DEF Get, Stored, Entries
<1>5. Reserve(e) \in Entry /\ Reserve(e) # Absent
  BY <1>4, ReserveEffect
<1>6. /\ store.runs \in Entries /\ store.runs[r] = Reserve(e)
      /\ \A q \in Runs \ {r} : store.runs[q] \in {swept.runs[q], Absent}
  BY <1>3, <1>5, PutEffect
<1> HIDE DEF store
<1>7. /\ slots \in [Callers -> Slot \cup {Idle}] /\ slots[c] = Idle
      /\ \A q \in Runs : HoldersIn(slots, q) = IF q \in gone THEN {} ELSE HoldersIn(holding, q)
  <2>1. holding[c] = Idle /\ holding \in [Callers -> Slot \cup {Idle}]
    BY <1>1, <1>2
  <2> HIDE DEF gone
  <2>2. /\ slots \in [Callers -> Slot \cup {Idle}]
        /\ \A q \in Runs : HoldersIn(slots, q) = IF q \in gone THEN {} ELSE HoldersIn(holding, q)
    BY <2>1, StaledEffect
  <2>3. slots[c] = Idle
    BY <2>1, StaledEffect
  <2> QED  BY <2>2, <2>3
<1>8. mine \in Slot /\ mine # Idle
  <2>1. mine \in Slot
    BY DEF Slot
  <2> QED  BY <2>1, MarkersAssumption
<1>9. Types'
  BY <1>1, <1>2, <1>6, <1>7, <1>8 DEF Types, Entries, Forgotten
<1> HIDE DEF slots, e
<1>10. ASSUME NEW q \in Runs PROVE RunOK(runs'[q], InFlight(q)', foreign'[q])
  <2>1. CASE q # r
    <3>1. InFlight(q)' = Cardinality(HoldersIn(slots, q))
      <4>1. [run |-> q, stale |-> FALSE] # mine
        BY <2>1
      <4>2. [run |-> q, stale |-> FALSE] # Idle
        <5>1. [run |-> q, stale |-> FALSE] \in Slot
          BY DEF Slot
        <5> QED  BY <5>1, MarkersAssumption
      <4>3. \A d \in Callers : holding'[d] = [run |-> q, stale |-> FALSE]
                                <=> slots[d] = [run |-> q, stale |-> FALSE]
        <5> HIDE DEF mine
        <5> QED  BY <1>1, <1>7, <4>1, <4>2
      <4> QED  BY <4>3 DEF InFlight, Holders, HoldersIn
    <3>2. runs[q] # Absent => (q \in gone <=> runs'[q] = Absent)
      <4>1. store.runs[q] \in {swept.runs[q], Absent}
        BY <1>6, <2>1
      <4>2. runs[q] # Absent => (q \in gone <=> swept.runs[q] = Absent \/ store.runs[q] = Absent)
        BY DEF Lost
      <4> QED  BY <4>1, <4>2, <1>1
    <3>3. runs'[q] \in {runs[q], Absent}
      BY <1>1, <1>3, <1>6, <2>1
    <3> HIDE DEF gone
    <3>4. RunOK(runs'[q], Cardinality(IF q \in gone THEN {} ELSE HoldersIn(holding, q)),
                Forgotten(foreign, gone)[q])
      BY <3>2, <3>3, BystanderOK
    <3>5. InFlight(q)' = Cardinality(IF q \in gone THEN {} ELSE HoldersIn(holding, q))
      BY <3>1, <1>7
    <3> QED  BY <3>4, <3>5, <1>1
  <2>2. CASE q = r
    <3> DEFINE base == HoldersIn(slots, r)
               h == Cardinality(base)
               f == foreign'[r]
    <3>1. IsFiniteSet(base) /\ h \in Nat /\ base \subseteq Callers /\ c \notin base
      <4>1. base \subseteq Callers /\ c \notin base
        BY <1>7, <1>8 DEF HoldersIn
      <4> QED  BY <4>1, CallersAssumption, FS_Subset, FS_CardinalityType
    <3>2. f \in Nat
      BY <1>9 DEF Types
    <3>3. RunOK(e, h, f)
      <4>1. RunOK(runs[r], Cardinality(HoldersIn(holding, r)), foreign[r])
        BY DEF IInv, InFlight, Holders, HoldersIn
      <4>2. CASE swept.runs[r] # Absent
        <5>1. e = runs[r] /\ r \notin gone
          BY <1>3, <1>5, <1>6, <4>2 DEF e, Get, Stored, Lost
        <5> QED  BY <4>1, <5>1, <1>1, <1>7 DEF Forgotten
      <4>3. CASE swept.runs[r] = Absent
        <5>1. e = NewEntry(DefaultLimits)
          BY <4>3 DEF e, Get, Stored
        <5>2. h = 0
          <6>1. CASE runs[r] # Absent
            BY <1>7, <4>3, <6>1, FS_EmptySet DEF Lost
          <6>2. CASE runs[r] = Absent
            <7>1. Cardinality(HoldersIn(holding, r)) = 0
              BY <4>1, <6>2 DEF RunOK
            <7> QED  BY <7>1, <1>7, FS_EmptySet
          <6> QED  BY <6>1, <6>2
        <5> QED  BY <5>1, <5>2, <3>2, NewOK, LimitsAssumption
      <4> QED  BY <4>2, <4>3
    <3>4. CASE Exceeded(e)
      <4>1. InFlight(r)' = h
        BY <1>1, <3>4 DEF InFlight, Holders, HoldersIn
      <4> QED  BY <4>1, <1>1, <1>4, <1>6, <2>2, <3>1, <3>2, <3>3, <3>4, ReserveOK
    <3>5. CASE ~Exceeded(e)
      <4>1. Holders(r)' = base \cup {c}
        BY <1>1, <1>7, <3>5 DEF Holders, HoldersIn
      <4>2. InFlight(r)' = h + 1
        BY <3>1, <4>1, FS_AddElement DEF InFlight
      <4>3. h + 1 <= Cardinality(Callers)
        <5>1. base \cup {c} \subseteq Callers
          BY <3>1
        <5>2. Cardinality(base \cup {c}) = h + 1 /\ Cardinality(base \cup {c}) <= Cardinality(Callers)
          BY <3>1, <5>1, FS_AddElement, FS_Subset, CallersAssumption
        <5> QED  BY <5>2
      <4> QED  BY <4>2, <4>3, <1>1, <1>4, <1>6, <2>2, <3>1, <3>2, <3>3, <3>5, ReserveOK
    <3> QED  BY <3>4, <3>5
  <2> QED  BY <2>1, <2>2
<1> QED  BY <1>9, <1>10 DEF IInv

(* The holders of a run when one caller lets its slot go.                  *)
LEMMA LetGo ==
    ASSUME NEW slots \in [Callers -> Slot \cup {Idle}], NEW c \in Callers, NEW q \in Runs
    PROVE  /\ [slots EXCEPT ![c] = Idle] \in [Callers -> Slot \cup {Idle}]
           /\ HoldersIn([slots EXCEPT ![c] = Idle], q) = HoldersIn(slots, q) \ {c}
<1>1. [run |-> q, stale |-> FALSE] # Idle
  <2>1. [run |-> q, stale |-> FALSE] \in Slot
    BY DEF Slot
  <2> QED  BY <2>1, MarkersAssumption
<1> QED  BY <1>1 DEF HoldersIn

(* A report by caller c of run r, whose effect on the entry is one of those *)
(* ReportOK is about.                                                      *)
LEMMA ReporterOK ==
    ASSUME IInv, NEW c \in Callers, holding[c] # Idle,
           NEW e \in Entry, NEW next, NEW f,
           \A h \in Nat, k \in Nat :
               /\ RunOK(e, h + 1, k) => RunOK(next, h, k)
               /\ RunOK(e, h, k) => RunOK(next, h, k + 1),
           runs[holding[c].run] # Absent => e = runs[holding[c].run],
           runs[holding[c].run] = Absent => e \in {NewEntry(limits) : limits \in Limits},
           f = IF holding[c].stale THEN foreign[holding[c].run] + 1
                                   ELSE foreign[holding[c].run]
    PROVE  RunOK(next, Cardinality(HoldersIn(holding, holding[c].run) \ {c}), f)
<1> DEFINE r == holding[c].run
           h == Cardinality(HoldersIn(holding, r))
           k == foreign[r]
<1>1. holding[c] \in Slot /\ r \in Runs /\ k \in Nat /\ holding[c].stale \in BOOLEAN
  BY DEF IInv, Types, Slot
<1>2. HoldersIn(holding, r) \subseteq Callers /\ IsFiniteSet(HoldersIn(holding, r)) /\ h \in Nat
  <2>1. HoldersIn(holding, r) \subseteq Callers
    BY DEF HoldersIn
  <2> QED  BY <2>1, CallersAssumption, FS_Subset, FS_CardinalityType
<1>3. RunOK(runs[r], h, k)
  BY <1>1 DEF IInv, InFlight, Holders, HoldersIn
<1>4. RunOK(e, h, k)
  <2>1. CASE runs[r] # Absent
    BY <1>3, <2>1
  <2>2. CASE runs[r] = Absent
    <3>1. h = 0
      BY <1>3, <2>2 DEF RunOK
    <3>2. \A limits \in Limits : RunOK(NewEntry(limits), 0, k)
      BY <1>1, NewOK
    <3> HIDE DEF h, k
    <3> QED  BY <2>2, <3>1, <3>2
  <2> QED  BY <2>1, <2>2
<1>5. CASE holding[c].stale
  <2>1. c \notin HoldersIn(holding, r)
    BY <1>5 DEF HoldersIn
  <2>2. HoldersIn(holding, r) \ {c} = HoldersIn(holding, r)
    BY <2>1
  <2>3. f = k + 1
    BY <1>5
  <2> QED  BY <1>1, <1>2, <1>4, <2>2, <2>3
<1>6. CASE ~holding[c].stale
  <2>1. holding[c] = [run |-> r, stale |-> FALSE]
    BY <1>1, <1>6 DEF Slot
  <2>2. c \in HoldersIn(holding, r)
    BY <2>1 DEF HoldersIn
  <2>3. Cardinality(HoldersIn(holding, r) \ {c}) = h - 1
    BY <1>2, <2>2, FS_RemoveElement
  <2>4. h - 1 \in Nat
    <3>1. HoldersIn(holding, r) \ {c} \subseteq Callers
      BY <1>2
    <3>2. Cardinality(HoldersIn(holding, r) \ {c}) \in Nat
      BY <3>1, CallersAssumption, FS_Subset, FS_CardinalityType
    <3> QED  BY <3>2, <2>3
  <2>5. (h - 1) + 1 = h /\ f = k
    BY <1>2, <1>6
  <2> HIDE DEF h, k
  <2>6. RunOK(e, (h - 1) + 1, k)
    BY <2>5, <1>4
  <2>7. RunOK(next, h - 1, k)
    BY <2>4, <2>6, <1>1
  <2> QED  BY <2>3, <2>5, <2>7 DEF h, k
<1> QED  BY <1>5, <1>6, <1>1

(* A recorded step takes its own reservation with it, or another's if its  *)
(* run was made anew.                                                      *)
LEMMA RecordOK ==
    ASSUME IInv, NEW c \in Callers, NEW size \in StepSizes, RecordStep(c, size)
    PROVE  IInv'
<1> DEFINE r == holding[c].run
           e == Get(current, r)
           store == Put(current, r, Record(e, size))
           gone == Lost(store)
           slots == Staled(holding, gone)
<1>1. /\ holding[c] # Idle /\ runs' = store.runs /\ holding' = [slots EXCEPT ![c] = Idle]
      /\ foreign' = [Forgotten(foreign, gone) EXCEPT ![r] = IF holding[c].stale THEN @ + 1 ELSE @]
  BY DEF RecordStep
<1>2. /\ holding \in [Callers -> Slot \cup {Idle}] /\ foreign \in [Runs -> Nat]
      /\ runs \in Entries /\ current.runs = runs /\ current.runs \in Entries
  BY DEF IInv, Types, Entries, current
<1>3. holding[c] \in Slot /\ r \in Runs
  BY <1>1, <1>2 DEF Slot
<1>4. /\ runs[r] # Absent => e = runs[r]
      /\ runs[r] = Absent => e = NewEntry(DefaultLimits)
      /\ e \in Entry
  BY <1>2, <1>3, NewOK, LimitsAssumption DEF Get, Stored, Entries
<1> HIDE DEF e
<1>5. Record(e, size) \in Entry /\ Record(e, size) # Absent
  BY <1>4, ReportEffect
<1>6. /\ store.runs \in Entries /\ store.runs[r] = Record(e, size)
      /\ \A q \in Runs \ {r} : store.runs[q] \in {runs[q], Absent}
  BY <1>2, <1>3, <1>5, PutEffect
<1> HIDE DEF store
<1>7. /\ r \notin gone
      /\ \A q \in Runs \ {r} : runs[q] # Absent => (q \in gone <=> store.runs[q] = Absent)
  BY <1>5, <1>6 DEF Lost
<1> HIDE DEF gone
<1>8. /\ slots \in [Callers -> Slot \cup {Idle}]
      /\ \A q \in Runs : HoldersIn(slots, q) = IF q \in gone THEN {} ELSE HoldersIn(holding, q)
  BY <1>2, StaledEffect
<1> HIDE DEF slots
<1>9. /\ holding' \in [Callers -> Slot \cup {Idle}]
      /\ \A q \in Runs : InFlight(q)' = Cardinality(HoldersIn(slots, q) \ {c})
  <2>1. \A q \in Runs : HoldersIn(holding', q) = HoldersIn(slots, q) \ {c}
    BY <1>1, <1>8, LetGo
  <2>2. \A q \in Runs : InFlight(q)' = Cardinality(HoldersIn(holding', q))
    BY DEF InFlight, Holders, HoldersIn
  <2> QED  BY <1>1, <1>8, <2>1, <2>2, LetGo
<1>10. Forgotten(foreign, gone) \in [Runs -> Nat]
  BY <1>2 DEF Forgotten
<1>11. Types'
  <2>1. foreign' \in [Runs -> Nat]
    BY <1>1, <1>3, <1>10
  <2> QED  BY <1>1, <1>6, <1>9, <2>1 DEF Types, Entries
<1>12. ASSUME NEW q \in Runs PROVE RunOK(runs'[q], InFlight(q)', foreign'[q])
  <2>1. CASE q # r
    <3>1. c \notin HoldersIn(slots, q)
      <4>1. holding[c] # [run |-> q, stale |-> FALSE]
        BY <2>1
      <4>2. c \notin HoldersIn(holding, q)
        BY <4>1 DEF HoldersIn
      <4> QED  BY <4>2, <1>8
    <3>2. InFlight(q)' = Cardinality(IF q \in gone THEN {} ELSE HoldersIn(holding, q))
      <4>1. HoldersIn(slots, q) \ {c} = HoldersIn(slots, q)
        BY <3>1
      <4> QED  BY <4>1, <1>8, <1>9
    <3>3. RunOK(store.runs[q], Cardinality(IF q \in gone THEN {} ELSE HoldersIn(holding, q)),
                Forgotten(foreign, gone)[q])
      BY <1>6, <1>7, <2>1, BystanderOK
    <3>4. foreign'[q] = Forgotten(foreign, gone)[q]
      BY <1>1, <1>10, <2>1
    <3> QED  BY <3>2, <3>3, <3>4, <1>1
  <2>2. CASE q = r
    <3>1. InFlight(q)' = Cardinality(HoldersIn(holding, r) \ {c})
      BY <1>7, <1>8, <1>9, <2>2
    <3>2. foreign'[r] = IF holding[c].stale THEN foreign[r] + 1 ELSE foreign[r]
      BY <1>1, <1>3, <1>7, <1>10 DEF Forgotten
    <3>3. \A h \in Nat, k \in Nat :
             /\ RunOK(e, h + 1, k) => RunOK(Record(e, size), h, k)
             /\ RunOK(e, h, k) => RunOK(Record(e, size), h, k + 1)
      BY <1>4, ReportOK
    <3>4. runs[r] = Absent => e \in {NewEntry(limits) : limits \in Limits}
      BY <1>4, LimitsAssumption
    <3>5. RunOK(Record(e, size), Cardinality(HoldersIn(holding, r) \ {c}), foreign'[r])
      BY <1>1, <1>4, <3>2, <3>3, <3>4, ReporterOK
    <3> QED  BY <2>2, <3>1, <3>5, <1>1, <1>6
  <2> QED  BY <2>1, <2>2
<1> QED  BY <1>11, <1>12 DEF IInv

(* A release gives back one reservation, or one of another's if its run    *)
(* was made anew.                                                          *)
LEMMA ReleaseOK ==
    ASSUME IInv, NEW c \in Callers, ReleaseReservation(c)
    PROVE  IInv'
<1> DEFINE r == holding[c].run
<1>1. holding[c] # Idle /\ holding' = [holding EXCEPT ![c] = Idle]
  BY DEF ReleaseReservation
<1>2. /\ holding \in [Callers -> Slot \cup {Idle}] /\ foreign \in [Runs -> Nat]
      /\ runs \in Entries /\ current.runs = runs /\ current.runs \in Entries
  BY DEF IInv, Types, Entries, current
<1>3. holding[c] \in Slot /\ r \in Runs
  BY <1>1, <1>2 DEF Slot
<1>4. /\ holding' \in [Callers -> Slot \cup {Idle}]
      /\ \A q \in Runs : InFlight(q)' = Cardinality(HoldersIn(holding, q) \ {c})
  <2>1. \A q \in Runs : HoldersIn(holding', q) = HoldersIn(holding, q) \ {c}
    BY <1>1, <1>2, LetGo
  <2>2. \A q \in Runs : InFlight(q)' = Cardinality(HoldersIn(holding', q))
    BY DEF InFlight, Holders, HoldersIn
  <2> QED  BY <1>1, <1>2, <2>1, <2>2, LetGo
<1>5. ASSUME NEW q \in Runs, q # r \/ runs[r] = Absent
      PROVE  /\ InFlight(q)' = Cardinality(HoldersIn(holding, q))
             /\ RunOK(runs[q], InFlight(q)', foreign[q])
  <2>1. RunOK(runs[q], Cardinality(HoldersIn(holding, q)), foreign[q])
    BY DEF IInv, InFlight, Holders, HoldersIn
  <2>2. c \notin HoldersIn(holding, q)
    <3>1. CASE q # r
      <4>1. holding[c] # [run |-> q, stale |-> FALSE]
        BY <3>1
      <4> QED  BY <4>1 DEF HoldersIn
    <3>2. CASE q = r /\ runs[r] = Absent
      <4>1. Cardinality(HoldersIn(holding, q)) = 0
        BY <2>1, <3>2 DEF RunOK
      <4>2. HoldersIn(holding, q) \subseteq Callers
        BY DEF HoldersIn
      <4>3. HoldersIn(holding, q) = {}
        BY <4>1, <4>2, CallersAssumption, FS_Subset, FS_EmptySet
      <4> QED  BY <4>3
    <3> QED  BY <1>5, <3>1, <3>2
  <2>3. HoldersIn(holding, q) \ {c} = HoldersIn(holding, q)
    BY <2>2
  <2> QED  BY <2>1, <2>3, <1>4
<1>6. CASE runs[r] = Absent
  <2>1. runs' = runs /\ foreign' = foreign
    BY <1>2, <1>6 DEF ReleaseReservation, Stored
  <2>2. Types'
    BY <1>2, <1>4, <2>1 DEF Types, Entries
  <2> QED  BY <1>5, <1>6, <2>1, <2>2 DEF IInv
<1>7. CASE runs[r] # Absent
  <2> DEFINE e == runs[r]
             store == Put(current, r, Release(e))
  <2>1. /\ runs' = store.runs
        /\ foreign' = IF holding[c].stale THEN [foreign EXCEPT ![r] = @ + 1] ELSE foreign
    BY <1>2, <1>7 DEF ReleaseReservation, Stored
  <2>2. e \in Entry /\ Release(e) \in Entry /\ Release(e) # Absent
    BY <1>2, <1>3, <1>7, ReportEffect DEF Entries
  <2>3. store.runs \in Entries /\ store.runs[r] = Release(e)
    BY <1>2, <1>3, <2>2, PutEffect
  <2>4. \A q \in Runs \ {r} : store.runs[q] = runs[q]
    BY <1>2, <1>3, <1>7 DEF Put, Stored, Entries
  <2> HIDE DEF store
  <2>5. Types'
    BY <1>2, <1>3, <1>4, <2>1, <2>3 DEF Types, Entries
  <2>6. ASSUME NEW q \in Runs PROVE RunOK(runs'[q], InFlight(q)', foreign'[q])
    <3>1. CASE q # r
      <4>1. runs'[q] = runs[q] /\ foreign'[q] = foreign[q]
        BY <1>2, <2>1, <2>4, <3>1
      <4> QED  BY <4>1, <1>5, <3>1
    <3>2. CASE q = r
      <4>1. foreign'[r] = IF holding[c].stale THEN foreign[r] + 1 ELSE foreign[r]
        BY <1>2, <1>3, <2>1
      <4>2. \A h \in Nat, k \in Nat :
               /\ RunOK(e, h + 1, k) => RunOK(Release(e), h, k)
               /\ RunOK(e, h, k) => RunOK(Release(e), h, k + 1)
        BY <2>2, ReportOK
      <4>3. RunOK(Release(e), Cardinality(HoldersIn(holding, r) \ {c}), foreign'[r])
        BY <1>1, <1>7, <2>2, <4>1, <4>2, ReporterOK
      <4> QED  BY <3>2, <4>3, <1>3, <1>4, <2>1, <2>3
    <3> QED  BY <3>1, <3>2
  <2> QED  BY <2>5, <2>6 DEF IInv
<1> QED  BY <1>6, <1>7

(* Time ages the runs and nothing else.                                    *)
LEMMA TickOK ==
    ASSUME IInv, Tick
    PROVE  IInv'
<1>1. runs' = [r \in Runs |-> IF runs[r] = Absent THEN Absent ELSE Aged(runs[r])]
      /\ holding' = holding /\ foreign' = foreign
  BY DEF Tick
<1>2. ASSUME NEW e \in Entry
      PROVE  /\ Aged(e) \in Entry /\ Aged(e).limits = e.limits /\ Aged(e).steps = e.steps
             /\ Aged(e).pending = e.pending /\ Aged(e).cost = e.cost
  <2>1. e.elapsed \in Nat /\ e.elapsed + 1 \in Nat /\ e.idle \in 0..TTL + 1
        /\ (e.idle <= TTL => e.idle + 1 \in 0..TTL + 1)
    BY StoreAssumption DEF Entry
  <2> QED  BY <2>1 DEF Aged, Entry
<1>3. runs \in [Runs -> Entry \cup {Absent}]
  BY DEF IInv, Types
<1>4. Types'
  BY <1>1, <1>2, <1>3 DEF IInv, Types
<1>5. ASSUME NEW q \in Runs PROVE RunOK(runs'[q], InFlight(q)', foreign'[q])
  <2>1. InFlight(q)' = InFlight(q)
    BY <1>1 DEF InFlight, Holders
  <2>2. RunOK(runs[q], InFlight(q), foreign[q])
    BY DEF IInv
  <2>3. CASE runs[q] = Absent
    BY <1>1, <2>1, <2>2, <2>3
  <2>4. CASE runs[q] # Absent
    <3>1. runs[q] \in Entry /\ runs'[q] = Aged(runs[q])
      BY <1>1, <1>3, <2>4
    <3>2. runs'[q] # Absent
      BY <1>2, <3>1, MarkersAssumption
    <3> QED  BY <1>1, <1>2, <2>1, <2>2, <2>4, <3>1, <3>2 DEF RunOK
  <2> QED  BY <2>3, <2>4
<1> QED  BY <1>4, <1>5 DEF IInv

-----------------------------------------------------------------------------
(* So does every step.                                                     *)
LEMMA StepOK ==
    ASSUME IInv, [Next]_vars
    PROVE  IInv'
<1>1. CASE UNCHANGED vars
  BY <1>1 DEF vars, IInv, Types, InFlight, Holders
<1> QED  BY <1>1, StartOK, FinishOK, CheckOK, RecordOK, ReleaseOK, TickOK DEF Next

(* Before any request every run is unknown and nobody holds a slot.        *)
LEMMA InitOK ==
    ASSUME Init
    PROVE  IInv
<1>1. Types
  BY DEF Init, Types
<1>2. ASSUME NEW q \in Runs PROVE RunOK(runs[q], InFlight(q), foreign[q])
  <2>1. [run |-> q, stale |-> FALSE] # Idle
    <3>1. [run |-> q, stale |-> FALSE] \in Slot
      BY DEF Slot
    <3> QED  BY <3>1, MarkersAssumption
  <2>2. Holders(q) = {}
    BY <2>1 DEF Init, Holders
  <2>3. InFlight(q) = 0 /\ runs[q] = Absent
    BY <2>2, FS_EmptySet DEF InFlight, Init
  <2> QED  BY <2>3 DEF RunOK
<1> QED  BY <1>1, <1>2 DEF IInv

(* Every reachable state satisfies the inductive invariant.                *)
THEOREM Invariance == Spec => []IInv
<1>1. Init => IInv
  BY InitOK
<1>2. IInv /\ [Next]_vars => IInv'
  BY StepOK
<1> QED  BY <1>1, <1>2, PTL DEF Spec

(* For any number of requests and runs, the completed and in-flight steps  *)
(* of a run exceed its limit by no more than the foreign reports it took,  *)
(* and every slot it counts has a live holder.                             *)
THEOREM StepLimit == Spec => []StepLimitRespected
<1>1. IInv => StepLimitRespected
  BY DEF IInv, RunOK, StepLimitRespected
<1> QED  BY <1>1, Invariance, PTL

(* A run's cost passes its limit by at most what the callers in flight     *)
(* together may cost, and a step for each foreign report.                  *)
THEOREM Overshoot == Spec => []OvershootBounded
<1>1. IInv => OvershootBounded
  <2> SUFFICES ASSUME IInv, NEW r \in Runs, runs[r] # Absent, runs[r].limits.cost >= 0
               PROVE  runs[r].cost <= runs[r].limits.cost + Allowance(foreign[r])
    BY DEF OvershootBounded, Allowance
  <2>1. runs[r].cost \in Nat /\ runs[r].limits.cost \in Int /\ foreign[r] \in Nat
    BY DEF IInv, Types, Entry, Limits
  <2>2. InFlight(r) \in Nat
    BY HoldersFinite
  <2>3. Exposure(InFlight(r)) \in Nat /\ Allowance(foreign[r]) \in Nat
    BY <2>1, <2>2, Products
  <2>4. runs[r].cost + Exposure(InFlight(r)) <= runs[r].limits.cost + Allowance(foreign[r])
    BY DEF IInv, RunOK
  <2> QED  BY <2>1, <2>3, <2>4
<1> QED  BY <1>1, Invariance, PTL

-----------------------------------------------------------------------------
(* The store: its entries and its recency order name the same runs.        *)

(* The order lists the runs that have an entry, each of them once, and no  *)
(* more than fit.                                                          *)
Listed(entries, list) ==
    /\ list \in Seq(Runs)
    /\ ToSet(list) = {r \in Runs : entries[r] # Absent}
    /\ IsInjective(list)
    /\ Len(list) <= MaxEntries

(* Dropping runs keeps the order in step, and makes room when one of them  *)
(* was stored.                                                             *)
LEMMA DropListed ==
    ASSUME NEW store, store.runs \in Entries, Listed(store.runs, store.order), NEW gone
    PROVE  /\ Listed(Drop(store, gone).runs, Drop(store, gone).order)
           /\ (\E r \in gone : r \in Runs /\ store.runs[r] # Absent)
              => Len(Drop(store, gone).order) < Len(store.order)
<1>1. PICK s \in Seq(Runs) : s = store.order
  BY DEF Listed
<1>2. PICK t : t = Without(s, gone)
  OBVIOUS
<1>3. /\ t \in Seq(Runs) /\ ToSet(t) = ToSet(s) \ gone /\ IsInjective(t) /\ Len(t) <= Len(s)
      /\ Len(s) <= MaxEntries /\ IsInjective(s)
  BY <1>1, <1>2, WithoutList DEF Listed
<1>4. /\ Drop(store, gone).order = t
      /\ \A q \in Runs : Drop(store, gone).runs[q] = IF q \in gone THEN Absent ELSE store.runs[q]
  BY <1>1, <1>2, DropEffect DEF Drop
<1>5. ToSet(t) = {r \in Runs : Drop(store, gone).runs[r] # Absent}
  BY <1>1, <1>3, <1>4 DEF Listed
<1>6. Len(t) \in Nat /\ Len(s) \in Nat /\ MaxEntries \in Nat
  BY <1>3, StoreAssumption
<1>7. Listed(Drop(store, gone).runs, t)
  BY <1>3, <1>5, <1>6 DEF Listed
<1>8. ASSUME NEW r \in gone, r \in Runs, store.runs[r] # Absent
      PROVE  Len(t) < Len(s)
  <2>1. r \in ToSet(s) /\ r \notin ToSet(t)
    BY <1>1, <1>3, <1>8 DEF Listed
  <2>2. /\ IsFiniteSet(ToSet(s))
        /\ Cardinality(ToSet(s)) = Len(s) /\ Cardinality(ToSet(t)) = Len(t)
    BY <1>3, DistinctList
  <2>3. ToSet(t) \in SUBSET ToSet(s) /\ ToSet(t) # ToSet(s)
    BY <1>3, <2>1
  <2>4. Len(t) # Len(s)
    BY <2>2, <2>3, FS_Subset
  <2> QED  BY <2>4, <1>3, <1>6
<1> QED  BY <1>1, <1>4, <1>7, <1>8

(* Putting a run makes room for it first, at the cost of the least         *)
(* recently used run, when the store is full and does not know it.         *)
LEMMA PutListed ==
    ASSUME NEW store, store.runs \in Entries, Listed(store.runs, store.order),
           NEW r \in Runs, NEW e \in Entry, e # Absent
    PROVE  /\ Listed(Put(store, r, e).runs, Put(store, r, e).order)
           /\ \A q \in Runs \ {r} :
                Put(store, r, e).runs[q] # store.runs[q] =>
                    /\ store.runs[r] = Absent /\ Len(store.order) = MaxEntries
                    /\ q = Head(store.order)
<1> DEFINE full == ~Stored(store, r) /\ Len(store.order) >= MaxEntries
           kept == IF full THEN Drop(store, {Head(store.order)}) ELSE store
<1>1. MaxEntries \in Nat /\ MaxEntries >= 1 /\ Len(store.order) \in Nat /\ Len(store.order) <= MaxEntries
  BY StoreAssumption DEF Listed
<1>2. full => Len(store.order) = MaxEntries /\ store.order # <<>>
              /\ Head(store.order) \in Runs /\ store.runs[Head(store.order)] # Absent
  <2>1. ASSUME full PROVE Len(store.order) = MaxEntries /\ store.order # <<>>
    BY <2>1, <1>1
  <2>2. ASSUME full PROVE Head(store.order) \in ToSet(store.order) /\ Head(store.order) \in Runs
    BY <2>1, <2>2, TailList DEF Listed
  <2> QED  BY <2>1, <2>2 DEF Listed
<1>3. /\ kept.runs \in Entries /\ Listed(kept.runs, kept.order)
      /\ full => Len(kept.order) < MaxEntries
      /\ \A q \in Runs : kept.runs[q] # store.runs[q] => full /\ q = Head(store.order)
  <2>1. CASE full
    <3>1. PICK h : h = Head(store.order)
      OBVIOUS
    <3>2. kept = Drop(store, {h})
      BY <2>1, <3>1
    <3> QED  BY <1>2, <2>1, <3>1, <3>2, DropListed, DropEffect
  <2>2. CASE ~full
    BY <2>2
  <2> QED  BY <2>1, <2>2
<1>4. /\ Put(store, r, e).runs = [kept.runs EXCEPT ![r] = e]
      /\ Put(store, r, e).order = Append(Without(kept.order, {r}), r)
  BY DEF Put
<1>5. kept.runs[r] # Absent => store.runs[r] # Absent
  BY <1>2, <1>3
<1>6. kept.runs[r] = Absent => Len(kept.order) < MaxEntries
  <2>1. CASE full
    BY <2>1, <1>3
  <2>2. CASE ~full
    <3>1. kept = store
      BY <2>2
    <3>2. kept.runs[r] = Absent => ~Stored(store, r)
      BY <3>1 DEF Stored
    <3>3. kept.runs[r] = Absent => ~ (Len(store.order) >= MaxEntries)
      BY <2>2, <3>2
    <3> HIDE DEF kept
    <3> QED  BY <1>1, <3>1, <3>3
  <2> QED  BY <2>1, <2>2
<1> HIDE DEF kept
<1>7. PICK s \in Seq(Runs) : s = kept.order
  BY <1>3 DEF Listed
<1>8. PICK t : t = Without(s, {r})
  OBVIOUS
<1>9. /\ t \in Seq(Runs) /\ ToSet(t) = ToSet(s) \ {r} /\ IsInjective(t) /\ Len(t) <= Len(s)
      /\ Len(t) \in Nat /\ Len(s) \in Nat /\ Len(s) <= MaxEntries
  <2>1. IsInjective(s) /\ Len(s) <= MaxEntries
    BY <1>3, <1>7 DEF Listed
  <2> QED  BY <1>8, <2>1, WithoutList
<1>10. Len(t) < MaxEntries
  <2>1. CASE kept.runs[r] = Absent
    BY <2>1, <1>1, <1>6, <1>7, <1>9
  <2>2. CASE kept.runs[r] # Absent
    <3>1. Drop(kept, {r}).order = t
      BY <1>7, <1>8 DEF Drop
    <3>2. Len(t) < Len(s)
      BY <2>2, <1>3, <1>7, <3>1, DropListed
    <3> QED  BY <3>2, <1>1, <1>9
  <2> QED  BY <2>1, <2>2
<1>11. PICK u : u = Append(t, r)
  OBVIOUS
<1>12. /\ u \in Seq(Runs) /\ Len(u) = Len(t) + 1 /\ ToSet(u) = ToSet(t) \cup {r} /\ IsInjective(u)
  <2>1. r \notin ToSet(t)
    BY <1>9
  <2> QED  BY <1>9, <1>11, <2>1, AppendList
<1>13. PICK after : after = [kept.runs EXCEPT ![r] = e]
  OBVIOUS
<1>14. after[r] = e /\ \A q \in Runs \ {r} : after[q] = kept.runs[q]
  BY <1>3, <1>13 DEF Entries
<1>15. ToSet(u) = {q \in Runs : after[q] # Absent}
  <2>1. ToSet(s) = {q \in Runs : kept.runs[q] # Absent}
    BY <1>3, <1>7 DEF Listed
  <2> QED  BY <2>1, <1>9, <1>12, <1>14
<1>16. Listed(after, u)
  BY <1>1, <1>9, <1>10, <1>12, <1>15 DEF Listed
<1>17. Put(store, r, e).runs = after /\ Put(store, r, e).order = u
  BY <1>4, <1>7, <1>8, <1>11, <1>13
<1>18. ASSUME NEW q \in Runs \ {r}, after[q] # store.runs[q]
       PROVE  store.runs[r] = Absent /\ Len(store.order) = MaxEntries /\ q = Head(store.order)
  <2>1. full /\ q = Head(store.order)
    BY <1>3, <1>14, <1>18
  <2> QED  BY <2>1, <1>2 DEF Stored
<1> QED  BY <1>16, <1>17, <1>18

(* A run is idle no longer than it was not asked about.                    *)
Ages == /\ sincePolled \in [Runs -> 0..TTL + 1]
        /\ \A r \in Runs : runs[r] # Absent => runs[r].idle <= sincePolled[r]

(* What the store's theorems need besides IInv.                            *)
StoreInv == IInv /\ Listed(runs, order) /\ Ages

(* A step that puts one run in the store takes out no other, but for an    *)
(* eviction.                                                               *)
LEMMA PutsOne ==
    ASSUME StoreInv, NEW r \in Runs, NEW e \in Entry, e # Absent,
           runs' = Put(current, r, e).runs, order' = Put(current, r, e).order
    PROVE  /\ Listed(runs', order') /\ runs'[r] = e /\ runs' \in Entries
           /\ \A q \in Runs \ {r} : runs'[q] \in {runs[q], Absent}
           /\ \A q \in Runs \ {r} : runs'[q] # runs[q] => Evicted(q)
<1>1. PICK store : store = current
  OBVIOUS
<1>2. store.runs = runs /\ store.order = order /\ runs \in Entries /\ Listed(runs, order)
  BY <1>1 DEF current, StoreInv, IInv, Types, Entries
<1>3. /\ Put(store, r, e).runs \in Entries
      /\ Put(store, r, e).runs[r] = e
      /\ \A q \in Runs \ {r} : Put(store, r, e).runs[q] \in {store.runs[q], Absent}
  BY <1>2, PutEffect
<1>4. /\ Listed(Put(store, r, e).runs, Put(store, r, e).order)
      /\ \A q \in Runs \ {r} :
            Put(store, r, e).runs[q] # store.runs[q] =>
                /\ store.runs[r] = Absent /\ Len(store.order) = MaxEntries
                /\ q = Head(store.order)
  BY <1>2, PutListed
<1> QED  BY <1>1, <1>2, <1>3, <1>4 DEF Evicted

(* The entries other runs keep stay as old as they were.                   *)
LEMMA OthersAge ==
    ASSUME StoreInv, NEW r \in Runs,
           \A q \in Runs \ {r} : runs'[q] \in {runs[q], Absent},
           \A q \in Runs \ {r} : sincePolled'[q] = sincePolled[q],
           sincePolled' \in [Runs -> 0..TTL + 1],
           runs'[r] # Absent => runs'[r].idle <= sincePolled'[r]
    PROVE  Ages'
<1>1. ASSUME NEW q \in Runs, runs'[q] # Absent PROVE runs'[q].idle <= sincePolled'[q]
  <2>1. CASE q = r
    BY <1>1, <2>1
  <2>2. CASE q # r
    <3>1. runs'[q] = runs[q] /\ sincePolled'[q] = sincePolled[q] /\ runs[q] # Absent
      BY <1>1, <2>2
    <3> QED  BY <3>1 DEF StoreInv, Ages
  <2> QED  BY <2>1, <2>2
<1> QED  BY <1>1 DEF Ages

(* A run whose entry is the same has lost nothing.                         *)
LEMMA SameEntry ==
    ASSUME StoreInv, NEW q \in Runs, runs[q] # Absent, runs'[q] = runs[q]
    PROVE  ~ (runs'[q] = Absent \/ runs'[q].steps < runs[q].steps)
<1>1. runs[q] \in Entry
  BY DEF StoreInv, IInv, Types
<1>2. runs[q].steps \in Nat
  BY <1>1 DEF Entry
<1> QED  BY <1>2

(* Each action keeps the order, the ages and the polled runs.              *)
LEMMA StartStores ==
    ASSUME StoreInv, NEW r \in Runs, NEW limits \in StartLimits, Start(r, limits)
    PROVE  Listed(runs', order') /\ Ages' /\ PolledKept
<1>1. /\ runs' = Put(current, r, NewEntry(limits)).runs
      /\ order' = Put(current, r, NewEntry(limits)).order
      /\ sincePolled' = [sincePolled EXCEPT ![r] = 0]
  BY DEF Start
<1>2. PICK e : e = NewEntry(limits)
  OBVIOUS
<1>3. e \in Entry /\ e # Absent /\ e.idle = 0
  <2>1. limits \in Limits
    BY LimitsAssumption
  <2>2. e \in Entry
    BY <1>2, <2>1, NewOK
  <2> QED  BY <1>2, <2>2, MarkersAssumption DEF NewEntry
<1>4. /\ Listed(runs', order') /\ runs'[r] = e
      /\ \A q \in Runs \ {r} : runs'[q] \in {runs[q], Absent}
      /\ \A q \in Runs \ {r} : runs'[q] # runs[q] => Evicted(q)
  BY <1>1, <1>2, <1>3, PutsOne
<1>5. Ages'
  <2>1. 0 \in 0..TTL + 1 /\ sincePolled \in [Runs -> 0..TTL + 1]
    BY StoreAssumption DEF StoreInv, Ages
  <2>2. /\ sincePolled' \in [Runs -> 0..TTL + 1] /\ sincePolled'[r] = 0
        /\ \A q \in Runs \ {r} : sincePolled'[q] = sincePolled[q]
    BY <1>1, <2>1
  <2> QED  BY <1>3, <1>4, <2>2, OthersAge
<1>6. PolledKept
  <2>1. ASSUME NEW q \in Runs, runs[q] # Absent,
               runs'[q] = Absent \/ runs'[q].steps < runs[q].steps, q # r
        PROVE  Evicted(q)
    BY <1>4, <2>1, SameEntry
  <2> QED  BY <2>1 DEF PolledKept
<1> QED  BY <1>4, <1>5, <1>6

(* finish() takes out its own run only.                                    *)
LEMMA FinishStores ==
    ASSUME StoreInv, NEW r \in Runs, Finish(r)
    PROVE  Listed(runs', order') /\ Ages' /\ PolledKept
<1>1. PICK store : store = current
  OBVIOUS
<1>2. store.runs = runs /\ store.order = order /\ runs \in Entries /\ Listed(runs, order)
  BY <1>1 DEF current, StoreInv, IInv, Types, Entries
<1>3. /\ runs' = Drop(store, {r}).runs /\ order' = Drop(store, {r}).order
      /\ sincePolled' = sincePolled
  BY <1>1 DEF Finish
<1>4. Listed(runs', order') /\ \A q \in Runs : runs'[q] = IF q \in {r} THEN Absent ELSE runs[q]
  BY <1>2, <1>3, DropListed, DropEffect
<1>5. Ages'
  BY <1>3, <1>4 DEF StoreInv, Ages
<1>6. PolledKept
  <2>1. ASSUME NEW q \in Runs, runs[q] # Absent, q # r,
               runs'[q] = Absent \/ runs'[q].steps < runs[q].steps
        PROVE  FALSE
    BY <1>4, <2>1, SameEntry
  <2> QED  BY <2>1 DEF PolledKept
<1> QED  BY <1>4, <1>5, <1>6

(* The sweep drops only runs nobody asked about for longer than TTL.       *)
LEMMA SweepStores ==
    ASSUME StoreInv, NEW swept, swept = current \/ swept = Sweep(current)
    PROVE  /\ swept.runs \in Entries /\ Listed(swept.runs, swept.order)
           /\ \A q \in Runs : swept.runs[q] \in {runs[q], Absent}
           /\ \A q \in Runs : sincePolled[q] <= TTL => swept.runs[q] = runs[q]
           /\ Len(swept.order) = MaxEntries => swept.runs = runs /\ swept.order = order
<1>1. PICK store : store = current
  OBVIOUS
<1>2. store.runs = runs /\ store.order = order /\ runs \in Entries /\ Listed(runs, order)
  BY <1>1 DEF current, StoreInv, IInv, Types, Entries
<1>3. CASE swept = current
  BY <1>1, <1>2, <1>3
<1>4. CASE swept = Sweep(current)
  <2>1. PICK gone : gone = {r \in Runs : runs[r] # Absent /\ runs[r].idle > TTL}
    OBVIOUS
  <2>2. swept = Drop(store, gone)
    BY <1>1, <1>2, <1>4, <2>1 DEF Sweep, Stored
  <2>3. /\ swept.runs \in Entries /\ Listed(swept.runs, swept.order)
        /\ \A q \in Runs : swept.runs[q] = IF q \in gone THEN Absent ELSE runs[q]
        /\ (\E q \in gone : q \in Runs /\ runs[q] # Absent) => Len(swept.order) < Len(order)
    BY <1>2, <2>2, DropListed, DropEffect
  <2>4. ASSUME NEW q \in Runs, sincePolled[q] <= TTL PROVE q \notin gone
    <3>1. runs[q] # Absent => runs[q] \in Entry /\ runs[q].idle <= sincePolled[q]
      BY DEF StoreInv, IInv, Types, Ages
    <3>2. runs[q] # Absent => runs[q].idle \in Int
      BY <3>1, StoreAssumption DEF Entry
    <3>3. sincePolled[q] \in Int /\ TTL \in Int
      BY StoreAssumption DEF StoreInv, Ages
    <3> QED  BY <2>1, <2>4, <3>1, <3>2, <3>3
  <2>5. ASSUME Len(swept.order) = MaxEntries
        PROVE  swept.runs = runs /\ swept.order = order
    <3>1. Len(order) \in Nat /\ Len(order) <= MaxEntries /\ MaxEntries \in Nat
      BY <1>2, StoreAssumption DEF Listed
    <3>2. gone = {}
      BY <2>1, <2>3, <2>5, <3>1
    <3>3. swept.runs = runs
      BY <1>2, <2>3, <3>2 DEF Entries
    <3>4. order \in Seq(Runs) /\ ToSet(order) \cap gone = {}
      BY <1>2, <3>2 DEF Listed
    <3>5. swept.order = order
      BY <1>2, <2>2, <3>4, WithoutNone DEF Drop
    <3> QED  BY <3>3, <3>5
  <2> QED  BY <2>3, <2>4, <2>5
<1> QED  BY <1>3, <1>4

(* A check sweeps runs nobody polled, and evicts only if that made no room. *)
LEMMA CheckStores ==
    ASSUME StoreInv, NEW c \in Callers, NEW r \in Runs, CheckBeforeDispatch(c, r)
    PROVE  Listed(runs', order') /\ Ages' /\ PolledKept
<1>1. PICK swept : swept = IF calls + 1 = HousekeepInterval THEN Sweep(current) ELSE current
  OBVIOUS
<1>2. PICK e : e = Get(swept, r)
  OBVIOUS
<1>3. /\ runs' = Put(swept, r, Reserve(e)).runs /\ order' = Put(swept, r, Reserve(e)).order
      /\ sincePolled' = [sincePolled EXCEPT ![r] = 0]
  BY <1>1, <1>2 DEF CheckBeforeDispatch
<1>4. swept = current \/ swept = Sweep(current)
  BY <1>1
<1>5. /\ swept.runs \in Entries /\ Listed(swept.runs, swept.order)
      /\ \A q \in Runs : swept.runs[q] \in {runs[q], Absent}
      /\ \A q \in Runs : sincePolled[q] <= TTL => swept.runs[q] = runs[q]
      /\ Len(swept.order) = MaxEntries => swept.runs = runs /\ swept.order = order
  BY <1>4, SweepStores
<1>6. e \in Entry /\ (swept.runs[r] # Absent => e = swept.runs[r])
  BY <1>2, <1>5, NewOK, LimitsAssumption DEF Get, Stored, Entries
<1>7. PICK f : f = Reserve(e)
  OBVIOUS
<1>8. f \in Entry /\ f # Absent /\ f.steps = e.steps /\ f.idle = 0
  <2>1. f \in Entry /\ f # Absent /\ f.steps = e.steps
    BY <1>6, <1>7, ReserveEffect
  <2>2. f.idle = 0
    BY <1>6, <1>7 DEF Reserve, Entry
  <2> QED  BY <2>1, <2>2
<1>9. /\ runs' \in Entries /\ runs'[r] = f
      /\ \A q \in Runs \ {r} : runs'[q] \in {swept.runs[q], Absent}
  BY <1>3, <1>5, <1>7, <1>8, PutEffect
<1>10. /\ Listed(runs', order')
       /\ \A q \in Runs \ {r} : runs'[q] # swept.runs[q] =>
             /\ swept.runs[r] = Absent /\ Len(swept.order) = MaxEntries
             /\ q = Head(swept.order)
  BY <1>3, <1>5, <1>7, <1>8, PutListed
<1>11. Ages'
  <2>1. 0 \in 0..TTL + 1 /\ sincePolled \in [Runs -> 0..TTL + 1]
    BY StoreAssumption DEF StoreInv, Ages
  <2>2. /\ sincePolled' \in [Runs -> 0..TTL + 1] /\ sincePolled'[r] = 0
        /\ \A q \in Runs \ {r} : sincePolled'[q] = sincePolled[q]
    BY <1>3, <2>1
  <2>3. \A q \in Runs \ {r} : runs'[q] \in {runs[q], Absent}
    BY <1>5, <1>9
  <2>4. runs'[r].idle <= sincePolled'[r]
    BY <1>8, <1>9, <2>2
  <2> QED  BY <2>2, <2>3, <2>4, OthersAge
<1>12. ASSUME NEW q \in Runs, runs[q] # Absent, sincePolled[q] <= TTL,
              runs'[q] = Absent \/ runs'[q].steps < runs[q].steps
       PROVE  Evicted(q)
  <2>1. swept.runs[q] = runs[q]
    BY <1>5, <1>12
  <2>2. q # r
    <3>1. ASSUME q = r PROVE FALSE
      <4>1. runs'[r] = f /\ f.steps = runs[r].steps /\ runs[r].steps \in Nat
        BY <1>6, <1>8, <1>9, <1>12, <2>1, <3>1 DEF Entry
      <4> QED  BY <1>8, <1>12, <3>1, <4>1
    <3> QED  BY <3>1
  <2>3. runs'[q] # runs[q]
    BY <1>12, SameEntry
  <2>4. swept.runs[r] = Absent /\ Len(swept.order) = MaxEntries /\ q = Head(swept.order)
    BY <1>10, <2>1, <2>2, <2>3
  <2>5. runs[r] = Absent /\ Len(order) = MaxEntries /\ q = Head(order)
    BY <1>5, <2>4
  <2> QED  BY <1>8, <1>9, <2>5 DEF Evicted
<1>13. PolledKept
  BY <1>12 DEF PolledKept
<1> QED  BY <1>10, <1>11, <1>13

(* A record adds to the steps of its run.                                  *)
LEMMA RecordStores ==
    ASSUME StoreInv, NEW c \in Callers, NEW size \in StepSizes, RecordStep(c, size)
    PROVE  Listed(runs', order') /\ Ages' /\ PolledKept
<1>1. PICK r : r = holding[c].run
  OBVIOUS
<1>2. PICK e : e = Get(current, r)
  OBVIOUS
<1>3. /\ holding[c] # Idle /\ sincePolled' = sincePolled
      /\ runs' = Put(current, r, Record(e, size)).runs
      /\ order' = Put(current, r, Record(e, size)).order
  BY <1>1, <1>2 DEF RecordStep
<1>4. r \in Runs /\ runs \in Entries /\ current.runs = runs
  BY <1>1, <1>3 DEF StoreInv, IInv, Types, Entries, Slot, current
<1>5. e \in Entry /\ (runs[r] # Absent => e = runs[r])
  BY <1>2, <1>4, NewOK, LimitsAssumption DEF Get, Stored, Entries
<1>6. PICK f : f = Record(e, size)
  OBVIOUS
<1>7. f \in Entry /\ f # Absent /\ f.steps = e.steps + 1 /\ f.idle = 0
  <2>1. f \in Entry /\ f # Absent /\ f.steps = e.steps + 1
    BY <1>5, <1>6, ReportEffect
  <2>2. f.idle = 0
    BY <1>5, <1>6 DEF Record, Entry
  <2> QED  BY <2>1, <2>2
<1>8. /\ Listed(runs', order') /\ runs'[r] = f
      /\ \A q \in Runs \ {r} : runs'[q] \in {runs[q], Absent}
      /\ \A q \in Runs \ {r} : runs'[q] # runs[q] => Evicted(q)
  BY <1>3, <1>4, <1>6, <1>7, PutsOne
<1>9. Ages'
  <2>1. /\ sincePolled' \in [Runs -> 0..TTL + 1] /\ sincePolled'[r] \in Nat
        /\ \A q \in Runs \ {r} : sincePolled'[q] = sincePolled[q]
    BY <1>3, <1>4, StoreAssumption DEF StoreInv, Ages
  <2> QED  BY <1>4, <1>7, <1>8, <2>1, OthersAge
<1>10. ASSUME NEW q \in Runs, runs[q] # Absent,
              runs'[q] = Absent \/ runs'[q].steps < runs[q].steps
       PROVE  Evicted(q)
  <2>1. q # r
    <3>1. ASSUME q = r PROVE FALSE
      <4>1. runs'[r] = f /\ f.steps = runs[r].steps + 1 /\ runs[r].steps \in Nat
        BY <1>5, <1>7, <1>8, <1>10, <3>1 DEF Entry
      <4> QED  BY <1>7, <1>10, <3>1, <4>1
    <3> QED  BY <3>1
  <2>2. runs'[q] # runs[q]
    BY <1>10, SameEntry
  <2> QED  BY <1>8, <2>1, <2>2
<1>11. PolledKept
  BY <1>10 DEF PolledKept
<1> QED  BY <1>8, <1>9, <1>11

(* A release of a run that is gone does nothing.                           *)
LEMMA ReleaseStores ==
    ASSUME StoreInv, NEW c \in Callers, ReleaseReservation(c)
    PROVE  Listed(runs', order') /\ Ages' /\ PolledKept
<1>1. PICK r : r = holding[c].run
  OBVIOUS
<1>2. /\ holding[c] # Idle /\ sincePolled' = sincePolled
      /\ runs[r] = Absent => runs' = runs /\ order' = order
      /\ runs[r] # Absent => /\ runs' = Put(current, r, Release(runs[r])).runs
                             /\ order' = Put(current, r, Release(runs[r])).order
  BY <1>1 DEF ReleaseReservation, Stored, current
<1>3. r \in Runs /\ runs \in Entries
  BY <1>1, <1>2 DEF StoreInv, IInv, Types, Entries, Slot
<1>4. CASE runs[r] = Absent
  <2>1. Listed(runs', order') /\ Ages'
    BY <1>2, <1>4 DEF StoreInv, Ages
  <2>2. ASSUME NEW q \in Runs, runs[q] # Absent,
               runs'[q] = Absent \/ runs'[q].steps < runs[q].steps
        PROVE  FALSE
    BY <1>2, <1>4, <2>2, SameEntry
  <2> QED  BY <2>1, <2>2 DEF PolledKept
<1>5. CASE runs[r] # Absent
  <2>1. PICK f : f = Release(runs[r])
    OBVIOUS
  <2>2. runs[r] \in Entry
    BY <1>3, <1>5 DEF Entries
  <2>3. f \in Entry /\ f # Absent /\ f.steps = runs[r].steps /\ f.idle = runs[r].idle
    <3>1. f \in Entry /\ f # Absent /\ f.steps = runs[r].steps
      BY <2>1, <2>2, ReportEffect
    <3>2. f.idle = runs[r].idle
      BY <2>1, <2>2 DEF Release, Entry
    <3> QED  BY <3>1, <3>2
  <2>4. /\ Listed(runs', order') /\ runs'[r] = f
        /\ \A q \in Runs \ {r} : runs'[q] \in {runs[q], Absent}
        /\ \A q \in Runs \ {r} : runs'[q] # runs[q] => Evicted(q)
    BY <1>2, <1>3, <1>5, <2>1, <2>3, PutsOne
  <2>5. Ages'
    <3>1. /\ sincePolled' \in [Runs -> 0..TTL + 1]
          /\ runs[r].idle <= sincePolled'[r]
          /\ \A q \in Runs \ {r} : sincePolled'[q] = sincePolled[q]
      BY <1>2, <1>3, <1>5 DEF StoreInv, Ages
    <3> QED  BY <1>3, <2>3, <2>4, <3>1, OthersAge
  <2>6. ASSUME NEW q \in Runs, runs[q] # Absent,
               runs'[q] = Absent \/ runs'[q].steps < runs[q].steps
        PROVE  Evicted(q)
    <3>1. q # r
      <4>1. ASSUME q = r PROVE FALSE
        <5>1. runs'[r] = f /\ f.steps = runs[r].steps /\ runs[r].steps \in Nat
          BY <2>2, <2>3, <2>4 DEF Entry
        <5> QED  BY <2>3, <2>6, <4>1, <5>1
      <4> QED  BY <4>1
    <3>2. runs'[q] # runs[q]
      BY <2>6, SameEntry
    <3> QED  BY <2>4, <3>1, <3>2
  <2> QED  BY <2>4, <2>5, <2>6 DEF PolledKept
<1> QED  BY <1>4, <1>5

(* Time passes for a run and for the last check of it alike.               *)
LEMMA TickStores ==
    ASSUME StoreInv, Tick
    PROVE  Listed(runs', order') /\ Ages' /\ PolledKept
<1>1. /\ runs' = [r \in Runs |-> IF runs[r] = Absent THEN Absent ELSE Aged(runs[r])]
      /\ sincePolled' = [r \in Runs |-> IF sincePolled[r] <= TTL THEN sincePolled[r] + 1
                                        ELSE sincePolled[r]]
      /\ order' = order
  BY DEF Tick
<1>2. ASSUME NEW q \in Runs, runs[q] # Absent
      PROVE  /\ runs'[q] # Absent /\ runs'[q].steps = runs[q].steps /\ runs[q].steps \in Nat
             /\ runs'[q].idle = IF runs[q].idle <= TTL THEN runs[q].idle + 1 ELSE runs[q].idle
             /\ runs[q].idle \in 0..TTL + 1 /\ runs[q].idle <= sincePolled[q]
  <2>1. PICK e : e = runs[q]
    OBVIOUS
  <2>2. e \in Entry /\ runs'[q] = Aged(e)
    BY <1>1, <1>2, <2>1 DEF StoreInv, IInv, Types
  <2>3. /\ e.elapsed \in Nat /\ e.elapsed + 1 \in Nat /\ e.idle \in 0..TTL + 1
        /\ (e.idle <= TTL => e.idle + 1 \in 0..TTL + 1)
    BY <2>2, StoreAssumption DEF Entry
  <2>4. Aged(e) \in Entry
    BY <2>2, <2>3 DEF Aged, Entry
  <2>5. /\ Aged(e).steps = e.steps /\ e.steps \in Nat
        /\ Aged(e).idle = IF e.idle <= TTL THEN e.idle + 1 ELSE e.idle
    BY <2>2 DEF Aged, Entry
  <2>6. runs[q].idle <= sincePolled[q]
    BY <1>2 DEF StoreInv, Ages
  <2> QED  BY <2>1, <2>2, <2>3, <2>4, <2>5, <2>6, MarkersAssumption
<1>3. Listed(runs', order')
  <2>1. {r \in Runs : runs'[r] # Absent} = {r \in Runs : runs[r] # Absent}
    BY <1>1, <1>2
  <2> QED  BY <1>1, <2>1 DEF StoreInv, Listed
<1>4. Ages'
  <2>1. ASSUME NEW q \in Runs
        PROVE  /\ sincePolled'[q] \in 0..TTL + 1
               /\ runs'[q] # Absent => runs'[q].idle <= sincePolled'[q]
    <3>1. PICK s : s = sincePolled[q]
      OBVIOUS
    <3>2. s \in 0..TTL + 1 /\ sincePolled'[q] = IF s <= TTL THEN s + 1 ELSE s
      BY <1>1, <3>1 DEF StoreInv, Ages
    <3>3. sincePolled'[q] \in 0..TTL + 1
      BY <3>2, StoreAssumption
    <3>4. CASE runs[q] = Absent
      BY <1>1, <3>3, <3>4
    <3>5. CASE runs[q] # Absent
      <4>1. PICK i : i = runs[q].idle
        OBVIOUS
      <4>2. i \in 0..TTL + 1 /\ i <= s /\ runs'[q].idle = IF i <= TTL THEN i + 1 ELSE i
        BY <1>2, <3>1, <3>5, <4>1
      <4> QED  BY <3>2, <3>3, <4>2, StoreAssumption
    <3> QED  BY <3>4, <3>5
  <2> QED  BY <1>1, <2>1 DEF Ages
<1>5. PolledKept
  BY <1>2 DEF PolledKept
<1> QED  BY <1>3, <1>4, <1>5

-----------------------------------------------------------------------------
(* The store and its recency order, in every reachable state.              *)
LEMMA StoreStep ==
    ASSUME StoreInv, [Next]_vars
    PROVE  StoreInv' /\ PolledKept
<1>1. IInv'
  BY StepOK DEF StoreInv
<1>2. CASE UNCHANGED vars
  <2>1. runs' = runs /\ order' = order /\ sincePolled' = sincePolled
    BY <1>2 DEF vars
  <2>2. ASSUME NEW q \in Runs, runs[q] # Absent,
               runs'[q] = Absent \/ runs'[q].steps < runs[q].steps
        PROVE  FALSE
    BY <2>1, <2>2, SameEntry
  <2> QED  BY <1>1, <2>1, <2>2 DEF StoreInv, Ages, PolledKept
<1>3. CASE Next
  <2>1. Listed(runs', order') /\ Ages' /\ PolledKept
    BY <1>3, StartStores, FinishStores, CheckStores, RecordStores, ReleaseStores, TickStores DEF Next
  <2> QED  BY <1>1, <2>1 DEF StoreInv
<1> QED  BY <1>2, <1>3

(* It holds in every reachable state.                                      *)
LEMMA StoreInvariance == Spec => []StoreInv
<1>1. Init => StoreInv
  <2> SUFFICES ASSUME Init PROVE StoreInv
    OBVIOUS
  <2>1. order = <<>> /\ runs = [r \in Runs |-> Absent] /\ sincePolled = [r \in Runs |-> 0]
    BY DEF Init
  <2>2. Listed(runs, order)
    <3>1. order \in Seq(Runs) /\ ToSet(order) = {} /\ Len(order) = 0 /\ IsInjective(order)
      BY <2>1 DEF ToSet, IsInjective
    <3> QED  BY <2>1, <3>1, StoreAssumption DEF Listed
  <2>3. Ages
    <3>1. 0 \in 0..TTL + 1
      BY StoreAssumption
    <3> QED  BY <2>1, <3>1 DEF Ages
  <2> QED  BY <2>2, <2>3, InitOK DEF StoreInv
<1>2. StoreInv /\ [Next]_vars => StoreInv'
  BY StoreStep
<1> QED  BY <1>1, <1>2, PTL DEF Spec

(* The store never holds more runs than its bound, and its recency order   *)
(* names each of them once, whatever checks, records, sweeps and evictions *)
(* did to it.                                                              *)
THEOREM StoreFits == Spec => []StoreBounded
<1>1. StoreInv => StoreBounded
  BY DEF StoreInv, Listed, StoreBounded, Range, ToSet
<1> QED  BY <1>1, StoreInvariance, PTL

(* Within TTL of a check a run loses its spend only to finish(), start() or *)
(* an eviction from a full store: the sweep never takes a polled run.      *)
THEOREM PolledRunsStay == Spec => PolledRunKeepsSpend
<1>1. StoreInv /\ [Next]_vars => [PolledKept]_vars
  BY StoreStep
<1> QED  BY <1>1, StoreInvariance, PTL DEF Spec, PolledRunKeepsSpend
=============================================================================
