------------------------------ MODULE RunBudget ------------------------------
(***************************************************************************)
(* The per-run budget of router/run_budget.py: a bounded in-memory store   *)
(* of runs, each with limits on its steps, cost, tokens and duration.  A   *)
(* request asks check_before_dispatch() and, when it is let through, holds *)
(* one step slot of its run until record_step() or release_reservation().  *)
(*                                                                         *)
(* Every access to the store is one locked update, and                     *)
(* check_before_dispatch() runs without suspending (its sweep and its      *)
(* update are separate critical sections, but nothing it decides spans     *)
(* them), so each method is a single step.                                 *)
(*                                                                         *)
(* Times are ages in ticks, cut off just above the largest value they are  *)
(* compared with.  A limit of zero blocks at once and a negative one is    *)
(* unset, as in _fraction().                                               *)
(***************************************************************************)
EXTENDS Integers, FiniteSets, SequencesExt, Lists

CONSTANTS
    Runs,               \* run ids (scoped by tenant)
    Callers,            \* concurrent requests
    Idle,               \* what a caller that holds no slot holds
    Absent,             \* the entry of a run the store does not know
    MaxEntries,         \* RUN_STORE_MAX_ENTRIES
    TTL,                \* RUN_TTL_SECONDS
    HousekeepInterval,  \* RUN_HOUSEKEEPING_INTERVAL
    DefaultLimits,      \* the limits of a run that was never started
    StartLimits,        \* the limits start() is called with
    StepSizes,          \* what a completed step may have cost
    MaxStepCost         \* the most a step may have cost

Limits == [cost : Int, steps : Int, tokens : Int, duration : Int]
Sizes == [cost : Nat, tokens : Nat]

ASSUME CallersAssumption == IsFiniteSet(Callers)
ASSUME StoreAssumption == /\ MaxEntries \in Nat \ {0}
                          /\ TTL \in Nat
                          /\ HousekeepInterval \in Nat \ {0}
ASSUME LimitsAssumption == /\ DefaultLimits \in Limits
                           /\ StartLimits \subseteq Limits
                           /\ StepSizes \subseteq Sizes
ASSUME StepCostAssumption == /\ MaxStepCost \in Nat
                             /\ \A size \in StepSizes : size.cost <= MaxStepCost

VARIABLES
    runs,     \* the entry of each run, or Absent
    order,    \* the stored runs, least recently used first
    calls,    \* checks made, modulo HousekeepInterval
    holding,  \* the slot each caller holds, or Idle
    \* History, read by no action:
    foreign,     \* reports a run took from slots of an earlier incarnation
    sincePolled  \* ticks since a check of the run

vars == <<runs, order, calls, holding, foreign, sincePolled>>

Entry == [limits : Limits, elapsed : Nat, idle : 0..TTL + 1,
          steps : Nat, pending : Nat, cost : Nat, tokens : Nat]

(* A slot is stale once the incarnation of the run that granted it is gone. *)
Slot == [run : Runs, stale : BOOLEAN]

ASSUME MarkersAssumption == Idle \notin Slot /\ Absent \notin Entry

-----------------------------------------------------------------------------
(* One run's state.                                                        *)

NewEntry(limits) == [limits |-> limits, elapsed |-> 0, idle |-> 0,
                     steps |-> 0, pending |-> 0, cost |-> 0, tokens |-> 0]

Reached(value, limit) == limit = 0 \/ (limit > 0 /\ value >= limit)

(* Variants with a slip in them, for the mutant runs.                      *)
ExceededIgnoresSlots(e) == Reached(e.cost, e.limits.cost) \/ Reached(e.steps, e.limits.steps)
                           \/ Reached(e.tokens, e.limits.tokens)
                           \/ Reached(e.elapsed, e.limits.duration)
ExceededIgnoresCost(e) == Reached(e.steps + e.pending, e.limits.steps)
                          \/ Reached(e.tokens, e.limits.tokens)
                          \/ Reached(e.elapsed, e.limits.duration)

(* The worst of the four dimensions has reached its limit.  Slots checked  *)
(* out count as steps.                                                     *)
Exceeded(e) ==
    \/ Reached(e.cost, e.limits.cost)
    \/ Reached(e.steps + e.pending, e.limits.steps)
    \/ Reached(e.tokens, e.limits.tokens)
    \/ Reached(e.elapsed, e.limits.duration)

ReserveKeepsIdle(e) == IF Exceeded(e) THEN e ELSE [e EXCEPT !.idle = 0, !.pending = @ + 1]

(* The state a check leaves, its idle time reset even when it is refused.  *)
Reserve(e) ==
    LET touched == [e EXCEPT !.idle = 0]
    IN  IF Exceeded(e) THEN touched ELSE [touched EXCEPT !.pending = @ + 1]

Unreserved(e) == IF e.pending > 0 THEN e.pending - 1 ELSE 0

Record(e, size) ==
    [e EXCEPT !.steps = @ + 1, !.pending = Unreserved(e), !.cost = @ + size.cost,
              !.tokens = @ + size.tokens, !.idle = 0]

Release(e) == [e EXCEPT !.pending = Unreserved(e)]

-----------------------------------------------------------------------------
(* The store, as the pair of its entries and its recency order.            *)

Stored(store, r) == store.runs[r] # Absent

Drop(store, gone) ==
    [runs |-> [r \in Runs |-> IF r \in gone THEN Absent ELSE store.runs[r]],
     order |-> Without(store.order, gone)]

PutEvictsLate(store, r, e) ==
    LET full == ~Stored(store, r) /\ Len(store.order) > MaxEntries
        kept == IF full THEN Drop(store, {Head(store.order)}) ELSE store
    IN  [runs |-> [kept.runs EXCEPT ![r] = e],
         order |-> Append(Without(kept.order, {r}), r)]

Put(store, r, e) ==
    LET full == ~Stored(store, r) /\ Len(store.order) >= MaxEntries
        kept == IF full THEN Drop(store, {Head(store.order)}) ELSE store
    IN  [runs |-> [kept.runs EXCEPT ![r] = e],
         order |-> Append(Without(kept.order, {r}), r)]

Get(store, r) == IF Stored(store, r) THEN store.runs[r] ELSE NewEntry(DefaultLimits)

Sweep(store) == Drop(store, {r \in Runs : Stored(store, r) /\ store.runs[r].idle > TTL})

current == [runs |-> runs, order |-> order]

(* The history a step leaves: the slots of a run that lost its state, or   *)
(* was given a new one, are stale, and its count of foreign reports starts *)
(* again.                                                                  *)
Lost(store) == {r \in Runs : runs[r] # Absent /\ store.runs[r] = Absent}

Staled(slots, gone) ==
    [c \in Callers |-> IF slots[c] # Idle /\ slots[c].run \in gone
                       THEN [slots[c] EXCEPT !.stale = TRUE] ELSE slots[c]]

Forgotten(counts, gone) == [r \in Runs |-> IF r \in gone THEN 0 ELSE counts[r]]

-----------------------------------------------------------------------------
Init ==
    /\ runs = [r \in Runs |-> Absent]
    /\ order = <<>>
    /\ calls = 0
    /\ holding = [c \in Callers |-> Idle]
    /\ foreign = [r \in Runs |-> 0]
    /\ sincePolled = [r \in Runs |-> 0]

(* start() replaces whatever the store holds.                              *)
Start(r, limits) ==
    LET store == Put(current, r, NewEntry(limits))
        gone == Lost(store) \cup {r}
    IN
    /\ runs' = store.runs /\ order' = store.order
    /\ holding' = Staled(holding, gone)
    /\ foreign' = Forgotten(foreign, gone)
    /\ sincePolled' = [sincePolled EXCEPT ![r] = 0]
    /\ UNCHANGED calls

Finish(r) ==
    LET store == Drop(current, {r}) IN
    /\ runs' = store.runs /\ order' = store.order
    /\ holding' = Staled(holding, {r})
    /\ foreign' = Forgotten(foreign, {r})
    /\ UNCHANGED <<calls, sincePolled>>

(* check_before_dispatch(): every HousekeepInterval-th call sweeps first.  *)
CheckBeforeDispatch(c, r) ==
    LET due == calls + 1 = HousekeepInterval
        swept == IF due THEN Sweep(current) ELSE current
        store == Put(swept, r, Reserve(Get(swept, r)))
        gone == Lost(swept) \cup Lost(store)
        slots == Staled(holding, gone)
    IN
    /\ holding[c] = Idle
    /\ runs' = store.runs /\ order' = store.order
    /\ calls' = IF due THEN 0 ELSE calls + 1
    /\ holding' = IF Exceeded(Get(swept, r)) THEN slots
                  ELSE [slots EXCEPT ![c] = [run |-> r, stale |-> FALSE]]
    /\ foreign' = Forgotten(foreign, gone)
    /\ sincePolled' = [sincePolled EXCEPT ![r] = 0]

(* A step that succeeded.  A run the store has lost is created again.      *)
RecordStep(c, size) ==
    LET r == holding[c].run
        store == Put(current, r, Record(Get(current, r), size))
        gone == Lost(store)
    IN
    /\ holding[c] # Idle
    /\ runs' = store.runs /\ order' = store.order
    /\ holding' = [Staled(holding, gone) EXCEPT ![c] = Idle]
    /\ foreign' = [Forgotten(foreign, gone) EXCEPT ![r] = IF holding[c].stale THEN @ + 1 ELSE @]
    /\ UNCHANGED <<calls, sincePolled>>

(* A step that failed or was never dispatched; nothing if the run is gone. *)
ReleaseReservation(c) ==
    LET r == holding[c].run
        store == IF Stored(current, r) THEN Put(current, r, Release(runs[r])) ELSE current
    IN
    /\ holding[c] # Idle
    /\ runs' = store.runs /\ order' = store.order
    /\ holding' = [holding EXCEPT ![c] = Idle]
    /\ foreign' = IF Stored(current, r) /\ holding[c].stale
                  THEN [foreign EXCEPT ![r] = @ + 1] ELSE foreign
    /\ UNCHANGED <<calls, sincePolled>>

(* One tick, for every run: ages are cut off where nothing tells them apart. *)
Aged(e) == [e EXCEPT !.elapsed = IF @ < e.limits.duration THEN @ + 1 ELSE @,
                     !.idle = IF @ <= TTL THEN @ + 1 ELSE @]

Tick ==
    /\ runs' = [r \in Runs |-> IF runs[r] = Absent THEN Absent ELSE Aged(runs[r])]
    /\ sincePolled' = [r \in Runs |-> IF sincePolled[r] <= TTL THEN sincePolled[r] + 1
                                      ELSE sincePolled[r]]
    /\ UNCHANGED <<order, calls, holding, foreign>>

Next ==
    \/ \E r \in Runs, limits \in StartLimits : Start(r, limits)
    \/ \E r \in Runs : Finish(r)
    \/ \E c \in Callers, r \in Runs : CheckBeforeDispatch(c, r)
    \/ \E c \in Callers, size \in StepSizes : RecordStep(c, size)
    \/ \E c \in Callers : ReleaseReservation(c)
    \/ Tick

Spec == Init /\ [][Next]_vars

-----------------------------------------------------------------------------
TypeOK ==
    /\ runs \in [Runs -> Entry \cup {Absent}]
    /\ calls \in 0..HousekeepInterval - 1
    /\ holding \in [Callers -> Slot \cup {Idle}]
    /\ foreign \in [Runs -> Nat]
    /\ sincePolled \in [Runs -> 0..TTL + 1]

(* The callers that hold a slot of the present incarnation of run r.       *)
Holders(r) == {c \in Callers : holding[c] = [run |-> r, stale |-> FALSE]}

InFlight(r) == Cardinality(Holders(r))

(* "Bounded by RUN_STORE_MAX_ENTRIES": the store never holds more runs     *)
(* than its bound, and its recency order lists each of them once, whichever *)
(* of a check, a record, a sweep or an eviction put it there or took it    *)
(* away.                                                                   *)
StoreBounded ==
    /\ Range(order) = {r \in Runs : runs[r] # Absent}
    /\ IsInjective(order)
    /\ Len(order) <= MaxEntries

(* "The Nth caller past max_steps sees the reservations made by the first  *)
(* N-1 and is correctly blocked": the steps of a run, completed and in     *)
(* flight together, exceed its limit at most by one for each report it     *)
(* took from a slot of an earlier incarnation, and so not at all when      *)
(* there was none.  And a reserved slot has a request behind it: a run     *)
(* whose requests have all reported is never blocked by slots nobody will  *)
(* give back.                                                              *)
StepLimitRespected ==
    \A r \in Runs : runs[r] # Absent =>
        /\ runs[r].limits.steps >= 0 =>
               runs[r].steps + InFlight(r) <= runs[r].limits.steps + foreign[r]
        /\ runs[r].pending <= InFlight(r)

(* Cost is known only after the call, so a run may overshoot its limit:    *)
(* by no more than what the requests in flight together may cost, and one  *)
(* step more for each report from an earlier incarnation ("the same        *)
(* pre-bill limitation").                                                  *)
OvershootBounded ==
    \A r \in Runs : runs[r] # Absent /\ runs[r].limits.cost >= 0 =>
        runs[r].cost <= runs[r].limits.cost
                        + (Cardinality(Callers) + foreign[r]) * MaxStepCost

(* The least recently used run makes room for a new one in a full store.   *)
Evicted(r) == /\ Len(order) = MaxEntries /\ r = Head(order)
              /\ \E q \in Runs : runs[q] = Absent /\ runs'[q] # Absent

(* What a step may not do to a run that is being asked about.              *)
PolledKept ==
    \A r \in Runs :
        /\ runs[r] # Absent /\ sincePolled[r] <= TTL
        /\ runs'[r] = Absent \/ runs'[r].steps < runs[r].steps
        => Finish(r) \/ Evicted(r) \/ \E limits \in StartLimits : Start(r, limits)

(* A run that is being asked about keeps its spend, even one over budget   *)
(* that every check refuses: within TTL of a check its steps are dropped   *)
(* only by finish(), by start(), or to make room in a full store, never by *)
(* the sweep ("an over-budget run's key" must not "expire and reset to     *)
(* zero spend").                                                           *)
PolledRunKeepsSpend == [][PolledKept]_vars
=============================================================================
