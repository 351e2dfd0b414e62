---------------------------- MODULE BudgetTracker ----------------------------
(***************************************************************************)
(* The in-memory plan budget of router/budget_tracker.py: a bounded ledger *)
(* of spend records per user, and reservations that hold estimated spend   *)
(* while a provider call is in flight.  A request reserves its estimate,   *)
(* calls the provider, and then reconciles the reservation with what the   *)
(* call cost or releases it.  Every method holds the tracker's lock        *)
(* throughout, so each is one step.                                        *)
(*                                                                         *)
(* There are two clocks, as in the code: the calendar day the records are  *)
(* stamped with, and the monotonic age of a reservation.                   *)
(***************************************************************************)
EXTENDS Integers, FiniteSets, SequencesExt

CONSTANTS
    Users,
    Callers,       \* concurrent requests
    None,          \* no ledger, no reservation, no call
    Plans,         \* plan names
    NoPlan,        \* no plan given, or none cached
    FreePlan,      \* the plan of a user nothing is known of
    PlanLimits,    \* BUDGET_LIMITS
    MaxUsers,      \* BUDGET_TRACKER_MAX_USERS
    LedgerMax,     \* BUDGET_LEDGER_MAX_PER_USER
    MaxAge,        \* BUDGET_RESERVATION_MAX_AGE_SECONDS, in ticks
    Amounts,       \* what a call is estimated at, and what it costs
    DaysPerMonth,
    LastDay        \* bound: the last day of a behaviour

ASSUME PlansAssumption == /\ FreePlan \in Plans /\ NoPlan \notin Plans
                          /\ PlanLimits \in [Plans -> [daily : Nat, monthly : Nat]]
ASSUME BoundsAssumption == /\ MaxUsers \in Nat \ {0} /\ LedgerMax \in Nat \ {0}
                           /\ MaxAge \in Nat /\ DaysPerMonth \in Nat \ {0} /\ LastDay \in Nat
ASSUME AmountsAssumption == Amounts \subseteq Nat
ASSUME CallersAssumption == IsFiniteSet(Callers)

VARIABLES
    ledger,        \* the records of each user, oldest first, or None
    order,         \* the users with a ledger, least recently used first
    plans,         \* the plan last recorded for each user, or NoPlan
    reservations,  \* the reservation of each caller, or None
    today,         \* the calendar day
    calling,       \* what each caller has in flight, or None
    \* History, read by no action:
    intact,        \* whether the tracker kept all of a user's spend this month
    spent          \* while it did: what the user's calls really cost

vars == <<ledger, order, plans, reservations, today, calling, intact, spent>>

SpendRecord == [amount : Nat, day : 0..LastDay]
Reservation == [user : Users, amount : Nat, plan : Plans, age : 0..MaxAge + 1]
Call == [user : Users, amount : Nat]

ASSUME NoneAssumption == None \notin Seq(SpendRecord) /\ None \notin Reservation /\ None \notin Call

-----------------------------------------------------------------------------
(* Sums over a user's ledger.                                              *)

Month(day) == day \div DaysPerMonth

Total(records, indices) == MapThenSumSet(LAMBDA i : records[i].amount, indices)

(* The scan goes backward from the newest record and stops at the first    *)
(* one outside the current month.                                          *)
(* (Here and below, a definition named for a slip is the one after it with *)
(* that slip in it, for the mutant runs.)                                  *)
MonthTailSkipsNewest(records) ==
    LET outside == {i \in DOMAIN records : Month(records[i].day) # Month(today)}
    IN  Max(outside \cup {0}) + 1 .. Len(records) - 1
MonthTail(records) ==
    LET outside == {i \in DOMAIN records : Month(records[i].day) # Month(today)}
    IN  Max(outside \cup {0}) + 1 .. Len(records)

Records(u) == IF ledger[u] = None THEN <<>> ELSE ledger[u]

MonthlySpend(u) == Total(Records(u), MonthTail(Records(u)))
DailySpend(u) ==
    Total(Records(u), {i \in MonthTail(Records(u)) : Records(u)[i].day = today})

(* What the live reservations of u hold.                                   *)
Pending(live, u) ==
    MapThenSumSet(LAMBDA c : live[c].amount, {c \in Callers : live[c] # None /\ live[c].user = u})

Touched(u) == IF ledger[u] = None THEN order
              ELSE Append(SelectSeq(order, LAMBDA v : v # u), u)

(* reserve_spend()'s test.                                                 *)
FitsIgnoringPending(live, u, amount, limits) ==
    /\ DailySpend(u) + amount <= limits.daily
    /\ MonthlySpend(u) + amount <= limits.monthly
Fits(live, u, amount, limits) ==
    /\ DailySpend(u) + Pending(live, u) + amount <= limits.daily
    /\ MonthlySpend(u) + Pending(live, u) + amount <= limits.monthly

(* The plan a call is charged to: the one given, else the cached one.      *)
Resolve(u, plan) == IF plan # NoPlan THEN plan
                    ELSE IF plans[u] # NoPlan THEN plans[u] ELSE FreePlan

(* Reservations older than MaxAge are taken for leaked ones.               *)
Swept(live) == [c \in Callers |-> IF live[c] # None /\ live[c].age > MaxAge
                                  THEN None ELSE live[c]]

-----------------------------------------------------------------------------
Init ==
    /\ ledger = [u \in Users |-> None]
    /\ order = <<>>
    /\ plans = [u \in Users |-> NoPlan]
    /\ reservations = [c \in Callers |-> None]
    /\ today = 0
    /\ calling = [c \in Callers |-> None]
    /\ spent = [u \in Users |-> [day |-> 0, month |-> 0]]
    /\ intact = [u \in Users |-> TRUE]

(* would_exceed_budget() and the spend getters: they only refresh the user. *)
Consult(u) ==
    /\ order' = Touched(u)
    /\ UNCHANGED <<ledger, plans, reservations, today, calling, spent, intact>>

(* reserve_spend(): None when it does not fit, else a reservation and the  *)
(* caller goes on to call the provider.                                    *)
ReserveSpend(c, u, amount, plan) ==
    LET live == Swept(reservations)
        resolved == Resolve(u, plan)
        fits == Fits(live, u, amount, PlanLimits[resolved])
    IN
    /\ calling[c] = None
    /\ order' = Touched(u)
    /\ reservations' = IF fits
                       THEN [live EXCEPT ![c] = [user |-> u, amount |-> amount,
                                                 plan |-> resolved, age |-> 0]]
                       ELSE live
    /\ calling' = IF fits THEN [calling EXCEPT ![c] = [user |-> u, amount |-> amount]] ELSE calling
    /\ UNCHANGED <<ledger, plans, today, spent, intact>>

(* Appending to u's ledger: a new user may evict the least recently used   *)
(* one, and a full ledger drops its oldest record.                         *)
Victims(u) == IF ledger[u] = None /\ Len(order) >= MaxUsers THEN {Head(order)} ELSE {}

Trimmed(records) == IF Len(records) > LedgerMax THEN Tail(records) ELSE records

PlansAfter(u, plan) ==
    [v \in Users |-> IF v = u THEN plan ELSE IF v \in Victims(u) THEN NoPlan ELSE plans[v]]

AddSpend(u, amount, plan) ==
    /\ ledger' = [v \in Users |->
                    IF v = u THEN Trimmed(Append(Records(u), [amount |-> amount, day |-> today]))
                    ELSE IF v \in Victims(u) THEN None ELSE ledger[v]]
    /\ order' = Append(SelectSeq(order, LAMBDA v : v # u /\ v \notin Victims(u)), u)
    /\ plans' = PlansAfter(u, plan)

(* The history of an append: a record of this month that was dropped, or a *)
(* whole ledger that was, is spend the tracker no longer knows.            *)
Kept(u) ==
    [v \in Users |->
        /\ intact[v]
        /\ v = u /\ Len(Records(u)) = LedgerMax => Month(Records(u)[1].day) # Month(today)
        /\ v \in Victims(u) => MonthlySpend(v) = 0]

(* What was spent is followed only while the tracker knows all of it.      *)
Charged(u, amount, known) ==
    [v \in Users |-> IF ~known[v] THEN [day |-> 0, month |-> 0]
                     ELSE IF v = u THEN [day |-> spent[u].day + amount,
                                         month |-> spent[u].month + amount]
                     ELSE spent[v]]

(* record_spend(): spend that was never reserved.                          *)
RecordSpend(u, amount, plan) ==
    /\ AddSpend(u, amount, plan)
    /\ intact' = Kept(u)
    /\ spent' = Charged(u, amount, Kept(u))
    /\ UNCHANGED <<reservations, today, calling>>

(* reconcile_spend(): the call cost amount.                                *)
ReconcileSpend(c, amount) ==
    LET u == calling[c].user IN
    /\ calling[c] # None /\ reservations[c] # None
    /\ AddSpend(u, amount, reservations[c].plan)
    /\ reservations' = [reservations EXCEPT ![c] = None]
    /\ calling' = [calling EXCEPT ![c] = None]
    /\ intact' = Kept(u)
    /\ spent' = Charged(u, amount, Kept(u))
    /\ UNCHANGED today

(* reconcile_spend() of a reservation that was swept raises KeyError: the  *)
(* call was made and nothing is recorded.                                  *)
ReconcileUnknown(c, amount) ==
    LET u == calling[c].user IN
    /\ calling[c] # None /\ reservations[c] = None
    /\ calling' = [calling EXCEPT ![c] = None]
    /\ intact' = [intact EXCEPT ![u] = @ /\ amount = 0]
    /\ spent' = Charged(u, amount, intact')
    /\ UNCHANGED <<ledger, order, plans, reservations, today>>

ReleaseReservation(c) ==
    /\ calling[c] # None
    /\ reservations' = [reservations EXCEPT ![c] = None]
    /\ calling' = [calling EXCEPT ![c] = None]
    /\ UNCHANGED <<ledger, order, plans, today, spent, intact>>

(* A day passes; with a new month the old month's spend stops counting.    *)
NewDay ==
    /\ today < LastDay
    /\ today' = today + 1
    /\ LET same == Month(today + 1) = Month(today) IN
       /\ spent' = [u \in Users |-> [day |-> 0, month |-> IF same THEN spent[u].month ELSE 0]]
       /\ intact' = [u \in Users |-> IF same THEN intact[u] ELSE TRUE]
    /\ UNCHANGED <<ledger, order, plans, reservations, calling>>

(* Reservations grow older, up to the age that tells them stale.           *)
Age ==
    /\ reservations' = [c \in Callers |->
                          IF reservations[c] # None /\ reservations[c].age <= MaxAge
                          THEN [reservations[c] EXCEPT !.age = @ + 1] ELSE reservations[c]]
    /\ UNCHANGED <<ledger, order, plans, today, calling, spent, intact>>

Next ==
    \/ \E u \in Users : Consult(u)
    \/ \E c \in Callers, u \in Users, amount \in Amounts, plan \in Plans \cup {NoPlan} :
          ReserveSpend(c, u, amount, plan)
    \/ \E u \in Users, amount \in Amounts, plan \in Plans : RecordSpend(u, amount, plan)
    \/ \E c \in Callers, amount \in Amounts :
          ReconcileSpend(c, amount) \/ ReconcileUnknown(c, amount)
    \/ \E c \in Callers : ReleaseReservation(c)
    \/ NewDay
    \/ Age

Spec == Init /\ [][Next]_vars

-----------------------------------------------------------------------------
TypeOK ==
    /\ ledger \in [Users -> Seq(SpendRecord) \cup {None}]
    /\ plans \in [Users -> Plans \cup {NoPlan}]
    /\ reservations \in [Callers -> Reservation \cup {None}]
    /\ today \in 0..LastDay
    /\ calling \in [Callers -> Call \cup {None}]
    /\ spent \in [Users -> [day : Nat, month : Nat]]
    /\ intact \in [Users -> BOOLEAN]

(* The cached plans are "evicted in lockstep with _ledger so the two never *)
(* disagree on which users are still tracked".                             *)
PlansMatchLedger == \A u \in Users : ledger[u] # None <=> plans[u] # NoPlan

(* A reservation stands for the call its caller has in flight: none        *)
(* outlives its call, so none holds budget that nobody will give back, and *)
(* it holds what the call was estimated at, for the same user.             *)
ReservationsBacked ==
    \A c \in Callers : reservations[c] # None =>
        /\ calling[c] # None
        /\ reservations[c].user = calling[c].user
        /\ reservations[c].amount = calling[c].amount

(* While nothing was forgotten, what the tracker reads off its ledger by   *)
(* scanning backward is what the user's calls cost today and this month,   *)
(* across midnight, the turn of a month, and evictions of older records.   *)
LedgerExact ==
    \A u \in Users : intact[u] => /\ DailySpend(u) = spent[u].day
                                  /\ MonthlySpend(u) = spent[u].month

InFlight(flights, u) ==
    MapThenSumSet(LAMBDA c : flights[c].amount,
                  {c \in Callers : flights[c] # None /\ flights[c].user = u})

(* A reservation is granted only if the user's plan has room for it beside *)
(* everything the user really spent and everything really in flight, not   *)
(* just what the tracker knows of: for a user of whom nothing was          *)
(* forgotten and whose calls in flight all have their reservations,        *)
(* concurrent requests cannot together pass the limit ("a hard concurrent  *)
(* cap").                                                                  *)
GrantsWithinPlan ==
    \A c \in Callers :
        LET granted == reservations'[c]
            u == granted.user
        IN  (/\ calling[c] = None /\ calling'[c] # None
             /\ intact[u]
             /\ \A d \in Callers : calling[d] # None /\ calling[d].user = u
                                   => reservations[d] # None /\ reservations[d].age <= MaxAge)
            => /\ spent[u].day + InFlight(calling', u) <= PlanLimits[granted.plan].daily
               /\ spent[u].month + InFlight(calling', u) <= PlanLimits[granted.plan].monthly
GrantsFitThePlan == [][GrantsWithinPlan]_vars

=============================================================================
